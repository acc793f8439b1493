--------------------------- MODULE RotationProofs ---------------------------
(***************************************************************************)
(* A rotated refresh token is not presented again, which the server would  *)
(* take for theft and answer by ending every session of the user.  For any *)
(* number of tabs, also of one browser: it takes a page load or a lost     *)
(* answer for a tab to do so.                                              *)
(***************************************************************************)
EXTENDS SessionsProofs

-----------------------------------------------------------------------------
(* What holds while no page was loaded again and no answer was lost. *)

\* Every answer is awaited, and no tab had to boot from the storage.
Attended == (\A m \in wire : ~m.gone) /\ (\A t \in Tabs : ~Busy(t, "boot"))

\* Only a refresh rotates a token.
RotatingRefreshes == \A m \in wire : m.at = "rotating" => m.call = "refresh"

\* The refreshes that a tab waits for.
Presents(t) == {m \in Mine(t) : m.call = "refresh"}

\* The refresh tokens that a tab holds or presents.
Owns(t) ==
    ({mem[t].refresh} \cup {m.token : m \in Presents(t)}) \ {None}

\* No two tabs own the same one: each comes from a login of its own.
OwnTokens == \A t, u \in Tabs : \A p \in Owns(t) : p \in Owns(u) => t = u

\* The token of a tab is rotated only until the tab takes the answer.
RotatedIsAnswered ==
    \A t \in Tabs : mem[t].refresh # None /\ session[mem[t].refresh] = "rotated"
        => \E m \in Presents(t) : m.at = "ok"

\* A pair that is on its way to a tab is not rotated yet.
AnswersUnrotated == \A m \in wire : m.pair # None => session[m.pair] # "rotated"

\* The tokens that are presented are not rotated.
PresentedUnrotated ==
    \A m \in Unanswered : m.call = "refresh" => session[m.token] # "rotated"

Undisturbed ==
    /\ Attended /\ RotatingRefreshes /\ OwnTokens
    /\ RotatedIsAnswered /\ AnswersUnrotated /\ PresentedUnrotated

RotationInv == SharingInv /\ (faults = 0 => Undisturbed)

LEMMA Presented ==
    ASSUME SharingInv, Attended
    PROVE  /\ \A m \in wire : m.from[1] \in Tabs /\ m \in Mine(m.from[1])
           /\ \A m \in wire : m.call = "refresh" => m.token \in Pairs
           /\ \A m \in wire : m.pair \in Pairs \cup {None}
           /\ \A t \in Tabs : mem[t].refresh \in Pairs \cup {None}
<1>1. wire \subseteq Message /\ mem \in [Tabs -> Memory]
  BY DEF SharingInv, TypeOK
<1>2. \A m \in wire : m.from[1] \in Tabs /\ m \in Mine(m.from[1])
  BY <1>1 DEF Attended, Mine, Message
<1>3. \A m \in wire : m.call = "refresh" => m.token \in Pairs
  BY <1>1, <1>2 DEF SharingInv, Shape, TabShape, WireMatches, Message
<1> QED
  BY <1>1, <1>2, <1>3 DEF Message, Memory

\* One refresh presents a token, whichever tab sends it.
LEMMA OnePresents ==
    ASSUME SharingInv, Attended, OwnTokens, NEW m \in wire, NEW n \in wire,
           m.call = "refresh", n.call = "refresh", m.token = n.token
    PROVE  m = n
<1>1. /\ m.from[1] \in Tabs /\ n.from[1] \in Tabs
      /\ m \in Presents(m.from[1]) /\ n \in Presents(n.from[1])
      /\ m.token \in Pairs /\ None \notin Pairs
  BY Presented, SessionsAssumption DEF Presents, SessionsAssumption
<1>2. m.token \in Owns(m.from[1]) /\ n.token \in Owns(n.from[1])
  BY <1>1 DEF Owns
<1>3. m.from[1] = n.from[1]
  BY <1>1, <1>2 DEF OwnTokens
<1>4. m \in Refreshes(m.from[1]) /\ n \in Refreshes(m.from[1])
  BY <1>3 DEF Refreshes, Attended
<1> QED
  BY <1>1, <1>4, SharingImplies DEF RefreshesShared

-----------------------------------------------------------------------------
(* The server. *)

\* What the server makes of a request: one message takes its place, and no token is
\* rotated but by the rotation that presents it, which is answered at once.
Serves(m, n) ==
    /\ m.at \notin Answers
    /\ wire' = (wire \ {m}) \cup {n}
    /\ n.from = m.from /\ ~n.gone /\ n.call = m.call /\ n.token = m.token
    /\ n.at = "rotating" => n.call = "refresh"
    /\ n.pair # None => session'[n.pair] # "rotated"
    /\ \A p \in Pairs : session'[p] = "rotated" /\ session[p] # "rotated"
          => p = m.token /\ m.at = "rotating" /\ n.at = "ok"

LEMMA ServedMessage ==
    ASSUME SharingInv, Attended, RotatingRefreshes,
           NEW m \in wire, Serve(m) \/ OutOfPairs(m)
    PROVE  \E n : Serves(m, n)
<1>1. /\ m \in Message /\ ~m.gone
      /\ session \in [Pairs -> {"none", "live", "lapsed", "rotated", "revoked"}]
      /\ m.at = "rotating" => m.call = "refresh"
      /\ m.call = "refresh" => m.token \in Pairs
      /\ m.at \notin Answers => m.pair = None
      /\ Answers = {"ok", "unauthorized", "failed"}
  BY Presented DEF SharingInv, TypeOK, FreshPairs, Unanswered, Attended, RotatingRefreshes, Answers
<1>2. ASSUME NEW a \in Answers, Answer(m, a), m.at \notin Answers,
             \A p \in Pairs : session'[p] = "rotated" => session[p] = "rotated"
      PROVE  \E n : Serves(m, n)
  <2>1. PICK n : n = [m EXCEPT !.at = a, !.pair = None, !.bearer = None, !.saw = {}]
    OBVIOUS
  <2>2. /\ n.from = m.from /\ n.gone = m.gone /\ n.call = m.call /\ n.token = m.token
        /\ n.at = a /\ n.pair = None
    BY <1>1, <2>1 DEF Message
  <2>3. wire' = (wire \ {m}) \cup {n}
    BY <1>1, <1>2, <2>1 DEF Answer, Reply
  <2>4. Serves(m, n)
    BY <1>1, <1>2, <2>2, <2>3 DEF Serves
  <2> QED
    BY <2>4
<1>3. ASSUME NEW a \in {"rotating", "revoking"}, NEW rows, Continue(m, a, rows),
             m.at = "sent", a = "rotating" => m.call = "refresh", session' = session
      PROVE  \E n : Serves(m, n)
  <2>1. PICK n : n = [m EXCEPT !.at = a, !.saw = rows]
    OBVIOUS
  <2>2. /\ n.from = m.from /\ n.gone = m.gone /\ n.call = m.call /\ n.token = m.token
        /\ n.at = a /\ n.pair = m.pair
    BY <1>1, <2>1 DEF Message
  <2>3. wire' = (wire \ {m}) \cup {n}
    BY <1>3, <2>1 DEF Continue
  <2>4. Serves(m, n)
    BY <1>1, <1>3, <2>2, <2>3 DEF Serves
  <2> QED
    BY <2>4
<1>4. ASSUME NEW rows \in [Pairs -> {"none", "live", "lapsed", "rotated", "revoked"}],
             IssuePair(m, rows), m.at \notin Answers,
             \A p \in Pairs : rows[p] = "rotated" /\ session[p] # "rotated"
                => p = m.token /\ m.at = "rotating"
      PROVE  \E n : Serves(m, n)
  <2>1. PICK q \in Pairs : /\ session' = [rows EXCEPT ![q] = "live"]
                           /\ wire' = (wire \ {m}) \cup Reply(m, "ok", q)
    BY <1>4 DEF IssuePair
  <2>2. PICK n : n = [m EXCEPT !.at = "ok", !.pair = q, !.bearer = None, !.saw = {}]
    OBVIOUS
  <2>3. /\ n.from = m.from /\ n.gone = m.gone /\ n.call = m.call /\ n.token = m.token
        /\ n.at = "ok" /\ n.pair = q
    BY <1>1, <2>2 DEF Message
  <2>4. wire' = (wire \ {m}) \cup {n}
    BY <1>1, <2>1, <2>2 DEF Reply
  <2>5. /\ session'[q] # "rotated"
        /\ \A p \in Pairs : session'[p] = "rotated" => rows[p] = "rotated"
    BY <2>1
  <2>6. Serves(m, n)
    BY <1>1, <1>4, <2>3, <2>4, <2>5 DEF Serves
  <2> QED
    BY <2>6
<1>5. CASE ServeLogin(m)
  BY <1>1, <1>2, <1>4, <1>5 DEF ServeLogin
<1>6. CASE ServeGet(m)
  BY <1>1, <1>2, <1>6 DEF ServeGet, server
<1>7. CASE ServeLogout(m)
  BY <1>1, <1>2, <1>7 DEF ServeLogout
<1>8. CASE ReadRefresh(m)
  BY <1>1, <1>2, <1>3, <1>8 DEF ReadRefresh, server
<1>9. CASE Rotate(m)
  <2> DEFINE rows == [session EXCEPT ![m.token] = "rotated"]
  <2>1. /\ rows \in [Pairs -> {"none", "live", "lapsed", "rotated", "revoked"}]
        /\ \A p \in Pairs : rows[p] = "rotated" /\ session[p] # "rotated" => p = m.token
    BY <1>1
  <2>2. IssuePair(m, rows) /\ m.at = "rotating"
    BY <1>9 DEF Rotate
  <2> HIDE DEF rows
  <2> QED
    BY <1>1, <1>4, <2>1, <2>2
<1>10. CASE ReadPassword(m)
  BY <1>1, <1>2, <1>3, <1>10 DEF ReadPassword, server
<1>11. CASE RevokeSeen(m)
  BY <1>1, <1>2, <1>11 DEF RevokeSeen
<1>12. CASE OutOfPairs(m)
  BY <1>1, <1>2, <1>12 DEF OutOfPairs, server
<1> QED
  BY <1>5, <1>6, <1>7, <1>8, <1>9, <1>10, <1>11, <1>12 DEF Serve

\* A rotation is noticed by the tab that presents the token alone, and it finds the
\* new pair in its answer.
LEMMA ServedUndisturbed ==
    ASSUME SharingInv, Undisturbed, NEW m \in wire, Serve(m) \/ OutOfPairs(m), UNCHANGED client
    PROVE  Undisturbed'
<1>0. Attended /\ RotatingRefreshes /\ OwnTokens /\ RotatedIsAnswered /\ AnswersUnrotated
        /\ PresentedUnrotated
  BY DEF Undisturbed
<1>1. PICK n : Serves(m, n)
  BY <1>0, ServedMessage
<1>2. mem' = mem /\ thread' = thread
  BY DEF client
<1>3. /\ \A k \in wire : k.from[1] \in Tabs /\ k \in Mine(k.from[1])
      /\ \A k \in wire : k.call = "refresh" => k.token \in Pairs
      /\ \A k \in wire : k.pair \in Pairs \cup {None}
      /\ \A t \in Tabs : mem[t].refresh \in Pairs \cup {None}
      /\ None \notin Pairs
  BY <1>0, Presented, SessionsAssumption DEF SessionsAssumption
<1>4. \A p \in Pairs : session'[p] = "rotated" /\ session[p] # "rotated"
          => p = m.token /\ m.call = "refresh" /\ n.at = "ok"
  BY <1>0, <1>1 DEF Serves, RotatingRefreshes
<1>5. \A t \in Tabs : \A k \in Presents(t)' :
          \E j \in Presents(t) : k.token = j.token
  <2> SUFFICES ASSUME NEW t \in Tabs, NEW k \in Presents(t)'
               PROVE  \E j \in Presents(t) : k.token = j.token
    OBVIOUS
  <2>1. \/ k \in Presents(t)
        \/ m \in Presents(t) /\ k.token = m.token
    BY <1>0, <1>1 DEF Serves, Presents, Mine, Attended
  <2> QED
    BY <2>1
<1>6. Attended' /\ RotatingRefreshes'
  BY <1>0, <1>1, <1>2 DEF Serves, Attended, RotatingRefreshes, Busy
<1>7. OwnTokens'
  <2>1. \A t \in Tabs : Owns(t)' \subseteq Owns(t)
    BY <1>2, <1>5 DEF Owns
  <2> QED
    BY <1>0, <2>1 DEF OwnTokens
<1>8. RotatedIsAnswered'
  <2> SUFFICES ASSUME NEW t \in Tabs, mem[t].refresh # None, session'[mem[t].refresh] = "rotated"
               PROVE  \E k \in Presents(t)' : k.at = "ok"
    BY <1>2 DEF RotatedIsAnswered
  <2>1. CASE session[mem[t].refresh] = "rotated"
    <3>1. PICK k \in Presents(t) : k.at = "ok"
      BY <1>0, <2>1 DEF RotatedIsAnswered
    <3>2. k \in Presents(t)'
      BY <1>1, <3>1 DEF Serves, Presents, Mine, Answers
    <3> QED
      BY <3>1, <3>2
  <2>2. CASE session[mem[t].refresh] # "rotated"
    <3>1. mem[t].refresh = m.token /\ m.call = "refresh" /\ n.at = "ok"
      BY <1>3, <1>4, <2>2
    <3>2. m \in Presents(m.from[1]) /\ m.from[1] \in Tabs
      BY <1>3, <3>1 DEF Presents
    <3>3. m.token \in Owns(t) /\ m.token \in Owns(m.from[1])
      BY <1>3, <3>1, <3>2 DEF Owns
    <3>4. m.from[1] = t
      BY <1>0, <3>2, <3>3 DEF OwnTokens
    <3>5. n \in Presents(t)'
      BY <1>1, <3>1, <3>4 DEF Serves, Presents, Mine
    <3> QED
      BY <3>1, <3>5
  <2> QED
    BY <2>1, <2>2
<1>9. AnswersUnrotated'
  <2> SUFFICES ASSUME NEW k \in wire', k.pair # None PROVE session'[k.pair] # "rotated"
    BY DEF AnswersUnrotated
  <2>1. CASE k = n
    BY <1>1, <2>1 DEF Serves
  <2>2. CASE k \in wire
    <3>1. session[k.pair] # "rotated" /\ k.pair \in Pairs
      BY <1>0, <1>3, <2>2 DEF AnswersUnrotated
    <3>2. k.pair \notin Held /\ m.token \in Held
      BY <2>2 DEF SharingInv, FreshPairs, Held
    <3> QED
      BY <1>4, <3>1, <3>2
  <2> QED
    BY <1>1, <2>1, <2>2 DEF Serves
<1>10. PresentedUnrotated'
  <2> SUFFICES ASSUME NEW k \in wire', k.at \notin Answers, k.call = "refresh",
                      session'[k.token] = "rotated"
               PROVE  FALSE
    BY DEF PresentedUnrotated, Unanswered
  <2>1. CASE k = n
    <3>1. m.call = "refresh" /\ m.at \notin Answers /\ k.token = m.token
      BY <1>1, <2>1 DEF Serves
    <3>2. session[m.token] # "rotated"
      BY <1>0, <3>1 DEF PresentedUnrotated, Unanswered
    <3> QED
      BY <1>3, <1>4, <2>1, <3>1, <3>2 DEF Answers
  <2>2. CASE k \in wire /\ k # m
    <3>1. session[k.token] # "rotated" /\ k.token \in Pairs
      BY <1>0, <1>3, <2>2 DEF PresentedUnrotated, Unanswered
    <3>2. k.token = m.token /\ m.call = "refresh"
      BY <1>4, <3>1
    <3> QED
      BY <1>0, <2>2, <3>2, OnePresents
  <2> QED
    BY <1>1, <2>1, <2>2 DEF Serves
<1> QED
  BY <1>6, <1>7, <1>8, <1>9, <1>10 DEF Undisturbed

\* Time rotates nothing.
LEMMA TimeUndisturbed ==
    ASSUME SharingInv, Undisturbed, UNCHANGED <<wire, client>>,
           Expire \/ Lapse \/ Purge \/ UNCHANGED session
    PROVE  Undisturbed'
<1>1. wire' = wire /\ mem' = mem /\ thread' = thread
  BY DEF client
<1>2. \A p \in Pairs : session'[p] = "rotated" => session[p] = "rotated"
  <2>1. session \in [Pairs -> {"none", "live", "lapsed", "rotated", "revoked"}]
    BY DEF SharingInv, TypeOK
  <2> QED
    BY <2>1 DEF Expire, Lapse, Purge, Oldest
<1>3. Attended' /\ RotatingRefreshes'
  BY <1>1 DEF Undisturbed, Attended, RotatingRefreshes, Busy
<1>4. \A t : Presents(t)' = Presents(t) /\ Owns(t)' = Owns(t)
  BY <1>1 DEF Presents, Owns, Mine
<1>5. OwnTokens'
  BY <1>4 DEF Undisturbed, OwnTokens
<1>6. Attended
  BY DEF Undisturbed
<1>7. RotatedIsAnswered' /\ AnswersUnrotated' /\ PresentedUnrotated'
  BY <1>1, <1>2, <1>4, <1>6, Presented DEF Undisturbed, RotatedIsAnswered, AnswersUnrotated,
       PresentedUnrotated, Unanswered
<1> QED
  BY <1>3, <1>5, <1>7 DEF Undisturbed

-----------------------------------------------------------------------------
(* The tabs. *)

\* What a tab does: it takes some of its answers and sends new requests, of which a
\* refresh presents the token of the store, and no refresh is open then.  The store
\* keeps its token, forgets it or takes that of an answer; it takes that of a
\* refresh in any case.
Moves(t, taken, sent) ==
    /\ taken \subseteq Mine(t) /\ wire' = (wire \ taken) \cup sent
    /\ \A n \in sent :
          /\ n.from[1] = t /\ ~n.gone /\ n.pair = None /\ n.at = "sent"
          /\ n.call = "refresh" => n.token = mem[t].refresh /\ n.token # None /\ ~Refreshing(t)
    /\ mem'[t].refresh \in {None, mem[t].refresh} \cup {k.pair : k \in taken}
    /\ \A k \in taken : k.call = "refresh" /\ k.at = "ok" => mem'[t].refresh = k.pair
    /\ \A u \in Tabs \ {t} : mem'[u].refresh = mem[u].refresh
    /\ \A u \in Tabs : ~Busy(u, "boot")'

LEMMA SentFacts ==
    ASSUME NEW t, NEW th, NEW call, NEW token, NEW access
    PROVE  LET n == Sent(t, th, call, token, access)
           IN /\ n.from[1] = t /\ ~n.gone /\ n.pair = None /\ n.at = "sent"
              /\ n.call = call /\ n.token = token
BY DEF Sent

LEMMA OpenMoves ==
    ASSUME SharingInv, Attended, NEW t \in Tabs, NEW th \in Threads \ {"boot"},
           NEW call \in Requests \ {"refresh"}, NEW token, NEW access,
           Open(t, th, call, token, access), UNCHANGED mem
    PROVE  \E taken, sent : Moves(t, taken, sent)
<1>1. thread \in [Tabs -> [Threads -> Thread]]
  BY DEF SharingInv, TypeOK
<1>2. "boot" \in Threads /\ \A u \in Tabs : ~Busy(u, "boot")
  BY DEF Attended, Threads
<1>3. \A u \in Tabs : thread'[u]["boot"] = thread[u]["boot"]
  BY <1>1, <1>2 DEF Open
<1>4. \A u \in Tabs : ~Busy(u, "boot")'
  BY <1>2, <1>3 DEF Busy
<1>5. wire' = (wire \ {}) \cup {Sent(t, th, call, token, access)}
  BY DEF Open
<1>6. Moves(t, {}, {Sent(t, th, call, token, access)})
  BY <1>4, <1>5, SentFacts DEF Moves
<1> QED
  BY <1>6

LEMMA RememberedRefresh ==
    ASSUME SharingInv, NEW t \in Tabs, NEW r, Remember(t, r)
    PROVE  mem'[t].refresh = r.refresh /\ \A u \in Tabs \ {t} : mem'[u] = mem[u]
<1>1. mem \in [Tabs -> Memory]
  BY DEF SharingInv, TypeOK
<1>2. mem'[t] = Routed(r) /\ \A u \in Tabs \ {t} : mem'[u] = mem[u]
  BY <1>1 DEF Remember
<1>3. Routed(r).refresh = r.refresh
  BY DEF Routed
<1> QED
  BY <1>2, <1>3

\* The user opens a call; a logout without a token only clears the store.
LEMMA CallsMove ==
    ASSUME SharingInv, Attended, NEW t \in Tabs, Login(t) \/ Call(t) \/ Logout(t)
    PROVE  \E taken, sent : Moves(t, taken, sent)
<1>1. /\ {"login", "logout"} \cup Calls \subseteq Threads \ {"boot"}
      /\ {"login", "logout", "get", "password"} \subseteq Requests \ {"refresh"}
  BY SessionsAssumption DEF Threads, Requests, SessionsAssumption
<1>2. CASE Login(t)
  BY <1>1, <1>2, OpenMoves DEF Login
<1>3. CASE Call(t)
  BY <1>1, <1>3, OpenMoves DEF Call
<1>4. CASE Logout(t) /\ mem[t].refresh # None
  BY <1>1, <1>4, OpenMoves DEF Logout
<1>5. CASE Logout(t) /\ mem[t].refresh = None
  <2>1. Remember(t, Cleared(mem[t])) /\ wire' = wire /\ thread' = thread
    BY <1>5 DEF Logout
  <2>2. mem[t] \in Memory
    BY DEF SharingInv, TypeOK
  <2>3. mem'[t].refresh = None /\ \A u \in Tabs \ {t} : mem'[u] = mem[u]
    BY <2>1, <2>2, RememberedRefresh DEF Cleared, Memory
  <2>4. \A u \in Tabs : ~Busy(u, "boot")'
    BY <2>1 DEF Attended, Busy
  <2>5. Moves(t, {}, {})
    BY <2>1, <2>3, <2>4 DEF Moves
  <2> QED
    BY <2>5
<1> QED
  BY <1>2, <1>3, <1>4, <1>5

\* An answer that is taken: nobody boots, and a refresh that was shared is answered to
\* its leader.
LEMMA TakenFacts ==
    ASSUME SharingInv, Attended, NEW t \in Tabs, NEW th \in Threads, NEW m \in wire,
           Receive(t, th, m)
    PROVE  /\ m \in Mine(t) /\ th # "boot"
           /\ thread[t][th].waits = "answer" => m.call # "refresh"
<1>1. /\ m.from = <<t, th>> /\ ~m.gone /\ thread[t][th].waits \in {"answer", "refresh"}
  BY DEF Receive, TakeTokens, TakeAnswer, TakeError, ShareRefresh, LeadRefresh,
         NothingToRefresh, Refreshed, RefreshFailed, Challenged, Answered
<1>2. m \in Mine(t) /\ m.from[2] = th
  BY <1>1 DEF Mine
<1>3. th # "boot"
  BY <1>1 DEF Attended, Busy
<1> QED
  BY <1>2, <1>3 DEF SharingInv, Shape, TabShape, WireMatches, ThreadsOK

\* The threads of ths end: the bootstrap stays idle.
LEMMA EndedBoot ==
    ASSUME SharingInv, Attended, NEW t \in Tabs, NEW ths, End(t, ths)
    PROVE  \A u \in Tabs : ~Busy(u, "boot")'
<1>1. thread \in [Tabs -> [Threads -> Thread]] /\ "boot" \in Threads
  BY DEF SharingInv, TypeOK, Threads
<1>2. \A u \in Tabs : thread'[u]["boot"] \in {thread[u]["boot"], Idle}
  BY <1>1 DEF End
<1> QED
  BY <1>2 DEF Attended, Busy, Idle

LEMMA ClearedRefresh ==
    ASSUME SharingInv, NEW t \in Tabs, NEW ths, Clear(t, ths)
    PROVE  mem'[t].refresh = None /\ \A u \in Tabs \ {t} : mem'[u] = mem[u]
<1> DEFINE r == [Cleared(mem[t]) EXCEPT !.boot = @ /\ "boot" \notin ths]
<1>1. mem[t] \in Memory
  BY DEF SharingInv, TypeOK
<1>2. r.refresh = None
  BY <1>1 DEF Cleared, Memory
<1>3. Remember(t, r)
  BY DEF Clear
<1> HIDE DEF r
<1> QED
  BY <1>2, <1>3, RememberedRefresh

\* The call of a thread ends, and the store keeps its token or forgets it.
LEMMA EndingMoves ==
    ASSUME SharingInv, Attended, NEW t \in Tabs, NEW th \in Threads, NEW m \in wire,
           \/ TakeAnswer(t, th, m) \/ TakeError(t, th, m)
           \/ NothingToRefresh(t, th, m) \/ RefreshFailed(t, th, m)
    PROVE  \E taken, sent : Moves(t, taken, sent)
<1>1. m \in Mine(t) /\ th # "boot"
  BY TakenFacts DEF Receive
<1>2. mem[t] \in Memory
  BY DEF SharingInv, TypeOK
<1>3. wire' = (wire \ {m}) \cup {} /\ ~(m.call = "refresh" /\ m.at = "ok")
  BY DEF TakeAnswer, TakeError, NothingToRefresh, RefreshFailed, Challenged
<1>4. \A u \in Tabs : ~Busy(u, "boot")'
  BY EndedBoot DEF TakeAnswer, TakeError, NothingToRefresh, RefreshFailed
<1>5. /\ mem'[t].refresh \in {None, mem[t].refresh}
      /\ \A u \in Tabs \ {t} : mem'[u].refresh = mem[u].refresh
  <2>1. CASE UNCHANGED mem
    BY <2>1
  <2>2. CASE \E ths : Clear(t, ths)
    BY <2>2, ClearedRefresh
  <2>0. ASSUME NEW r, r.refresh \in {None, mem[t].refresh}, Remember(t, r)
        PROVE  /\ mem'[t].refresh \in {None, mem[t].refresh}
               /\ \A u \in Tabs \ {t} : mem'[u].refresh = mem[u].refresh
    BY <2>0, RememberedRefresh
  <2>3. CASE Remember(t, Cleared(mem[t]))
    <3>1. Cleared(mem[t]).refresh = None
      BY <1>2 DEF Cleared, Memory
    <3> QED
      BY <2>0, <2>3, <3>1
  <2>4. CASE Remember(t, [mem[t] EXCEPT !.user = TRUE, !.page = "app"])
    <3> DEFINE r == [mem[t] EXCEPT !.user = TRUE, !.page = "app"]
    <3>1. r.refresh = mem[t].refresh
      BY <1>2 DEF Memory
    <3>2. Remember(t, r)
      BY <2>4
    <3> HIDE DEF r
    <3> QED
      BY <2>0, <3>1, <3>2
  <2> QED
    BY <1>1, <2>1, <2>2, <2>3, <2>4 DEF TakeAnswer, TakeError, NothingToRefresh, RefreshFailed
<1>6. Moves(t, {m}, {})
  BY <1>1, <1>3, <1>4, <1>5 DEF Moves
<1> QED
  BY <1>6

LEMMA ReceivedMoves ==
    ASSUME SharingInv, Attended, NEW t \in Tabs, NEW th \in Threads, NEW m \in wire,
           Receive(t, th, m)
    PROVE  \E taken, sent : Moves(t, taken, sent)
<1>0. /\ thread \in [Tabs -> [Threads -> Thread]] /\ "boot" \in Threads
      /\ mem[t] \in Memory
      /\ \A u \in Tabs : ~Busy(u, "boot")
  BY DEF SharingInv, TypeOK, Threads, Attended
<1>1. /\ m \in Mine(t) /\ th # "boot"
      /\ thread[t][th].waits = "answer" => m.call # "refresh"
  BY TakenFacts
<1>2. CASE \/ TakeAnswer(t, th, m) \/ TakeError(t, th, m)
           \/ NothingToRefresh(t, th, m) \/ RefreshFailed(t, th, m)
  BY <1>2, EndingMoves
<1>3. ASSUME \A u \in Tabs : thread'[u]["boot"] = thread[u]["boot"]
      PROVE  \A u \in Tabs : ~Busy(u, "boot")'
  BY <1>0, <1>3 DEF Busy
<1>4. \A r : Remember(t, WithTokens(mem[t], r)) =>
          mem'[t].refresh = r /\ \A u \in Tabs \ {t} : mem'[u] = mem[u]
  <2>1. \A r : WithTokens(mem[t], r).refresh = r
    BY <1>0 DEF WithTokens, Memory
  <2> QED
    BY <2>1, RememberedRefresh
<1>5. CASE TakeTokens(t, th, m)
  <2>1. \A u \in Tabs : ~Busy(u, "boot")'
    BY <1>0, <1>1, <1>3, <1>5 DEF TakeTokens
  <2>2. mem'[t].refresh = m.pair /\ \A u \in Tabs \ {t} : mem'[u] = mem[u]
    BY <1>4, <1>5 DEF TakeTokens
  <2>3. Moves(t, {m}, {Sent(t, th, "get", None, m.pair)})
    BY <1>1, <1>5, <2>1, <2>2, SentFacts DEF Moves, TakeTokens
  <2> QED
    BY <2>3
<1>6. CASE ShareRefresh(t, th, m)
  <2>1. \A u \in Tabs : ~Busy(u, "boot")'
    BY <1>0, <1>1, <1>3, <1>6 DEF ShareRefresh
  <2>2. Moves(t, {m}, {})
    BY <1>1, <1>6, <2>1 DEF Moves, ShareRefresh, Challenged
  <2> QED
    BY <2>2
<1>7. CASE LeadRefresh(t, th, m)
  <2>1. \A u \in Tabs : ~Busy(u, "boot")'
    BY <1>0, <1>1, <1>3, <1>7 DEF LeadRefresh
  <2>2. Moves(t, {m}, {Sent(t, th, "refresh", mem[t].refresh, None)})
    BY <1>1, <1>7, <2>1, SentFacts DEF Moves, LeadRefresh, Challenged
  <2> QED
    BY <2>2
<1>8. CASE Refreshed(t, th, m)
  <2> DEFINE again == {Sent(t, c, thread[t][c].call, thread[t][c].token, m.pair) : c \in Sharing(t)}
  <2>1. \A u \in Tabs : thread'[u]["boot"] = thread[u]["boot"]
    BY <1>0, <1>8 DEF Refreshed, Sharing, Busy
  <2>2. mem'[t].refresh = m.pair /\ \A u \in Tabs \ {t} : mem'[u] = mem[u]
    BY <1>4, <1>8 DEF Refreshed
  <2>3. \A c \in Sharing(t) : thread[t][c].call # "refresh"
    BY DEF SharingInv, Shape, TabShape, ThreadsOK, Sharing
  <2>4. \A n \in again : /\ n.from[1] = t /\ ~n.gone /\ n.pair = None /\ n.at = "sent"
                         /\ n.call # "refresh"
    BY <2>3, SentFacts
  <2>5. wire' = (wire \ {m}) \cup again
    BY <1>8 DEF Refreshed
  <2>6. \A u \in Tabs : ~Busy(u, "boot")'
    BY <1>3, <2>1
  <2> HIDE DEF again
  <2>7. Moves(t, {m}, again)
    BY <1>1, <2>2, <2>4, <2>5, <2>6 DEF Moves
  <2> QED
    BY <2>7
<1> QED
  BY <1>2, <1>5, <1>6, <1>7, <1>8 DEF Receive

\* What a tab takes was on its way to it alone, and what it presents it holds: the
\* others do not own it, and no answer for it is on its way.
LEMMA MovesUndisturbed ==
    ASSUME SharingInv, Undisturbed, NEW t \in Tabs, NEW taken, NEW sent, Moves(t, taken, sent),
           UNCHANGED server
    PROVE  Undisturbed'
<1>0. /\ Attended /\ RotatingRefreshes /\ OwnTokens /\ RotatedIsAnswered /\ AnswersUnrotated
      /\ PresentedUnrotated /\ session' = session
  BY DEF Undisturbed, server
<1>1. /\ \A k \in wire : k.from[1] \in Tabs /\ k \in Mine(k.from[1])
      /\ \A k \in wire : k.call = "refresh" => k.token \in Pairs
      /\ \A u \in Tabs : mem[u].refresh \in Pairs \cup {None}
      /\ None \notin Pairs
  BY <1>0, Presented, SessionsAssumption DEF SessionsAssumption
<1>2. /\ \A k \in wire' \ sent : k \in wire
      /\ \A n \in sent : /\ n.from[1] = t /\ ~n.gone /\ n.pair = None /\ n.at = "sent"
                         /\ n.call = "refresh" => n.token = mem[t].refresh /\ n.token # None /\ ~Refreshing(t)
      /\ taken \subseteq Mine(t)
  BY DEF Moves
<1>3. Attended' /\ RotatingRefreshes'
  BY <1>0, <1>2 DEF Moves, Attended, RotatingRefreshes
<1>4. OwnTokens'
  <2>1. \A u \in Tabs \ {t} : Owns(u)' = Owns(u)
    <3> SUFFICES ASSUME NEW u \in Tabs \ {t} PROVE Owns(u)' = Owns(u)
      OBVIOUS
    <3>1. Mine(u)' = Mine(u)
      BY <1>2 DEF Moves, Mine
    <3>2. mem'[u].refresh = mem[u].refresh
      BY DEF Moves
    <3> QED
      BY <3>1, <3>2 DEF Owns, Presents
  <2>2. \A p \in Owns(t)' : p \in Owns(t) \/ \E k \in taken : p = k.pair /\ p # None
    <3> SUFFICES ASSUME NEW p \in Owns(t)'
                 PROVE  p \in Owns(t) \/ \E k \in taken : p = k.pair /\ p # None
      OBVIOUS
    <3>1. CASE p = mem'[t].refresh
      BY <3>1 DEF Moves, Owns
    <3>2. ASSUME NEW k \in Presents(t)', p = k.token
          PROVE  p \in Owns(t)
      BY <1>2, <3>2 DEF Owns, Presents, Mine
    <3> QED
      BY <3>1, <3>2 DEF Owns
  <2>3. \A u \in Tabs : Owns(u) \subseteq Held
    BY DEF Owns, Presents, Mine, Held
  <2>4. \A k \in taken : k.pair # None => k.pair \notin Held
    BY <1>2 DEF SharingInv, FreshPairs, Mine
  <2>5. \A u \in Tabs \ {t} : \A p \in Owns(t)' : p \notin Owns(u)
    BY <1>0, <2>2, <2>3, <2>4 DEF OwnTokens
  <2>6. \A u, v \in Tabs : \A p \in Owns(u)' : p \in Owns(v)' => u = v
    BY <1>0, <2>1, <2>5 DEF OwnTokens
  <2> QED
    BY <2>6 DEF OwnTokens
<1>5. RotatedIsAnswered'
  <2> SUFFICES ASSUME NEW u \in Tabs, mem'[u].refresh # None,
                      session[mem'[u].refresh] = "rotated"
               PROVE  \E k \in Presents(u)' : k.at = "ok"
    BY <1>0 DEF RotatedIsAnswered
  <2>1. mem'[u].refresh = mem[u].refresh
    <3>1. \A k \in taken : k.pair # None => session[k.pair] # "rotated"
      BY <1>0, <1>2 DEF AnswersUnrotated, Mine
    <3> QED
      BY <3>1 DEF Moves
  <2>2. PICK k \in Presents(u) : k.at = "ok"
    BY <1>0, <2>1 DEF RotatedIsAnswered
  <2>3. k \notin taken
    <3> SUFFICES ASSUME k \in taken PROVE FALSE
      OBVIOUS
    <3>1. u = t
      BY <1>2, <2>2 DEF Presents, Mine
    <3>2. mem'[u].refresh = k.pair
      BY <2>2, <3>1 DEF Moves, Presents
    <3> QED
      BY <1>0, <2>2, <3>2 DEF AnswersUnrotated, Presents, Mine
  <2>4. k \in Presents(u)'
    BY <2>2, <2>3 DEF Moves, Presents, Mine
  <2> QED
    BY <2>2, <2>4
<1>6. AnswersUnrotated'
  BY <1>0, <1>2 DEF AnswersUnrotated
<1>7. PresentedUnrotated'
  <2> SUFFICES ASSUME NEW n \in sent, n.call = "refresh", session[n.token] = "rotated",
                      n.token # None
               PROVE  FALSE
    <3>1. ASSUME NEW n \in wire', n.at \notin Answers, n.call = "refresh",
                 session[n.token] = "rotated"
          PROVE  n \in sent /\ n.token # None
      <4>1. n \in sent
        BY <1>0, <1>2, <3>1 DEF PresentedUnrotated, Unanswered
      <4> QED
        BY <1>2, <3>1, <4>1
    <3> QED
      BY <1>0, <3>1 DEF PresentedUnrotated, Unanswered
  <2>1. n.token = mem[t].refresh /\ ~Refreshing(t)
    BY <1>2
  <2>2. PICK k \in Presents(t) : k.at = "ok"
    BY <1>0, <2>1 DEF RotatedIsAnswered
  <2>3. k.from[2] \in Threads
    BY <2>2 DEF SharingInv, TypeOK, Message, Presents, Mine
  <2>4. thread[t][k.from[2]].waits = "refresh"
    BY <1>0, <2>2, <2>3 DEF SharingInv, Shape, TabShape, WireMatches, ThreadsOK, Presents,
         Attended, Busy
  <2> QED
    BY <2>1, <2>3, <2>4 DEF Refreshing
<1> QED
  BY <1>3, <1>4, <1>5, <1>6, <1>7 DEF Undisturbed

-----------------------------------------------------------------------------
(* Rotation. *)

LEMMA InitRotation == Init => RotationInv
<1> SUFFICES ASSUME Init PROVE Undisturbed
  BY InitSharing DEF RotationInv
<1>1. wire = {} /\ Unanswered = {} /\ \A t : Presents(t) = {}
  BY DEF Init, Unanswered, Presents, Mine
<1>2. \A t \in Tabs : mem[t].refresh = None /\ ~Busy(t, "boot")
  BY DEF Init, SignedOut, Busy, Idle, Threads
<1> QED
  BY <1>1, <1>2 DEF Undisturbed, Attended, RotatingRefreshes, OwnTokens, Owns, RotatedIsAnswered,
       AnswersUnrotated, PresentedUnrotated

\* One page load or lost answer is enough to be disturbed for good.
LEMMA RotationStep == RotationInv /\ [Next]_vars => RotationInv'
<1> SUFFICES ASSUME SharingInv, faults = 0 => Undisturbed, [Next]_vars, faults' = 0
             PROVE  Undisturbed'
  BY SharingStep DEF RotationInv
<1>1. /\ \A m \in wire : ~Lose(m)
      /\ \A t \in Tabs : ~Load(t)
  <2>1. faults' # faults + 1
    BY SessionsAssumption DEF SharingInv, TypeOK, SessionsAssumption
  <2> QED
    BY <2>1 DEF Lose, Load
<1>2. faults = 0
  <2>1. CASE UNCHANGED faults
    BY <2>1
  <2>2. CASE ~UNCHANGED faults
    BY <1>1, <2>2 DEF Next, User, Login, Call, Logout, Progress, vars
  <2> QED
    BY <2>1, <2>2
<1>3. Undisturbed /\ Attended
  BY <1>2 DEF Undisturbed
<1>4. ASSUME NEW t \in Tabs, User(t) PROVE Undisturbed'
  <2>1. PICK taken, sent : Moves(t, taken, sent)
    BY <1>1, <1>3, <1>4, CallsMove DEF User
  <2>2. UNCHANGED server
    BY <1>4 DEF User, Load, Login, Call, Logout
  <2> QED
    BY <1>3, <2>1, <2>2, MovesUndisturbed
<1>5. ASSUME NEW t \in Tabs, NEW th \in Threads, Progress(t, th) PROVE Undisturbed'
  <2>1. PICK m \in wire : \/ (Serve(m) \/ OutOfPairs(m)) /\ UNCHANGED client
                          \/ Receive(t, th, m) /\ UNCHANGED server
    BY <1>5 DEF Progress
  <2>2. CASE (Serve(m) \/ OutOfPairs(m)) /\ UNCHANGED client
    BY <1>3, <2>2, ServedUndisturbed
  <2>3. CASE Receive(t, th, m) /\ UNCHANGED server
    <3>1. PICK taken, sent : Moves(t, taken, sent)
      BY <1>3, <2>3, ReceivedMoves
    <3> QED
      BY <1>3, <2>3, <3>1, MovesUndisturbed
  <2> QED
    BY <2>1, <2>2, <2>3
<1>6. CASE (Expire \/ Lapse \/ Purge) /\ UNCHANGED <<wire, client, faults>>
  BY <1>3, <1>6, TimeUndisturbed
<1>7. CASE UNCHANGED vars
  BY <1>3, <1>7, TimeUndisturbed DEF vars, server
<1>8. \A m \in wire : ~m.gone
  BY <1>3 DEF Attended
<1> QED
  BY <1>1, <1>4, <1>5, <1>6, <1>7, <1>8 DEF Next

\* Without a page load and a lost answer no tab presents a refresh token that
\* rotate_refresh has rotated: refreshAccessToken takes the token of the store, and a
\* tab whose token was rotated has the answer on its way, which the leader of the
\* refresh stores before another refresh is sent.
THEOREM RotatedNeverPresented == Spec => []RotatedStaysUnused
<1>1. RotationInv => RotatedStaysUnused
  BY DEF RotationInv, Undisturbed, PresentedUnrotated, RotatedStaysUnused
<1> QED
  BY <1>1, InitRotation, RotationStep, PTL DEF Spec
=============================================================================
