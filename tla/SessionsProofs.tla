--------------------------- MODULE SessionsProofs ---------------------------
(***************************************************************************)
(* What holds of the sessions for any number of tabs, browsers, calls,     *)
(* token pairs, page loads and lost answers.                               *)
(***************************************************************************)
EXTENDS Sessions, TLAPS

Token == Pairs \cup {None}

-----------------------------------------------------------------------------
(* The operators return values of their types. *)

LEMMA ReplyType ==
    \A m \in Message, a \in Answers, p \in Token : Reply(m, a, p) \subseteq Message
BY DEF Reply, Message, Token, Answers

LEMMA ContinueType ==
    \A m \in Message, a \in {"rotating", "revoking"}, rows \in SUBSET Pairs :
        [m EXCEPT !.at = a, !.saw = rows] \in Message
BY DEF Message

LEMMA SentType ==
    \A t \in Tabs, th \in Threads, call \in Requests, token \in Token, access \in Token :
        Sent(t, th, call, token, access) \in Message
BY DEF Sent, Message, Token

LEMMA AwaitsType ==
    \A call \in Requests, token \in Token : Awaits(call, token) \in Thread
BY DEF Awaits, Thread, Token

LEMMA IdleType == Idle \in Thread
BY DEF Idle, Thread, Requests

LEMMA ClearedType == \A r \in Memory : Cleared(r) \in Memory
BY DEF Cleared, Memory

LEMMA WithTokensType == \A r \in Memory, p \in Token : WithTokens(r, p) \in Memory
BY DEF WithTokens, Memory, Token

LEMMA RoutedType == \A r \in Memory : Routed(r) \in Memory
BY DEF Routed, Memory

-----------------------------------------------------------------------------
(* Types. *)

ServerTyped ==
    /\ session \in [Pairs -> {"none", "live", "lapsed", "rotated", "revoked"}]
    /\ expired \subseteq Pairs /\ denied \subseteq Pairs

ClientTyped ==
    /\ mem \in [Tabs -> Memory]
    /\ disk \in [Browsers -> Token]
    /\ thread \in [Tabs -> [Threads -> Thread]]

LEMMA TypeParts ==
    TypeOK <=> ServerTyped /\ wire \subseteq Message /\ ClientTyped /\ faults \in 0 .. MaxFaults
BY DEF TypeOK, ServerTyped, ClientTyped, Token

\* The server keeps its tables and its answers within their types.
LEMMA ServeType ==
    ASSUME ServerTyped, wire \subseteq Message, NEW m \in wire, Serve(m)
    PROVE  ServerTyped' /\ wire' \subseteq Message
<1> USE DEF ServerTyped
<1>0. /\ m \in Message /\ m.token \in Token /\ m.bearer \in Token /\ m.saw \subseteq Pairs
      /\ None \in Token /\ {"ok", "unauthorized", "failed"} = Answers
  BY DEF Message, Token, Answers
<1>1. ASSUME NEW a \in Answers, Answer(m, a) PROVE wire' \subseteq Message
  BY <1>0, <1>1, ReplyType DEF Answer
<1>2. ASSUME NEW a \in {"rotating", "revoking"}, NEW rows \in SUBSET Pairs, Continue(m, a, rows)
      PROVE  wire' \subseteq Message
  <2>1. [m EXCEPT !.at = a, !.saw = rows] \in Message
    BY <1>0, ContinueType
  <2> QED
    BY <1>2, <2>1 DEF Continue
<1>3. ASSUME NEW rows \in [Pairs -> {"none", "live", "lapsed", "rotated", "revoked"}],
             IssuePair(m, rows)
      PROVE  /\ wire' \subseteq Message
             /\ session' \in [Pairs -> {"none", "live", "lapsed", "rotated", "revoked"}]
  <2>1. PICK p \in Pairs : /\ session' = [rows EXCEPT ![p] = "live"]
                           /\ wire' = (wire \ {m}) \cup Reply(m, "ok", p)
    BY <1>3 DEF IssuePair
  <2>2. p \in Token
    BY DEF Token
  <2>3. Reply(m, "ok", p) \subseteq Message
    BY <1>0, <2>2, ReplyType
  <2> QED
    BY <2>1, <2>3
<1>4. Unrevoked \subseteq Pairs
  BY DEF Unrevoked
<1>5. Authorized(m) => m.bearer \in Pairs
  BY <1>0 DEF Authorized, Token
<1>6. CASE ServeLogin(m)
  BY <1>0, <1>1, <1>3, <1>6 DEF ServeLogin
<1>7. CASE ServeGet(m)
  BY <1>0, <1>1, <1>7 DEF ServeGet, server
<1>8. CASE ServeLogout(m)
  <2>1. CASE Authorized(m)
    <3>1. session' \in [Pairs -> {"none", "live", "lapsed", "rotated", "revoked"}]
      BY <1>8, <2>1 DEF ServeLogout
    <3>2. denied' \subseteq Pairs /\ expired' \subseteq Pairs
      BY <1>5, <1>8, <2>1 DEF ServeLogout
    <3> QED
      BY <1>0, <1>1, <1>8, <2>1, <3>1, <3>2 DEF ServeLogout
  <2>2. CASE ~Authorized(m)
    BY <1>0, <1>1, <1>8, <2>2 DEF ServeLogout
  <2> QED
    BY <2>1, <2>2
<1>9. CASE ReadRefresh(m)
  BY <1>0, <1>1, <1>2, <1>4, <1>9 DEF ReadRefresh, server
<1>10. CASE Rotate(m)
  BY <1>3, <1>10 DEF Rotate
<1>11. CASE ReadPassword(m)
  BY <1>0, <1>1, <1>2, <1>4, <1>11 DEF ReadPassword, server
<1>12. CASE RevokeSeen(m)
  BY <1>0, <1>1, <1>12 DEF RevokeSeen
<1> QED
  BY <1>6, <1>7, <1>8, <1>9, <1>10, <1>11, <1>12 DEF Serve

LEMMA RememberType ==
    ASSUME mem \in [Tabs -> Memory], disk \in [Browsers -> Token],
           NEW t \in Tabs, NEW r \in Memory, Remember(t, r)
    PROVE  mem' \in [Tabs -> Memory] /\ disk' \in [Browsers -> Token]
<1>1. Routed(r) \in Memory /\ r.refresh \in Token
  BY RoutedType DEF Memory, Token
<1> QED
  BY <1>1 DEF Remember, Browsers

LEMMA EndType ==
    ASSUME thread \in [Tabs -> [Threads -> Thread]], NEW t \in Tabs, NEW ths, End(t, ths)
    PROVE  thread' \in [Tabs -> [Threads -> Thread]]
BY IdleType DEF End

LEMMA OpenType ==
    ASSUME thread \in [Tabs -> [Threads -> Thread]], wire \subseteq Message,
           NEW t \in Tabs, NEW th \in Threads, NEW call \in Requests,
           NEW token \in Token, NEW access \in Token, Open(t, th, call, token, access)
    PROVE  thread' \in [Tabs -> [Threads -> Thread]] /\ wire' \subseteq Message
BY SentType, AwaitsType DEF Open

LEMMA ClearType ==
    ASSUME mem \in [Tabs -> Memory], disk \in [Browsers -> Token],
           NEW t \in Tabs, NEW ths, Clear(t, ths)
    PROVE  mem' \in [Tabs -> Memory] /\ disk' \in [Browsers -> Token]
<1>1. Cleared(mem[t]) \in Memory
  BY ClearedType
<1>2. [Cleared(mem[t]) EXCEPT !.boot = @ /\ "boot" \notin ths] \in Memory
  BY <1>1 DEF Memory
<1> QED
  BY <1>2, RememberType DEF Clear

\* A tab keeps its stores and its calls within their types.
LEMMA ReceiveType ==
    ASSUME ClientTyped, wire \subseteq Message,
           NEW t \in Tabs, NEW th \in Threads, NEW m \in wire, Receive(t, th, m)
    PROVE  ClientTyped' /\ wire' \subseteq Message
<1> USE DEF ClientTyped
<1>0. /\ m \in Message /\ m.pair \in Token /\ None \in Token
      /\ mem[t] \in Memory /\ mem[t].refresh \in Token
      /\ thread[t] \in [Threads -> Thread]
      /\ {"get", "refresh"} \subseteq Requests
  BY DEF Message, Token, Memory, Requests
<1>1. CASE TakeTokens(t, th, m)
  <2>1. WithTokens(mem[t], m.pair) \in Memory
    BY <1>0, WithTokensType
  <2>2. Sent(t, th, "get", None, m.pair) \in Message /\ Awaits("get", None) \in Thread
    BY <1>0, SentType, AwaitsType
  <2> QED
    BY <1>1, <2>1, <2>2, RememberType DEF TakeTokens
<1>2. CASE TakeAnswer(t, th, m)
  <2>1. /\ [mem[t] EXCEPT !.user = TRUE, !.page = "app"] \in Memory
        /\ [mem[t] EXCEPT !.user = TRUE, !.boot = FALSE] \in Memory
    BY <1>0 DEF Memory
  <2>2. Cleared(mem[t]) \in Memory
    BY <1>0, ClearedType
  <2>3. mem' \in [Tabs -> Memory] /\ disk' \in [Browsers -> Token]
    BY <1>2, <2>1, <2>2, RememberType DEF TakeAnswer
  <2> QED
    BY <1>2, <2>3, EndType DEF TakeAnswer
<1>3. CASE TakeError(t, th, m)
  BY <1>3, EndType, ClearType DEF TakeError
<1>4. CASE ShareRefresh(t, th, m)
  <2>1. [thread[t][th] EXCEPT !.waits = "shared", !.retried = TRUE] \in Thread
    BY <1>0 DEF Thread
  <2> QED
    BY <1>4, <2>1 DEF ShareRefresh, Thread
<1>5. CASE LeadRefresh(t, th, m)
  <2>1. [thread[t][th] EXCEPT !.waits = "refresh", !.retried = TRUE] \in Thread
    BY <1>0 DEF Thread
  <2>2. Sent(t, th, "refresh", mem[t].refresh, None) \in Message
    BY <1>0, SentType
  <2> QED
    BY <1>5, <2>1, <2>2 DEF LeadRefresh, Thread
<1>6. CASE NothingToRefresh(t, th, m)
  BY <1>6, EndType, ClearType DEF NothingToRefresh
<1>7. CASE Refreshed(t, th, m)
  <2>1. WithTokens(mem[t], m.pair) \in Memory
    BY <1>0, WithTokensType
  <2>2. \A c \in Threads : /\ thread[t][c] \in Thread
                           /\ [thread[t][c] EXCEPT !.waits = "answer"] \in Thread
                           /\ thread[t][c].call \in Requests /\ thread[t][c].token \in Token
    BY <1>0 DEF Thread, Token
  <2>3. {Sent(t, c, thread[t][c].call, thread[t][c].token, m.pair) : c \in Sharing(t)}
            \subseteq Message
    <3>1. \A c \in Threads : Sent(t, c, thread[t][c].call, thread[t][c].token, m.pair)
                               \in Message
      BY <1>0, <2>2, SentType
    <3>2. Sharing(t) \subseteq Threads
      BY DEF Sharing
    <3> QED
      BY <3>1, <3>2
  <2>4. thread' \in [Tabs -> [Threads -> Thread]]
    BY <1>7, <2>2 DEF Refreshed
  <2> QED
    BY <1>7, <2>1, <2>3, <2>4, RememberType DEF Refreshed
<1>8. CASE RefreshFailed(t, th, m)
  BY <1>8, EndType, ClearType DEF RefreshFailed
<1> QED
  BY <1>1, <1>2, <1>3, <1>4, <1>5, <1>6, <1>7, <1>8 DEF Receive

LEMMA LoadType ==
    ASSUME ClientTyped, wire \subseteq Message, NEW t \in Tabs, Load(t)
    PROVE  ClientTyped' /\ wire' \subseteq Message
<1> USE DEF ClientTyped
<1> DEFINE old   == {m \in wire : m.from[1] = t /\ ~m.gone}
           left  == {[m EXCEPT !.gone = TRUE] : m \in old \cap Unanswered}
           token == disk[Storage[t]]
           fresh == [th \in Threads |-> Idle]
<1>1. token \in Token /\ mem[t] \in Memory /\ "boot" \in Threads /\ "refresh" \in Requests
      /\ None \in Token
  BY DEF Browsers, Threads, Requests, Token
<1>2. [SignedOut EXCEPT !.refresh = token, !.boot = token # None, !.page = mem[t].page]
        \in Memory
  BY <1>1 DEF SignedOut, Memory, Token
<1>3. mem' \in [Tabs -> Memory]
  BY <1>2, RoutedType DEF Load
<1>4. left \subseteq Message
  <2>1. \A m \in Message : [m EXCEPT !.gone = TRUE] \in Message
    BY DEF Message
  <2>2. old \cap Unanswered \subseteq Message
    BY DEF Unanswered
  <2> QED
    BY <2>1, <2>2
<1>5. fresh \in [Threads -> Thread] /\ Awaits("refresh", token) \in Thread
  BY <1>1, IdleType, AwaitsType
<1>6. Sent(t, "boot", "refresh", token, None) \in Message
  BY <1>1, SentType
<1>7. CASE token = None
  BY <1>3, <1>4, <1>5, <1>7 DEF Load
<1>8. CASE token # None
  <2>1. [fresh EXCEPT !["boot"] = Awaits("refresh", token)] \in [Threads -> Thread]
    BY <1>5
  <2> HIDE DEF fresh
  <2> QED
    BY <1>3, <1>4, <1>6, <1>8, <2>1 DEF Load, fresh
<1> QED
  BY <1>7, <1>8

\* The user opens a call.
LEMMA CallsType ==
    ASSUME ClientTyped, wire \subseteq Message, NEW t \in Tabs,
           Login(t) \/ Call(t) \/ Logout(t)
    PROVE  ClientTyped' /\ wire' \subseteq Message
<1> USE DEF ClientTyped
<1>0. /\ mem[t] \in Memory /\ mem[t].refresh \in Token /\ mem[t].access \in Token
      /\ None \in Token /\ {"login", "logout"} \cup Calls \subseteq Threads
      /\ {"login", "logout", "get", "password"} \subseteq Requests
  BY DEF Memory, Token, Threads, Requests
<1>1. CASE Login(t)
  BY <1>0, <1>1, OpenType DEF Login
<1>2. CASE Call(t)
  BY <1>0, <1>2, OpenType DEF Call
<1>3. CASE Logout(t)
  <2>1. Cleared(mem[t]) \in Memory
    BY <1>0, ClearedType
  <2> QED
    BY <1>0, <1>3, <2>1, OpenType, RememberType DEF Logout
<1> QED
  BY <1>1, <1>2, <1>3

\* The network and the passing of time.
LEMMA WireType ==
    ASSUME ServerTyped, wire \subseteq Message, faults \in 0 .. MaxFaults, NEW m \in wire,
           Lose(m) \/ (Drop(m) /\ UNCHANGED faults) \/ (OutOfPairs(m) /\ UNCHANGED faults)
    PROVE  ServerTyped' /\ wire' \subseteq Message /\ faults' \in 0 .. MaxFaults
<1>1. /\ m \in Message /\ "failed" \in Answers /\ None \in Token
      /\ [m EXCEPT !.gone = TRUE] \in Message
  BY DEF Message, Token, Answers
<1>2. Reply(m, "failed", None) \subseteq Message
  BY <1>1, ReplyType
<1>3. wire' \subseteq Message
  BY <1>1, <1>2 DEF Lose, Drop, OutOfPairs, Answer
<1>4. faults' \in 0 .. MaxFaults
  BY SessionsAssumption DEF Lose, SessionsAssumption
<1>5. ServerTyped'
  BY DEF ServerTyped, server, Lose, Drop, OutOfPairs
<1> QED
  BY <1>3, <1>4, <1>5

LEMMA TimeType ==
    ASSUME ServerTyped, Expire \/ Lapse \/ Purge
    PROVE  ServerTyped'
BY DEF ServerTyped, Expire, Lapse, Purge, Oldest, Issued

LEMMA InitTypes == Init => TypeOK
BY IdleType, SessionsAssumption DEF Init, TypeOK, SessionsAssumption, SignedOut, Memory

LEMMA StepTypes == TypeOK /\ [Next]_vars => TypeOK'
<1> SUFFICES ASSUME ServerTyped, wire \subseteq Message, ClientTyped,
                    faults \in 0 .. MaxFaults, [Next]_vars
             PROVE  ServerTyped' /\ wire' \subseteq Message /\ ClientTyped'
                      /\ faults' \in 0 .. MaxFaults
  BY TypeParts DEF TypeOK, ServerTyped, ClientTyped, Token
<1>1. ASSUME UNCHANGED server PROVE ServerTyped'
  BY <1>1 DEF server, ServerTyped
<1>2. ASSUME UNCHANGED client PROVE ClientTyped'
  BY <1>2 DEF client, ClientTyped
<1>3. ASSUME NEW t \in Tabs, User(t)
      PROVE  ServerTyped' /\ wire' \subseteq Message /\ ClientTyped' /\ faults' \in 0 .. MaxFaults
  <2>1. UNCHANGED server
    BY <1>3 DEF User, Load, Login, Call, Logout
  <2>2. faults' \in 0 .. MaxFaults
    BY <1>3, SessionsAssumption DEF User, Load, Login, Call, Logout, SessionsAssumption
  <2> QED
    BY <1>1, <1>3, <2>1, <2>2, LoadType, CallsType DEF User
<1>4. ASSUME NEW t \in Tabs, NEW th \in Threads, Progress(t, th)
      PROVE  ServerTyped' /\ wire' \subseteq Message /\ ClientTyped' /\ faults' \in 0 .. MaxFaults
  <2>1. PICK m \in wire : \/ (Serve(m) \/ OutOfPairs(m)) /\ UNCHANGED <<client, faults>>
                          \/ Receive(t, th, m) /\ UNCHANGED <<server, faults>>
    BY <1>4 DEF Progress
  <2> QED
    BY <1>1, <1>2, <2>1, ServeType, WireType, ReceiveType
<1>5. ASSUME NEW m \in wire, Lose(m) /\ UNCHANGED client
      PROVE  ServerTyped' /\ wire' \subseteq Message /\ ClientTyped' /\ faults' \in 0 .. MaxFaults
  BY <1>2, <1>5, WireType
<1>6. ASSUME NEW m \in wire, (Serve(m) \/ Drop(m)) /\ UNCHANGED <<client, faults>>
      PROVE  ServerTyped' /\ wire' \subseteq Message /\ ClientTyped' /\ faults' \in 0 .. MaxFaults
  BY <1>2, <1>6, ServeType, WireType
<1>7. CASE (Expire \/ Lapse \/ Purge) /\ UNCHANGED <<wire, client, faults>>
  BY <1>2, <1>7, TimeType
<1>8. CASE UNCHANGED vars
  BY <1>1, <1>2, <1>8 DEF vars
<1> QED
  BY <1>3, <1>4, <1>5, <1>6, <1>7, <1>8 DEF Next

\* The stores, the storage, the tables and the messages keep values of their types.
THEOREM TypesHold == Spec => []TypeOK
BY InitTypes, StepTypes, PTL DEF Spec

-----------------------------------------------------------------------------
(* One refresh for all the calls of a tab. *)

\* The messages that the threads of a tab wait for.
Mine(t) == {m \in wire : ~m.gone /\ m.from[1] = t}

\* Such a message is the call that its thread has open, and one that refreshes
\* presents a token.
WireMatches(t) ==
    \A m \in Mine(t) :
        LET th == thread[t][m.from[2]]
        IN /\ th.waits \in {"answer", "refresh"}
           /\ th.waits = "refresh" => m.call = "refresh"
           /\ th.waits = "answer" => m.call = th.call
           /\ m.call = "refresh" => m.token # None

\* A thread waits for one message.
OneEach(t) == \A m, n \in Mine(t) : m.from = n.from => m = n

\* Only the bootstrap calls for a refresh, a shared refresh has one leader, and a
\* tab shows its splash screen while it boots.
ThreadsOK(t) ==
    /\ Busy(t, "boot") => mem[t].boot
    /\ \A th \in Threads :
          thread[t][th].call = "refresh" => th = "boot" /\ thread[t][th].waits = "answer"
    /\ \A th, c \in Threads :
          thread[t][th].waits = "refresh" /\ thread[t][c].waits = "refresh" => c = th

\* The refresh of the bootstrap.
Booting(t, b) ==
    /\ b.from = <<t, "boot">> /\ b.call = "refresh" /\ thread[t]["boot"].waits = "answer"

\* While it is open nothing but a login is, unless the store holds another token, and
\* no other refresh presents its token.
BootAlone(t) ==
    \A b, n \in Mine(t) :
        Booting(t, b) /\ n # b => /\ mem[t].refresh = b.token => n.call = "login"
                                  /\ n.call = "refresh" => n.token # b.token

TabShape(t) == WireMatches(t) /\ OneEach(t) /\ ThreadsOK(t) /\ BootAlone(t)

Shape == \A t \in Tabs : TabShape(t)

\* The refresh tokens that the tabs hold or have sent.
Held ==
    {mem[t].refresh : t \in Tabs} \cup {disk[b] : b \in Browsers}
      \cup {thread[p[1]][p[2]].token : p \in Tabs \X Threads} \cup {m.token : m \in wire}

\* A pair that was issued and not yet received is known to nobody.
FreshPairs ==
    /\ Held \subseteq Issued \cup {None}
    /\ \A m \in wire :
          /\ m.pair \in Issued \cup {None}
          /\ m \in Unanswered => m.pair = None
          /\ m.pair # None => /\ m.pair \notin Held
                              /\ \A n \in wire : n.pair = m.pair => n = m

SharingInv == TypeOK /\ Shape /\ FreshPairs

\* n is what the server or the network made of m.
Became(n, m) ==
    /\ n.from = m.from /\ n.gone = m.gone /\ n.call = m.call /\ n.token = m.token
    /\ n.pair \in Issued' \cup {None} /\ n.pair \notin Issued
    /\ n.at \notin Answers => n.pair = None

\* A step of the server or the network: at most one message takes the place of m.
Replaces(m) ==
    \E r : \A n \in wire' : \/ n \in wire /\ n # m
                            \/ n = r /\ Became(n, m)
                            \/ n.gone /\ n.pair = None /\ n.token = m.token

LEMMA NoneNotIssued == None \notin Issued
BY SessionsAssumption DEF Issued, SessionsAssumption

LEMMA ServeReplaces ==
    ASSUME TypeOK, FreshPairs, NEW m \in wire, Serve(m)
    PROVE  Issued \subseteq Issued' /\ Replaces(m)
<1>0. /\ m \in Message /\ None \notin Issued
      /\ session \in [Pairs -> {"none", "live", "lapsed", "rotated", "revoked"}]
      /\ m.at \notin Answers => m.pair = None
  BY NoneNotIssued DEF TypeOK, FreshPairs, Unanswered
<1>1. ASSUME NEW a \in Answers, Answer(m, a) PROVE Replaces(m)
  <2>1. \A n \in Reply(m, a, None) : n = [m EXCEPT !.at = a, !.pair = None, !.bearer = None, !.saw = {}]
    BY DEF Reply
  <2>2. \A n \in Reply(m, a, None) : Became(n, m)
    BY <1>0, <1>1 DEF Reply, Became, Message
  <2> QED
    BY <1>1, <2>1, <2>2 DEF Answer, Replaces
<1>2. ASSUME NEW a \in {"rotating", "revoking"}, NEW rows, m.at = "sent", Continue(m, a, rows)
      PROVE  Replaces(m)
  <2>1. Became([m EXCEPT !.at = a, !.saw = rows], m)
    BY <1>0, <1>2 DEF Became, Message, Answers
  <2> QED
    BY <1>2, <2>1 DEF Continue, Replaces
<1>3. ASSUME NEW rows \in [Pairs -> {"none", "live", "lapsed", "rotated", "revoked"}],
             \A q \in Pairs : session[q] # "none" => rows[q] # "none",
             IssuePair(m, rows)
      PROVE  Issued \subseteq Issued' /\ Replaces(m)
  <2>1. PICK p \in Pairs \ Issued : /\ session' = [rows EXCEPT ![p] = "live"]
                                    /\ wire' = (wire \ {m}) \cup Reply(m, "ok", p)
    BY <1>3 DEF IssuePair
  <2>2. Issued \subseteq Issued' /\ p \in Issued'
    BY <1>3, <2>1 DEF Issued
  <2>3. \A n \in Reply(m, "ok", p) : n = [m EXCEPT !.at = "ok", !.pair = p, !.bearer = None, !.saw = {}]
    BY DEF Reply
  <2>4. \A n \in Reply(m, "ok", p) : Became(n, m)
    <3> SUFFICES ASSUME NEW n \in Reply(m, "ok", p) PROVE Became(n, m)
      OBVIOUS
    <3>1. n = [m EXCEPT !.at = "ok", !.pair = p, !.bearer = None, !.saw = {}]
      BY <2>3
    <3>2. /\ n.from = m.from /\ n.gone = m.gone /\ n.call = m.call /\ n.token = m.token
          /\ n.pair = p /\ n.at = "ok"
      BY <1>0, <3>1 DEF Message
    <3> QED
      BY <2>1, <2>2, <3>2 DEF Became, Answers
  <2> QED
    BY <2>1, <2>2, <2>3, <2>4 DEF Replaces
<1>4. ASSUME UNCHANGED session PROVE Issued \subseteq Issued'
  BY <1>4 DEF Issued
<1>5. {"ok", "unauthorized", "failed"} = Answers
  BY DEF Answers
<1>6. CASE ServeLogin(m)
  BY <1>0, <1>1, <1>3, <1>4, <1>5, <1>6 DEF ServeLogin, Issued
<1>7. CASE ServeGet(m)
  BY <1>1, <1>4, <1>5, <1>7 DEF ServeGet, server
<1>8. CASE ServeLogout(m)
  <2>1. Issued \subseteq Issued'
    BY <1>0, <1>4, <1>8 DEF ServeLogout, Issued
  <2> QED
    BY <1>1, <1>5, <1>8, <2>1 DEF ServeLogout
<1>9. CASE ReadRefresh(m)
  BY <1>1, <1>2, <1>4, <1>5, <1>9 DEF ReadRefresh, server
<1>10. CASE Rotate(m)
  BY <1>0, <1>3, <1>10 DEF Rotate
<1>11. CASE ReadPassword(m)
  BY <1>1, <1>2, <1>4, <1>5, <1>11 DEF ReadPassword, server
<1>12. CASE RevokeSeen(m)
  <2>1. Issued \subseteq Issued'
    BY <1>0, <1>12 DEF RevokeSeen, Issued
  <2> QED
    BY <1>1, <1>5, <1>12, <2>1 DEF RevokeSeen
<1> QED
  BY <1>6, <1>7, <1>8, <1>9, <1>10, <1>11, <1>12 DEF Serve

LEMMA WireReplaces ==
    ASSUME TypeOK, FreshPairs, NEW m \in wire, Lose(m) \/ Drop(m) \/ OutOfPairs(m)
    PROVE  Issued \subseteq Issued' /\ Replaces(m)
<1>0. /\ m \in Message /\ None \notin Issued
      /\ m \in Unanswered => m.pair = None
      /\ "failed" \in Answers
  BY NoneNotIssued DEF TypeOK, FreshPairs, Answers
<1>1. Issued \subseteq Issued'
  BY DEF Lose, Drop, OutOfPairs, server, Issued
<1>2. \A n \in Reply(m, "failed", None) :
          n = [m EXCEPT !.at = "failed", !.pair = None, !.bearer = None, !.saw = {}] /\ Became(n, m)
  BY <1>0 DEF Reply, Became, Message
<1>3. m \in Unanswered => LET n == [m EXCEPT !.gone = TRUE]
                          IN n.gone /\ n.pair = None /\ n.token = m.token
  BY <1>0 DEF Message
<1>4. CASE Lose(m)
  <2> DEFINE r == [m EXCEPT !.at = "failed", !.pair = None, !.bearer = None, !.saw = {}]
             g == [m EXCEPT !.gone = TRUE]
  <2>1. \A n \in wire' : \/ n \in wire /\ n # m
                         \/ n \in Reply(m, "failed", None)
                         \/ n = g /\ m \in Unanswered
    BY <1>4 DEF Lose
  <2>2. \A n \in wire' : \/ n \in wire /\ n # m
                         \/ n = r /\ Became(n, m)
                         \/ n.gone /\ n.pair = None /\ n.token = m.token
    BY <1>2, <1>3, <2>1
  <2> HIDE DEF r, g
  <2> QED
    BY <1>1, <2>2 DEF Replaces
<1>5. CASE Drop(m)
  BY <1>1, <1>5 DEF Drop, Replaces
<1>6. CASE OutOfPairs(m)
  BY <1>1, <1>2, <1>6 DEF OutOfPairs, Answer, Replaces
<1> QED
  BY <1>4, <1>5, <1>6

LEMMA ReplacedShape ==
    ASSUME Shape, UNCHANGED client, NEW m \in wire, Replaces(m)
    PROVE  Shape'
<1> SUFFICES ASSUME NEW t \in Tabs PROVE TabShape(t)'
  BY DEF Shape
<1>0. TabShape(t)
  BY DEF Shape
<1>1. PICK r : \A n \in wire' : \/ n \in wire /\ n # m
                                \/ n = r /\ Became(n, m)
                                \/ n.gone /\ n.pair = None /\ n.token = m.token
  BY DEF Replaces
<1>2. mem' = mem /\ thread' = thread
  BY DEF client
<1>3. \A n \in Mine(t)' :
          \/ n \in Mine(t) /\ n # m
          \/ n = r /\ m \in Mine(t) /\ n.from = m.from /\ n.call = m.call /\ n.token = m.token
  BY <1>1 DEF Became, Mine
<1>4. WireMatches(t)'
  BY <1>0, <1>2, <1>3 DEF TabShape, WireMatches
<1>5. OneEach(t)'
  BY <1>0, <1>2, <1>3 DEF TabShape, OneEach
<1>6. ThreadsOK(t)'
  BY <1>0, <1>2 DEF TabShape, ThreadsOK, Busy
<1>7. BootAlone(t)'
  <2> SUFFICES ASSUME NEW b \in Mine(t)', NEW n \in Mine(t)', Booting(t, b)', n # b
               PROVE  /\ mem[t].refresh = b.token => n.call = "login"
                      /\ n.call = "refresh" => n.token # b.token
    BY <1>2 DEF BootAlone
  <2>1. PICK b0 \in Mine(t) : /\ Booting(t, b0) /\ b0.token = b.token
                              /\ (b0 = b /\ b0 # m) \/ (b = r /\ b0 = m)
    BY <1>2, <1>3 DEF Booting
  <2>2. PICK n0 \in Mine(t) : /\ n0.call = n.call /\ n0.token = n.token
                              /\ (n0 = n /\ n0 # m) \/ (n = r /\ n0 = m)
    BY <1>3
  <2>3. n0 # b0
    BY <2>1, <2>2
  <2> QED
    BY <1>0, <2>1, <2>2, <2>3 DEF TabShape, BootAlone
<1> QED
  BY <1>4, <1>5, <1>6, <1>7 DEF TabShape

LEMMA ReplacedFresh ==
    ASSUME FreshPairs, UNCHANGED client, NEW m \in wire, Replaces(m), Issued \subseteq Issued'
    PROVE  FreshPairs'
<1>1. PICK r : \A n \in wire' : \/ n \in wire /\ n # m
                                \/ n = r /\ Became(n, m)
                                \/ n.gone /\ n.pair = None /\ n.token = m.token
  BY DEF Replaces
<1>2. Held' \subseteq Held
  BY <1>1 DEF Held, client, Became
<1>3. Held' \subseteq Issued' \cup {None}
  BY <1>2 DEF FreshPairs
<1>4. ASSUME NEW n \in wire', n \in Unanswered' PROVE n.pair = None
  BY <1>1, <1>4 DEF FreshPairs, Unanswered, Became
<1>5. ASSUME NEW n \in wire' PROVE n.pair \in Issued' \cup {None}
  BY <1>1 DEF FreshPairs, Became
<1>6. ASSUME NEW n \in wire', n.pair # None
      PROVE  n.pair \notin Held' /\ \A k \in wire' : k.pair = n.pair => k = n
  <2>1. CASE n \in wire /\ n # m
    BY <1>1, <1>2, <1>6, <2>1 DEF FreshPairs, Became
  <2>2. CASE n = r /\ Became(n, m)
    BY <1>1, <1>2, <1>6, <2>2 DEF FreshPairs, Became
  <2> QED
    BY <1>1, <1>6, <2>1, <2>2
<1> QED
  BY <1>3, <1>4, <1>5, <1>6 DEF FreshPairs

LEMMA SameTab ==
    ASSUME NEW t, TabShape(t), Mine(t)' = Mine(t), thread'[t] = thread[t], mem'[t] = mem[t]
    PROVE  TabShape(t)'
BY DEF TabShape, WireMatches, OneEach, ThreadsOK, BootAlone, Booting, Busy

\* A step of the tab t.
LEMMA OneTab ==
    ASSUME Shape, NEW t \in Tabs, TabShape(t)',
           \A u \in Tabs \ {t} : /\ thread'[u] = thread[u] /\ mem'[u] = mem[u]
                                 /\ Mine(u)' = Mine(u)
    PROVE  Shape'
BY SameTab DEF Shape

\* A step of a tab, which learns at most the pair q.
LEMMA ClientFresh ==
    ASSUME FreshPairs, UNCHANGED server, NEW q \in Issued \cup {None},
           Held' \subseteq Held \cup {None, q},
           \A n \in wire' : n.pair = None \/ (n \in wire /\ n.pair # q)
    PROVE  FreshPairs'
<1>1. Issued' = Issued
  BY DEF server, Issued
<1>2. Held' \subseteq Issued' \cup {None}
  BY <1>1 DEF FreshPairs
<1>3. ASSUME NEW n \in wire'
      PROVE  n.pair \in Issued' \cup {None} /\ (n \in Unanswered' => n.pair = None)
  BY <1>1 DEF FreshPairs, Unanswered
<1>4. ASSUME NEW n \in wire', n.pair # None
      PROVE  n.pair \notin Held' /\ \A k \in wire' : k.pair = n.pair => k = n
  BY <1>4 DEF FreshPairs
<1> QED
  BY <1>2, <1>3, <1>4 DEF FreshPairs

\* What a tab knows of the message it takes.
LEMMA Taken ==
    ASSUME TypeOK, Shape, NEW t \in Tabs, NEW th \in Threads, NEW waits, NEW m,
           Answered(t, th, waits, m)
    PROVE  /\ m \in Mine(t) /\ m.from = <<t, th>> /\ m \in Message
           /\ \A n \in Mine(t) \ {m} : n.from[2] # th /\ n.from[2] \in Threads
           /\ TabShape(t)
           /\ mem[t] \in Memory /\ thread[t] \in [Threads -> Thread]
<1>1. m \in Mine(t) /\ m.from = <<t, th>> /\ m \in Message
  BY DEF Answered, Mine, TypeOK
<1>2. \A n \in Mine(t) : n.from = <<t, n.from[2]>> /\ n.from[2] \in Threads
  BY DEF Mine, TypeOK, Message
<1>3. TabShape(t)
  BY DEF Shape
<1> QED
  BY <1>1, <1>2, <1>3 DEF TabShape, OneEach, TypeOK

LEMMA TakeTokensShape ==
    ASSUME TypeOK, Shape, FreshPairs, NEW t \in Tabs, NEW th \in Threads, NEW m \in wire,
           TakeTokens(t, th, m)
    PROVE  Shape'
<1> DEFINE s == Sent(t, th, "get", None, m.pair)
<1>0. /\ m \in Mine(t) /\ m.from = <<t, th>> /\ m \in Message
      /\ \A n \in Mine(t) \ {m} : n.from[2] # th /\ n.from[2] \in Threads
      /\ TabShape(t)
      /\ mem[t] \in Memory /\ thread[t] \in [Threads -> Thread]
      /\ mem \in [Tabs -> Memory] /\ thread \in [Tabs -> [Threads -> Thread]]
  BY Taken DEF TakeTokens, TypeOK
<1>1. /\ mem'[t].refresh = m.pair /\ mem'[t].boot = mem[t].boot
      /\ \A u \in Tabs \ {t} : mem'[u] = mem[u]
  BY <1>0 DEF TakeTokens, Remember, Routed, WithTokens, Memory
<1>2. /\ thread'[t][th] = Awaits("get", None)
      /\ \A c \in Threads \ {th} : thread'[t][c] = thread[t][c]
      /\ \A u \in Tabs \ {t} : thread'[u] = thread[u]
  BY <1>0 DEF TakeTokens
<1>3. s.from = <<t, th>> /\ s.call = "get" /\ ~s.gone
  BY DEF Sent
<1>4. wire' = (wire \ {m}) \cup {s}
  BY DEF TakeTokens
<1> HIDE DEF s
<1>5. Mine(t)' = (Mine(t) \ {m}) \cup {s}
  BY <1>0, <1>3, <1>4 DEF Mine
<1>6. \A u \in Tabs \ {t} : Mine(u)' = Mine(u)
  BY <1>0, <1>3, <1>4 DEF Mine
<1>7. WireMatches(t)'
  BY <1>0, <1>2, <1>3, <1>5 DEF TabShape, WireMatches, Awaits
<1>8. OneEach(t)'
  BY <1>0, <1>3, <1>5 DEF TabShape, OneEach
<1>9. ThreadsOK(t)'
  BY <1>0, <1>1, <1>2 DEF TabShape, ThreadsOK, Awaits, Busy, TakeTokens, Answered
<1>10. BootAlone(t)'
  <2> SUFFICES ASSUME NEW b \in Mine(t)', NEW n \in Mine(t)', Booting(t, b)', n # b
               PROVE  /\ mem'[t].refresh # b.token
                      /\ n.call = "refresh" => n.token # b.token
    BY DEF BootAlone
  <2>1. b # s /\ b \in Mine(t) \ {m} /\ Booting(t, b)
    BY <1>0, <1>2, <1>3, <1>5 DEF Booting
  <2>2. b.token # None /\ b.token \in Held
    BY <1>0, <2>1 DEF TabShape, WireMatches, Booting, Mine, Held
  <2>3. m.pair # b.token
    BY <2>2 DEF FreshPairs
  <2>4. n.call = "refresh" => n \in Mine(t)
    BY <1>3, <1>5
  <2> QED
    BY <1>0, <1>1, <2>1, <2>3, <2>4 DEF TabShape, BootAlone
<1> QED
  BY <1>1, <1>2, <1>6, <1>7, <1>8, <1>9, <1>10, OneTab DEF TabShape

\* The calls of ths end.
LEMMA EndShape ==
    ASSUME TypeOK, Shape, NEW t \in Tabs, NEW th \in Threads, NEW waits, NEW m, NEW ths,
           Answered(t, th, waits, m), wire' = wire \ {m}, End(t, ths), th \in ths,
           \A n \in Mine(t) \ {m} : n.from[2] \notin ths,
           \A u \in Tabs \ {t} : mem'[u] = mem[u],
           mem'[t].refresh \in {mem[t].refresh, None},
           "boot" \notin ths => mem'[t].boot = mem[t].boot
    PROVE  Shape'
<1>0. /\ m \in Mine(t) /\ m.from = <<t, th>> /\ TabShape(t)
      /\ thread[t] \in [Threads -> Thread] /\ thread \in [Tabs -> [Threads -> Thread]]
      /\ \A n \in Mine(t) \ {m} : n.from[2] \in Threads
  BY Taken DEF TypeOK
<1>1. /\ \A c \in Threads : thread'[t][c] = IF c \in ths THEN Idle ELSE thread[t][c]
      /\ \A u \in Tabs \ {t} : thread'[u] = thread[u]
  BY <1>0 DEF End
<1>2. Mine(t)' = Mine(t) \ {m}
  BY <1>0 DEF Mine
<1>3. \A u \in Tabs \ {t} : Mine(u)' = Mine(u)
  BY <1>0 DEF Mine
<1>4. WireMatches(t)'
  BY <1>0, <1>1, <1>2 DEF TabShape, WireMatches
<1>5. OneEach(t)'
  BY <1>0, <1>2 DEF TabShape, OneEach
<1>6. ThreadsOK(t)'
  BY <1>0, <1>1 DEF TabShape, ThreadsOK, Busy, Idle, Threads
<1>7. BootAlone(t)'
  <2> SUFFICES ASSUME NEW b \in Mine(t)', NEW n \in Mine(t)', Booting(t, b)', n # b
               PROVE  /\ mem'[t].refresh = b.token => n.call = "login"
                      /\ n.call = "refresh" => n.token # b.token
    BY DEF BootAlone
  <2>1. b \in Mine(t) \ {m} /\ n \in Mine(t) /\ Booting(t, b)
    BY <1>0, <1>1, <1>2 DEF Booting
  <2>2. b.token # None
    BY <1>0, <2>1 DEF TabShape, WireMatches, Booting
  <2> QED
    BY <1>0, <2>1, <2>2 DEF TabShape, BootAlone
<1> QED
  BY <1>1, <1>3, <1>4, <1>5, <1>6, <1>7, OneTab DEF TabShape

LEMMA EndingShape ==
    ASSUME TypeOK, Shape, NEW t \in Tabs, NEW th \in Threads, NEW m \in wire,
           \/ TakeAnswer(t, th, m) \/ TakeError(t, th, m)
           \/ NothingToRefresh(t, th, m) \/ RefreshFailed(t, th, m)
    PROVE  Shape'
<1>0. mem \in [Tabs -> Memory] /\ mem[t] \in Memory
  BY DEF TypeOK
<1>1. ASSUME NEW r \in Memory, Remember(t, r)
      PROVE  /\ mem'[t].refresh = r.refresh /\ mem'[t].boot = r.boot
             /\ \A u \in Tabs \ {t} : mem'[u] = mem[u]
  BY <1>0, <1>1 DEF Remember, Routed, Memory
<1>2. ASSUME NEW ths, Clear(t, ths)
      PROVE  /\ mem'[t].refresh = None
             /\ "boot" \notin ths => mem'[t].boot = mem[t].boot
             /\ \A u \in Tabs \ {t} : mem'[u] = mem[u]
  <2>1. Cleared(mem[t]) \in Memory
    BY <1>0, ClearedType
  <2>2. [Cleared(mem[t]) EXCEPT !.boot = @ /\ "boot" \notin ths] \in Memory
    BY <2>1 DEF Memory
  <2> QED
    BY <1>0, <1>1, <1>2, <2>2 DEF Clear, Cleared, Memory
<1>3. CASE TakeAnswer(t, th, m)
  <2>1. Answered(t, th, "answer", m) /\ wire' = wire \ {m} /\ End(t, {th})
    BY <1>3 DEF TakeAnswer
  <2>2. /\ [mem[t] EXCEPT !.user = TRUE, !.page = "app"] \in Memory
        /\ [mem[t] EXCEPT !.user = TRUE, !.boot = FALSE] \in Memory
        /\ Cleared(mem[t]) \in Memory
    BY <1>0, ClearedType DEF Memory
  <2>3. /\ mem'[t].refresh \in {mem[t].refresh, None}
        /\ "boot" \notin {th} => mem'[t].boot = mem[t].boot
        /\ \A u \in Tabs \ {t} : mem'[u] = mem[u]
    <3>1. /\ Cleared(mem[t]).refresh = None /\ Cleared(mem[t]).boot = mem[t].boot
          /\ [mem[t] EXCEPT !.user = TRUE, !.page = "app"].refresh = mem[t].refresh
          /\ [mem[t] EXCEPT !.user = TRUE, !.page = "app"].boot = mem[t].boot
          /\ [mem[t] EXCEPT !.user = TRUE, !.boot = FALSE].refresh = mem[t].refresh
      BY <1>0 DEF Cleared, Memory
    <3>2. CASE th = "login"
      BY <1>1, <1>3, <2>2, <3>1, <3>2 DEF TakeAnswer
    <3>3. CASE th = "boot"
      BY <1>1, <1>3, <2>2, <3>1, <3>3 DEF TakeAnswer
    <3>4. CASE th = "logout"
      BY <1>1, <1>3, <2>2, <3>1, <3>4 DEF TakeAnswer
    <3>5. CASE th \notin {"login", "boot", "logout"}
      BY <1>3, <3>5 DEF TakeAnswer
    <3> QED
      BY <3>2, <3>3, <3>4, <3>5
  <2> QED
    BY <2>1, <2>3, Taken, EndShape
<1>4. CASE TakeError(t, th, m)
  <2>1. Answered(t, th, "answer", m) /\ wire' = wire \ {m} /\ End(t, {th})
    BY <1>4 DEF TakeError
  <2>2. /\ mem'[t].refresh \in {mem[t].refresh, None}
        /\ "boot" \notin {th} => mem'[t].boot = mem[t].boot
        /\ \A u \in Tabs \ {t} : mem'[u] = mem[u]
    BY <1>2, <1>4 DEF TakeError
  <2> QED
    BY <2>1, <2>2, Taken, EndShape
<1>5. CASE NothingToRefresh(t, th, m)
  <2>1. /\ Answered(t, th, "answer", m) /\ wire' = wire \ {m}
        /\ End(t, {th}) /\ Clear(t, {th})
    BY <1>5 DEF NothingToRefresh, Challenged
  <2> QED
    BY <1>2, <2>1, Taken, EndShape
<1>6. CASE RefreshFailed(t, th, m)
  <2>1. /\ Answered(t, th, "refresh", m) /\ wire' = wire \ {m}
        /\ End(t, Sharing(t)) /\ Clear(t, Sharing(t))
    BY <1>6 DEF RefreshFailed
  <2>2. th \in Sharing(t)
    BY <2>1 DEF Answered, Sharing
  <2>3. \A n \in Mine(t) \ {m} : n.from[2] \notin Sharing(t)
    BY <2>1, Taken DEF Answered, Sharing, TabShape, WireMatches, ThreadsOK
  <2> QED
    BY <1>2, <2>1, <2>2, <2>3, EndShape
<1> QED
  BY <1>3, <1>4, <1>5, <1>6

\* A call that got a 401 joins the refresh, or starts it.
LEMMA ChallengedShape ==
    ASSUME TypeOK, Shape, NEW t \in Tabs, NEW th \in Threads, NEW m \in wire,
           ShareRefresh(t, th, m) \/ LeadRefresh(t, th, m)
    PROVE  Shape'
<1> DEFINE s == Sent(t, th, "refresh", mem[t].refresh, None)
<1>0. /\ Answered(t, th, "answer", m) /\ m.call \notin {"login", "refresh"}
      /\ thread[t][th].waits = "answer" /\ mem' = mem
  BY DEF ShareRefresh, LeadRefresh, Challenged, Answered
<1>1. /\ m \in Mine(t) /\ m.from = <<t, th>> /\ TabShape(t)
      /\ \A n \in Mine(t) \ {m} : n.from[2] # th /\ n.from[2] \in Threads
      /\ thread[t] \in [Threads -> Thread] /\ thread \in [Tabs -> [Threads -> Thread]]
  BY <1>0, Taken DEF TypeOK
<1>2. thread[t][th].call # "refresh"
  BY <1>0, <1>1 DEF TabShape, WireMatches
<1>3. PICK w \in {"shared", "refresh"} :
        /\ thread' = [thread EXCEPT ![t][th] = [@ EXCEPT !.waits = w, !.retried = TRUE]]
        /\ \/ w = "shared" /\ wire' = wire \ {m}
           \/ /\ w = "refresh" /\ ~Refreshing(t) /\ mem[t].refresh # None
              /\ wire' = (wire \ {m}) \cup {s}
  BY DEF ShareRefresh, LeadRefresh
<1>4. thread'[t][th] = [thread[t][th] EXCEPT !.waits = w, !.retried = TRUE]
  BY <1>1, <1>3
<1>5. /\ thread'[t][th].call = thread[t][th].call /\ thread'[t][th].waits = w
      /\ \A c \in Threads \ {th} : thread'[t][c] = thread[t][c]
      /\ \A u \in Tabs \ {t} : thread'[u] = thread[u]
  <2>1. thread[t][th] \in Thread
    BY <1>1
  <2>2. thread'[t][th].call = thread[t][th].call /\ thread'[t][th].waits = w
    BY <1>4, <2>1 DEF Thread
  <2> QED
    BY <1>1, <1>3, <2>2
<1>6. s.from = <<t, th>> /\ s.call = "refresh" /\ ~s.gone /\ s.token = mem[t].refresh
  BY DEF Sent
<1> HIDE DEF s
<1>7. \/ Mine(t)' = Mine(t) \ {m}
      \/ /\ Mine(t)' = (Mine(t) \ {m}) \cup {s}
         /\ w = "refresh" /\ mem[t].refresh # None
  BY <1>1, <1>3, <1>6 DEF Mine
<1>8. \A u \in Tabs \ {t} : Mine(u)' = Mine(u)
  BY <1>1, <1>3, <1>6 DEF Mine
<1>9. WireMatches(t)'
  BY <1>1, <1>5, <1>6, <1>7 DEF TabShape, WireMatches
<1>10. OneEach(t)'
  BY <1>1, <1>6, <1>7 DEF TabShape, OneEach
<1>11. ThreadsOK(t)'
  BY <1>0, <1>1, <1>2, <1>3, <1>5 DEF TabShape, ThreadsOK, Busy, Refreshing
<1>12. BootAlone(t)'
  <2> SUFFICES ASSUME NEW b \in Mine(t)', NEW n \in Mine(t)', Booting(t, b)', n # b
               PROVE  /\ mem[t].refresh = b.token => n.call = "login"
                      /\ n.call = "refresh" => n.token # b.token
    BY <1>0 DEF BootAlone
  <2>1. b \in Mine(t) \ {m} /\ Booting(t, b)
    BY <1>1, <1>5, <1>6, <1>7 DEF Booting
  <2>2. mem[t].refresh # b.token
    BY <1>0, <1>1, <2>1 DEF TabShape, BootAlone
  <2>3. n \in Mine(t) \/ n = s
    BY <1>7
  <2> QED
    BY <1>1, <1>6, <2>1, <2>2, <2>3 DEF TabShape, BootAlone
<1> QED
  BY <1>0, <1>5, <1>8, <1>9, <1>10, <1>11, <1>12, OneTab DEF TabShape

\* The refresh is answered: the calls that shared it are sent again.
LEMMA RefreshedShape ==
    ASSUME TypeOK, Shape, FreshPairs, NEW t \in Tabs, NEW th \in Threads, NEW m \in wire,
           Refreshed(t, th, m)
    PROVE  Shape'
<1> DEFINE again(c) == Sent(t, c, thread[t][c].call, thread[t][c].token, m.pair)
<1>0. /\ Answered(t, th, "refresh", m) /\ thread[t][th].waits = "refresh"
      /\ m \in Mine(t) /\ m.from = <<t, th>> /\ TabShape(t)
      /\ \A n \in Mine(t) \ {m} : n.from[2] # th /\ n.from[2] \in Threads
      /\ thread[t] \in [Threads -> Thread] /\ thread \in [Tabs -> [Threads -> Thread]]
      /\ mem[t] \in Memory /\ mem \in [Tabs -> Memory]
  BY Taken DEF Refreshed, Answered, TypeOK
<1>1. /\ mem'[t].refresh = m.pair /\ mem'[t].boot = mem[t].boot
      /\ \A u \in Tabs \ {t} : mem'[u] = mem[u]
  BY <1>0 DEF Refreshed, Remember, Routed, WithTokens, Memory
<1>2. /\ \A u \in Tabs \ {t} : thread'[u] = thread[u]
      /\ \A c \in Threads \ Sharing(t) : thread'[t][c] = thread[t][c]
      /\ \A c \in Sharing(t) : thread'[t][c] = [thread[t][c] EXCEPT !.waits = "answer"]
  BY <1>0 DEF Refreshed, Sharing
<1>3. \A c \in Sharing(t) : /\ c \in Threads
                            /\ thread'[t][c].waits = "answer"
                            /\ thread'[t][c].call = thread[t][c].call
                            /\ thread[t][c].call # "refresh"
                            /\ thread[t][c].waits \in {"refresh", "shared"}
  <2> SUFFICES ASSUME NEW c \in Sharing(t)
               PROVE  /\ c \in Threads
                      /\ thread'[t][c].waits = "answer"
                      /\ thread'[t][c].call = thread[t][c].call
                      /\ thread[t][c].call # "refresh"
                      /\ thread[t][c].waits \in {"refresh", "shared"}
    OBVIOUS
  <2>1. c \in Threads /\ thread[t][c].waits \in {"refresh", "shared"} /\ thread[t][c] \in Thread
    BY <1>0 DEF Sharing
  <2>2. thread[t][c].call # "refresh"
    BY <1>0, <2>1 DEF TabShape, ThreadsOK
  <2> QED
    BY <1>2, <2>1, <2>2 DEF Thread
<1>4. \A c \in Threads : /\ again(c).from = <<t, c>> /\ ~again(c).gone
                         /\ again(c).call = thread[t][c].call
  BY DEF Sent
<1>5. wire' = (wire \ {m}) \cup {again(c) : c \in Sharing(t)}
  BY DEF Refreshed
<1> HIDE DEF again
<1>6. Mine(t)' = (Mine(t) \ {m}) \cup {again(c) : c \in Sharing(t)}
  BY <1>0, <1>3, <1>4, <1>5 DEF Mine
<1>7. \A u \in Tabs \ {t} : Mine(u)' = Mine(u)
  BY <1>0, <1>3, <1>4, <1>5 DEF Mine
<1>8. \A n \in Mine(t) \ {m} : n.from[2] \notin Sharing(t)
  BY <1>0 DEF Sharing, TabShape, WireMatches, ThreadsOK
<1>9. WireMatches(t)'
  BY <1>0, <1>2, <1>3, <1>4, <1>6, <1>8 DEF TabShape, WireMatches
<1>10. OneEach(t)'
  <2> SUFFICES ASSUME NEW a \in Mine(t)', NEW b \in Mine(t)', a.from = b.from PROVE a = b
    BY DEF OneEach
  <2>1. CASE a \in Mine(t) \ {m} /\ b \in Mine(t) \ {m}
    BY <1>0, <2>1 DEF TabShape, OneEach
  <2>2. CASE a \notin Mine(t) \ {m} \/ b \notin Mine(t) \ {m}
    BY <1>3, <1>4, <1>6, <1>8, <2>2
  <2> QED
    BY <2>1, <2>2
<1>11. ThreadsOK(t)'
  <2>1. \A c \in Threads : thread'[t][c].waits # "refresh" /\ thread'[t][c].call = thread[t][c].call
    BY <1>2, <1>3 DEF Sharing
  <2>2. Busy(t, "boot")' => mem'[t].boot
    BY <1>0, <1>1, <1>2, <1>3 DEF TabShape, ThreadsOK, Busy, Threads
  <2>3. \A c \in Threads : thread'[t][c].call = "refresh" => c = "boot" /\ thread'[t][c].waits = "answer"
    BY <1>0, <1>2, <1>3, <2>1 DEF TabShape, ThreadsOK
  <2> QED
    BY <2>1, <2>2, <2>3 DEF ThreadsOK
<1>12. BootAlone(t)'
  <2> SUFFICES ASSUME NEW b \in Mine(t)', NEW n \in Mine(t)', Booting(t, b)', n # b
               PROVE  /\ mem'[t].refresh # b.token
                      /\ n.call = "refresh" => n.token # b.token
    BY DEF BootAlone
  <2>1. b \in Mine(t) \ {m}
    BY <1>3, <1>4, <1>6 DEF Booting
  <2>2. Booting(t, b)
    BY <1>0, <1>2, <1>8, <2>1 DEF Booting, Threads
  <2>3. b.token # None /\ b.token \in Held
    BY <1>0, <2>1, <2>2 DEF TabShape, WireMatches, Booting, Mine, Held
  <2>4. m.pair # b.token
    BY <1>0, <2>3 DEF FreshPairs, Mine
  <2>5. n.call = "refresh" => n \in Mine(t)
    BY <1>3, <1>4, <1>6
  <2> QED
    BY <1>0, <1>1, <2>1, <2>2, <2>4, <2>5 DEF TabShape, BootAlone
<1> QED
  BY <1>1, <1>2, <1>7, <1>9, <1>10, <1>11, <1>12, OneTab DEF TabShape

LEMMA OpenShape ==
    ASSUME TypeOK, Shape, NEW t \in Tabs, NEW th \in Threads, NEW call, NEW token, NEW access,
           Open(t, th, call, token, access), mem' = mem, ~Busy(t, th), th # "boot",
           call # "refresh", call = "login" \/ ~mem[t].boot
    PROVE  Shape'
<1> DEFINE s == Sent(t, th, call, token, access)
<1>0. /\ TabShape(t) /\ thread[t] \in [Threads -> Thread]
      /\ thread \in [Tabs -> [Threads -> Thread]]
      /\ \A n \in Mine(t) : n.from = <<t, n.from[2]>> /\ n.from[2] \in Threads
  BY DEF Shape, TypeOK, Mine, Message
<1>1. /\ thread'[t][th] = Awaits(call, token)
      /\ \A c \in Threads \ {th} : thread'[t][c] = thread[t][c]
      /\ \A u \in Tabs \ {t} : thread'[u] = thread[u]
  BY <1>0 DEF Open
<1>2. s.from = <<t, th>> /\ s.call = call /\ ~s.gone
  BY DEF Sent
<1>3. wire' = wire \cup {s}
  BY DEF Open
<1> HIDE DEF s
<1>4. Mine(t)' = Mine(t) \cup {s} /\ \A u \in Tabs \ {t} : Mine(u)' = Mine(u)
  BY <1>2, <1>3 DEF Mine
<1>5. \A n \in Mine(t) : n.from[2] # th
  BY <1>0 DEF TabShape, WireMatches, Busy
<1>6. WireMatches(t)'
  BY <1>0, <1>1, <1>2, <1>4, <1>5 DEF TabShape, WireMatches, Awaits
<1>7. OneEach(t)'
  BY <1>0, <1>2, <1>4, <1>5 DEF TabShape, OneEach
<1>8. ThreadsOK(t)'
  BY <1>0, <1>1 DEF TabShape, ThreadsOK, Awaits, Busy, Threads
<1>9. BootAlone(t)'
  <2> SUFFICES ASSUME NEW b \in Mine(t)', NEW n \in Mine(t)', Booting(t, b)', n # b
               PROVE  /\ mem[t].refresh = b.token => n.call = "login"
                      /\ n.call = "refresh" => n.token # b.token
    BY DEF BootAlone
  <2>1. b \in Mine(t) /\ Booting(t, b)
    BY <1>1, <1>2, <1>4 DEF Booting, Threads
  <2>2. mem[t].boot
    BY <1>0, <2>1 DEF TabShape, ThreadsOK, Booting, Busy
  <2>3. n = s => n.call = "login"
    BY <1>2, <2>2
  <2> QED
    BY <1>0, <1>4, <2>1, <2>3 DEF TabShape, BootAlone
<1> QED
  BY <1>1, <1>4, <1>6, <1>7, <1>8, <1>9, OneTab DEF TabShape

LEMMA CallsShape ==
    ASSUME TypeOK, Shape, NEW t \in Tabs, Login(t) \/ Call(t) \/ Logout(t)
    PROVE  Shape'
<1>0. "boot" \notin {"login", "logout"} \cup Calls /\ {"login", "logout"} \cup Calls \subseteq Threads
  BY SessionsAssumption DEF SessionsAssumption, Threads
<1>1. CASE Login(t)
  BY <1>0, <1>1, OpenShape DEF Login
<1>2. CASE Call(t)
  BY <1>0, <1>2, OpenShape DEF Call, InApp
<1>3. CASE Logout(t)
  <2>1. CASE Open(t, "logout", "logout", mem[t].refresh, mem[t].access) /\ mem' = mem
    BY <1>0, <1>3, <2>1, OpenShape DEF Logout, InApp
  <2>2. CASE Remember(t, Cleared(mem[t])) /\ UNCHANGED <<wire, thread>>
    <3>0. mem[t] \in Memory /\ mem \in [Tabs -> Memory] /\ TabShape(t)
      BY DEF TypeOK, Shape
    <3>1. /\ mem'[t].refresh = None /\ mem'[t].boot = mem[t].boot
          /\ \A u \in Tabs \ {t} : mem'[u] = mem[u]
      BY <2>2, <3>0 DEF Remember, Routed, Cleared, Memory
    <3>2. \A u \in Tabs : Mine(u)' = Mine(u) /\ thread'[u] = thread[u]
      BY <2>2 DEF Mine
    <3>3. BootAlone(t)'
      BY <3>0, <3>1, <3>2 DEF TabShape, BootAlone, Booting, WireMatches
    <3>4. WireMatches(t)' /\ OneEach(t)' /\ ThreadsOK(t)'
      BY <3>0, <3>1, <3>2 DEF TabShape, WireMatches, OneEach, ThreadsOK, Busy
    <3> QED
      BY <3>1, <3>2, <3>3, <3>4, OneTab DEF TabShape
  <2> QED
    BY <1>3, <2>1, <2>2 DEF Logout
<1> QED
  BY <1>1, <1>2, <1>3

LEMMA LoadShape ==
    ASSUME TypeOK, Shape, NEW t \in Tabs, Load(t)
    PROVE  Shape'
<1> DEFINE old   == {m \in wire : m.from[1] = t /\ ~m.gone}
           left  == {[m EXCEPT !.gone = TRUE] : m \in old \cap Unanswered}
           token == disk[Storage[t]]
           fresh == [th \in Threads |-> Idle]
           s     == Sent(t, "boot", "refresh", token, None)
           r     == [SignedOut EXCEPT !.refresh = token, !.boot = token # None,
                                      !.page = mem[t].page]
<1>0. /\ mem \in [Tabs -> Memory] /\ thread \in [Tabs -> [Threads -> Thread]]
      /\ wire \subseteq Message /\ "boot" \in Threads
  BY DEF TypeOK, Threads
<1>1. \A n \in left : n.gone
  BY <1>0 DEF Message, Unanswered
<1>2. s.from = <<t, "boot">> /\ s.call = "refresh" /\ ~s.gone /\ s.token = token
  BY DEF Sent
<1>3. /\ mem'[t].refresh = token /\ mem'[t].boot = (token # None)
      /\ \A u \in Tabs \ {t} : mem'[u] = mem[u]
  <2>1. mem' = [mem EXCEPT ![t] = Routed(r)]
    BY DEF Load
  <2>2. r.refresh = token /\ r.boot = (token # None)
    BY DEF SignedOut
  <2>3. Routed(r).refresh = token /\ Routed(r).boot = (token # None)
    BY DEF Routed, SignedOut
  <2> QED
    BY <1>0, <2>1, <2>3
<1>4. \A u \in Tabs \ {t} : thread'[u] = thread[u]
  BY <1>0 DEF Load
<1>5. \/ token = None /\ wire' = (wire \ old) \cup left /\ thread'[t] = fresh
      \/ /\ token # None /\ wire' = (wire \ old) \cup left \cup {s}
         /\ thread'[t] = [fresh EXCEPT !["boot"] = Awaits("refresh", token)]
  BY <1>0 DEF Load
<1> HIDE DEF left, s, r, token
<1>6. Mine(t)' = IF token = None THEN {} ELSE {s}
  BY <1>1, <1>2, <1>5 DEF Mine
<1>7. \A u \in Tabs \ {t} : Mine(u)' = Mine(u)
  BY <1>1, <1>2, <1>5 DEF Mine
<1>8. /\ \A c \in Threads \ {"boot"} : thread'[t][c] = Idle
      /\ thread'[t]["boot"] = IF token = None THEN Idle ELSE Awaits("refresh", token)
  BY <1>0, <1>5
<1>9. WireMatches(t)' /\ OneEach(t)'
  BY <1>2, <1>6, <1>8 DEF WireMatches, OneEach, Awaits
<1>10. ThreadsOK(t)'
  <2>1. \A c \in Threads : /\ thread'[t][c].waits # "refresh"
                           /\ thread'[t][c].call = "refresh" =>
                                  c = "boot" /\ thread'[t][c].waits = "answer"
    BY <1>8 DEF Idle, Awaits
  <2>2. Busy(t, "boot")' => token # None
    BY <1>8 DEF Busy, Idle
  <2>3. token # None => mem'[t].boot
    BY <1>3, Zenon
  <2> QED
    BY <2>1, <2>2, <2>3 DEF ThreadsOK
<1>11. BootAlone(t)'
  BY <1>6 DEF BootAlone
<1> QED
  BY <1>3, <1>4, <1>7, <1>9, <1>10, <1>11, OneTab DEF TabShape

LEMMA HeldGrows ==
    ASSUME NEW q,
           \A u \in Tabs : mem'[u].refresh \in Held \cup {None, q},
           \A b \in Browsers : disk'[b] \in Held \cup {None, q},
           \A u \in Tabs, c \in Threads : thread'[u][c].token \in Held \cup {None, q},
           \A n \in wire' : n.token \in Held \cup {None, q}
    PROVE  Held' \subseteq Held \cup {None, q}
<1> DEFINE S == Held \cup {None, q}
<1>1. \A p \in Tabs \X Threads : thread'[p[1]][p[2]].token \in S
  OBVIOUS
<1>2. /\ \A u \in Tabs : mem'[u].refresh \in S
      /\ \A b \in Browsers : disk'[b] \in S
      /\ \A n \in wire' : n.token \in S
  OBVIOUS
<1> HIDE DEF S
<1>3. Held' \subseteq S
  BY <1>1, <1>2 DEF Held
<1> QED
  BY <1>3 DEF S

\* What a tab remembers is all that its store and its storage learn.
LEMMA RememberHeld ==
    ASSUME TypeOK, NEW t \in Tabs, NEW r \in Memory, Remember(t, r)
    PROVE  /\ \A u \in Tabs : mem'[u].refresh \in Held \cup {r.refresh}
           /\ \A b \in Browsers : disk'[b] \in Held \cup {r.refresh}
<1>0. mem \in [Tabs -> Memory] /\ disk \in [Browsers -> Pairs \cup {None}]
  BY DEF TypeOK
<1>1. mem'[t].refresh = r.refresh /\ \A u \in Tabs \ {t} : mem'[u] = mem[u]
  BY <1>0 DEF Remember, Routed, Memory
<1>2. \A b \in Browsers : disk'[b] \in {disk[b], r.refresh}
  BY <1>0 DEF Remember
<1>3. \A u \in Tabs : mem[u].refresh \in Held
  BY DEF Held
<1>4. \A b \in Browsers : disk[b] \in Held
  BY DEF Held
<1> QED
  BY <1>1, <1>2, <1>3, <1>4

LEMMA HeldNow ==
    /\ \A u \in Tabs : mem[u].refresh \in Held
    /\ \A b \in Browsers : disk[b] \in Held
    /\ \A u \in Tabs, c \in Threads : thread[u][c].token \in Held
    /\ \A n \in wire : n.token \in Held
<1>1. \A u \in Tabs, c \in Threads : thread[u][c].token \in Held
  <2> SUFFICES ASSUME NEW u \in Tabs, NEW c \in Threads PROVE thread[u][c].token \in Held
    OBVIOUS
  <2>1. <<u, c>> \in Tabs \X Threads /\ <<u, c>>[1] = u /\ <<u, c>>[2] = c
    OBVIOUS
  <2> QED
    BY <2>1 DEF Held
<1> QED
  BY <1>1 DEF Held

\* A tab forgets its tokens, or keeps what it held.
LEMMA ForgetsFresh ==
    ASSUME TypeOK, FreshPairs, NEW t \in Tabs, UNCHANGED server, wire' \subseteq wire,
           UNCHANGED <<mem, disk>> \/ \E r \in Memory : Remember(t, r) /\ r.refresh \in Held \cup {None},
           \A u \in Tabs, c \in Threads : thread'[u][c].token \in Held \cup {None}
    PROVE  FreshPairs'
<1>1. /\ \A u \in Tabs : mem'[u].refresh \in Held \cup {None}
      /\ \A b \in Browsers : disk'[b] \in Held \cup {None}
  BY HeldNow, RememberHeld
<1>2. \A n \in wire' : n.token \in Held
  BY HeldNow
<1>3. Held' \subseteq Held \cup {None, None}
  BY <1>1, <1>2, HeldGrows
<1>4. \A n \in wire' : n.pair = None \/ (n \in wire /\ n.pair # None)
  OBVIOUS
<1> QED
  BY <1>3, <1>4, ClientFresh

\* The call ends, and the store is cleared or not.
LEMMA EndingFresh ==
    ASSUME TypeOK, FreshPairs, NEW t \in Tabs, NEW th \in Threads, NEW m \in wire,
           \/ TakeAnswer(t, th, m) \/ TakeError(t, th, m)
           \/ NothingToRefresh(t, th, m) \/ RefreshFailed(t, th, m),
           UNCHANGED server
    PROVE  FreshPairs'
<1>0. mem[t] \in Memory /\ thread \in [Tabs -> [Threads -> Thread]] /\ Cleared(mem[t]) \in Memory
  BY ClearedType DEF TypeOK
<1>1. PICK ths : End(t, ths) /\ wire' = wire \ {m}
  BY DEF TakeAnswer, TakeError, NothingToRefresh, RefreshFailed
<1>2. \A u \in Tabs, c \in Threads : thread'[u][c] \in {thread[u][c], Idle}
  BY <1>0, <1>1 DEF End
<1>3. \A u \in Tabs, c \in Threads : thread'[u][c].token \in Held \cup {None}
  BY <1>2, HeldNow DEF Idle
<1>4. ASSUME NEW S, Clear(t, S)
      PROVE  \E r \in Memory : Remember(t, r) /\ r.refresh \in Held \cup {None}
  <2> DEFINE r == [Cleared(mem[t]) EXCEPT !.boot = @ /\ "boot" \notin S]
  <2>1. r \in Memory /\ r.refresh = None
    BY <1>0 DEF Memory, Cleared
  <2> QED
    BY <1>4, <2>1 DEF Clear
<1>5. ASSUME TakeAnswer(t, th, m)
      PROVE  \/ UNCHANGED <<mem, disk>>
             \/ \E r \in Memory : Remember(t, r) /\ r.refresh \in Held \cup {None}
  <2>1. \A r \in {[mem[t] EXCEPT !.user = TRUE, !.page = "app"],
                  [mem[t] EXCEPT !.user = TRUE, !.boot = FALSE], Cleared(mem[t])} :
           r \in Memory /\ r.refresh \in Held \cup {None}
    BY <1>0, HeldNow DEF Memory, Cleared
  <2> QED
    BY <1>5, <2>1 DEF TakeAnswer
<1>6. \/ UNCHANGED <<mem, disk>>
      \/ \E r \in Memory : Remember(t, r) /\ r.refresh \in Held \cup {None}
  BY <1>4, <1>5 DEF TakeError, NothingToRefresh, RefreshFailed
<1> QED
  BY <1>1, <1>3, <1>6, ForgetsFresh

\* The pair of an answer moves into the store.
LEMMA StoredFresh ==
    ASSUME TypeOK, FreshPairs, NEW t \in Tabs, NEW m \in wire, UNCHANGED server,
           NEW r \in Memory, Remember(t, r), r.refresh = m.pair,
           \A u \in Tabs, c \in Threads : thread'[u][c].token \in Held \cup {None},
           \A n \in wire' : \/ n \in wire \ {m}
                            \/ n.pair = None /\ n.token \in Held \cup {None}
    PROVE  FreshPairs'
<1>1. /\ \A u \in Tabs : mem'[u].refresh \in Held \cup {None, m.pair}
      /\ \A b \in Browsers : disk'[b] \in Held \cup {None, m.pair}
  BY RememberHeld
<1>2. /\ \A u \in Tabs, c \in Threads : thread'[u][c].token \in Held \cup {None, m.pair}
      /\ \A n \in wire' : n.token \in Held \cup {None, m.pair}
  BY HeldNow
<1>3. Held' \subseteq Held \cup {None, m.pair}
  BY <1>1, <1>2, HeldGrows
<1>4. \A n \in wire' : n.pair = None \/ (n \in wire /\ n.pair # m.pair)
  BY DEF FreshPairs
<1>5. m.pair \in Issued \cup {None}
  BY DEF FreshPairs
<1> QED
  BY <1>3, <1>4, <1>5, ClientFresh

LEMMA TakeTokensFresh ==
    ASSUME TypeOK, FreshPairs, NEW t \in Tabs, NEW th \in Threads, NEW m \in wire,
           TakeTokens(t, th, m), UNCHANGED server
    PROVE  FreshPairs'
<1>0. /\ mem[t] \in Memory /\ m \in Message /\ thread \in [Tabs -> [Threads -> Thread]]
  BY DEF TypeOK
<1>1. WithTokens(mem[t], m.pair) \in Memory /\ WithTokens(mem[t], m.pair).refresh = m.pair
  BY <1>0 DEF WithTokens, Memory, Message
<1>2. \A u \in Tabs, c \in Threads : thread'[u][c] \in {thread[u][c], Awaits("get", None)}
  BY <1>0 DEF TakeTokens
<1>3. \A u \in Tabs, c \in Threads : thread'[u][c].token \in Held \cup {None}
  BY <1>2, HeldNow DEF Awaits
<1>4. \A n \in wire' : \/ n \in wire \ {m}
                       \/ n.pair = None /\ n.token \in Held \cup {None}
  BY DEF TakeTokens, Sent
<1>5. Remember(t, WithTokens(mem[t], m.pair))
  BY DEF TakeTokens
<1> QED
  BY <1>1, <1>3, <1>4, <1>5, StoredFresh

LEMMA RefreshedFresh ==
    ASSUME TypeOK, FreshPairs, NEW t \in Tabs, NEW th \in Threads, NEW m \in wire,
           Refreshed(t, th, m), UNCHANGED server
    PROVE  FreshPairs'
<1>0. /\ mem[t] \in Memory /\ m \in Message /\ thread \in [Tabs -> [Threads -> Thread]]
  BY DEF TypeOK
<1>1. WithTokens(mem[t], m.pair) \in Memory /\ WithTokens(mem[t], m.pair).refresh = m.pair
  BY <1>0 DEF WithTokens, Memory, Message
<1>2. \A u \in Tabs, c \in Threads :
          thread'[u][c] \in {thread[u][c], [thread[u][c] EXCEPT !.waits = "answer"]}
  BY <1>0 DEF Refreshed
<1>3. \A u \in Tabs, c \in Threads : thread'[u][c].token = thread[u][c].token
  <2> SUFFICES ASSUME NEW u \in Tabs, NEW c \in Threads
               PROVE  thread'[u][c].token = thread[u][c].token
    OBVIOUS
  <2>1. thread[u][c] \in Thread
    BY <1>0
  <2>2. [thread[u][c] EXCEPT !.waits = "answer"].token = thread[u][c].token
    BY <2>1 DEF Thread
  <2> QED
    BY <1>2, <2>2
<1>4. \A u \in Tabs, c \in Threads : thread'[u][c].token \in Held \cup {None}
  BY <1>3, HeldNow
<1>5. \A c \in Sharing(t) : Sent(t, c, thread[t][c].call, thread[t][c].token, m.pair).token
                              \in Held
  BY HeldNow DEF Sent, Sharing
<1>6. \A n \in wire' : \/ n \in wire \ {m}
                       \/ n.pair = None /\ n.token \in Held \cup {None}
  BY <1>5 DEF Refreshed, Sent
<1>7. Remember(t, WithTokens(mem[t], m.pair))
  BY DEF Refreshed
<1> QED
  BY <1>1, <1>4, <1>6, <1>7, StoredFresh

\* What is sent presents a token of the store; nothing else is learnt.
LEMMA SendingFresh ==
    ASSUME FreshPairs, UNCHANGED <<server, mem, disk>>,
           \A u \in Tabs, c \in Threads : thread'[u][c].token \in Held \cup {None},
           \A n \in wire' : \/ n \in wire
                            \/ n.pair = None /\ n.token \in Held \cup {None}
    PROVE  FreshPairs'
<1>1. /\ \A u \in Tabs : mem'[u].refresh \in Held \cup {None, None}
      /\ \A b \in Browsers : disk'[b] \in Held \cup {None, None}
      /\ \A n \in wire' : n.token \in Held \cup {None, None}
  BY HeldNow
<1>2. Held' \subseteq Held \cup {None, None}
  BY <1>1, HeldGrows
<1>3. \A n \in wire' : n.pair = None \/ (n \in wire /\ n.pair # None)
  OBVIOUS
<1> QED
  BY <1>2, <1>3, ClientFresh

LEMMA ChallengedFresh ==
    ASSUME TypeOK, FreshPairs, NEW t \in Tabs, NEW th \in Threads, NEW m \in wire,
           ShareRefresh(t, th, m) \/ LeadRefresh(t, th, m), UNCHANGED server
    PROVE  FreshPairs'
<1>0. thread \in [Tabs -> [Threads -> Thread]]
  BY DEF TypeOK
<1>1. PICK w \in {"shared", "refresh"} :
          thread' = [thread EXCEPT ![t][th] = [@ EXCEPT !.waits = w, !.retried = TRUE]]
  BY DEF ShareRefresh, LeadRefresh
<1>2. \A u \in Tabs, c \in Threads :
          thread'[u][c] \in {thread[u][c], [thread[u][c] EXCEPT !.waits = w, !.retried = TRUE]}
  BY <1>0, <1>1
<1>3. \A u \in Tabs, c \in Threads : thread'[u][c].token = thread[u][c].token
  <2> SUFFICES ASSUME NEW u \in Tabs, NEW c \in Threads
               PROVE  thread'[u][c].token = thread[u][c].token
    OBVIOUS
  <2>1. thread[u][c] \in Thread
    BY <1>0
  <2>2. [thread[u][c] EXCEPT !.waits = w, !.retried = TRUE].token = thread[u][c].token
    BY <2>1 DEF Thread
  <2> QED
    BY <1>2, <2>2
<1>4. \A u \in Tabs, c \in Threads : thread'[u][c].token \in Held \cup {None}
  BY <1>3, HeldNow
<1>5. \A n \in wire' : \/ n \in wire
                       \/ n.pair = None /\ n.token \in Held \cup {None}
  BY HeldNow DEF ShareRefresh, LeadRefresh, Sent
<1> QED
  BY <1>4, <1>5, SendingFresh DEF ShareRefresh, LeadRefresh

LEMMA CallsFresh ==
    ASSUME TypeOK, FreshPairs, NEW t \in Tabs, Login(t) \/ Call(t) \/ Logout(t)
    PROVE  FreshPairs'
<1>0. thread \in [Tabs -> [Threads -> Thread]] /\ mem[t] \in Memory
  BY DEF TypeOK
<1>1. ASSUME NEW th, NEW call, NEW token \in {None, mem[t].refresh},
             Open(t, th, call, token, mem[t].access), UNCHANGED <<server, mem, disk>>
      PROVE  FreshPairs'
  <2>1. \A u \in Tabs, c \in Threads : thread'[u][c] \in {thread[u][c], Awaits(call, token)}
    BY <1>0, <1>1 DEF Open
  <2>2. \A u \in Tabs, c \in Threads : thread'[u][c].token \in Held \cup {None}
    BY <2>1, HeldNow DEF Awaits
  <2>3. \A n \in wire' : \/ n \in wire
                         \/ n.pair = None /\ n.token \in Held \cup {None}
    BY <1>1, HeldNow DEF Open, Sent
  <2> QED
    BY <1>1, <2>2, <2>3, SendingFresh
<1>2. CASE Login(t)
  BY <1>1, <1>2 DEF Login
<1>3. CASE Call(t)
  BY <1>1, <1>3 DEF Call
<1>4. CASE Logout(t)
  <2>1. CASE Open(t, "logout", "logout", mem[t].refresh, mem[t].access) /\ UNCHANGED <<mem, disk>>
    BY <1>1, <1>4, <2>1 DEF Logout
  <2>2. CASE Remember(t, Cleared(mem[t])) /\ UNCHANGED <<wire, thread>>
    <3>1. Cleared(mem[t]) \in Memory /\ Cleared(mem[t]).refresh \in Held \cup {None}
      BY <1>0, ClearedType DEF Cleared, Memory
    <3>2. \A u \in Tabs, c \in Threads : thread'[u][c].token \in Held \cup {None}
      BY <2>2, HeldNow
    <3>3. UNCHANGED server
      BY <1>4 DEF Logout
    <3> QED
      BY <2>2, <3>1, <3>2, <3>3, ForgetsFresh
  <2> QED
    BY <1>4, <2>1, <2>2 DEF Logout
<1> QED
  BY <1>2, <1>3, <1>4

LEMMA LoadFresh ==
    ASSUME TypeOK, FreshPairs, NEW t \in Tabs, Load(t)
    PROVE  FreshPairs'
<1> DEFINE old   == {m \in wire : m.from[1] = t /\ ~m.gone}
           left  == {[m EXCEPT !.gone = TRUE] : m \in old \cap Unanswered}
           token == disk[Storage[t]]
           fresh == [th \in Threads |-> Idle]
           s     == Sent(t, "boot", "refresh", token, None)
           r     == [SignedOut EXCEPT !.refresh = token, !.boot = token # None,
                                      !.page = mem[t].page]
<1>0. /\ mem \in [Tabs -> Memory] /\ thread \in [Tabs -> [Threads -> Thread]]
      /\ wire \subseteq Message /\ "boot" \in Threads /\ Storage[t] \in Browsers
      /\ disk \in [Browsers -> Pairs \cup {None}]
  BY DEF TypeOK, Threads, Browsers
<1>1. token \in Held
  BY <1>0, HeldNow
<1>2. \A n \in left : n.pair = None /\ n.token \in Held
  <2> SUFFICES ASSUME NEW m \in old \cap Unanswered
               PROVE  /\ [m EXCEPT !.gone = TRUE].pair = None
                      /\ [m EXCEPT !.gone = TRUE].token \in Held
    OBVIOUS
  <2>1. m \in Message /\ m.pair = None /\ m.token \in Held
    BY <1>0, HeldNow DEF FreshPairs
  <2> QED
    BY <2>1 DEF Message
<1>3. s.pair = None /\ s.token = token
  BY DEF Sent
<1>4. mem'[t].refresh = token /\ \A u \in Tabs \ {t} : mem'[u] = mem[u]
  <2>1. mem' = [mem EXCEPT ![t] = Routed(r)]
    BY DEF Load
  <2>2. Routed(r).refresh = token
    BY DEF Routed, SignedOut
  <2> QED
    BY <1>0, <2>1, <2>2
<1>5. \A u \in Tabs, c \in Threads :
          thread'[u][c] \in {thread[u][c], Idle, Awaits("refresh", token)}
  <2>1. \/ thread' = [thread EXCEPT ![t] = fresh]
        \/ thread' = [thread EXCEPT ![t] = [fresh EXCEPT !["boot"] = Awaits("refresh", token)]]
    BY DEF Load
  <2>2. \A u \in Tabs \ {t} : thread'[u] = thread[u]
    BY <1>0, <2>1
  <2>3. \A c \in Threads : thread'[t][c] \in {Idle, Awaits("refresh", token)}
    BY <1>0, <2>1
  <2> QED
    BY <2>2, <2>3
<1>6. \A n \in wire' : n \in wire \/ n \in left \/ n = s
  BY DEF Load
<1> HIDE DEF left, s, r, token
<1>7. /\ \A u \in Tabs : mem'[u].refresh \in Held \cup {None, None}
      /\ \A b \in Browsers : disk'[b] \in Held \cup {None, None}
      /\ \A n \in wire' : n.token \in Held \cup {None, None}
  BY <1>1, <1>2, <1>3, <1>4, <1>6, HeldNow DEF Load
<1>8. \A u \in Tabs, c \in Threads : thread'[u][c].token \in Held \cup {None, None}
  BY <1>1, <1>5, HeldNow DEF Awaits, Idle
<1>9. Held' \subseteq Held \cup {None, None}
  BY <1>7, <1>8, HeldGrows
<1>10. \A n \in wire' : n.pair = None \/ (n \in wire /\ n.pair # None)
  BY <1>2, <1>3, <1>6
<1>11. UNCHANGED server
  BY DEF Load
<1> QED
  BY <1>9, <1>10, <1>11, ClientFresh

LEMMA InitSharing == Init => SharingInv
<1> SUFFICES ASSUME Init PROVE SharingInv
  OBVIOUS
<1>1. /\ \A t \in Tabs : mem[t] = SignedOut
      /\ \A t \in Tabs, th \in Threads : thread[t][th] = Idle
  BY DEF Init
<1>2. \A t \in Tabs : Mine(t) = {}
  BY DEF Init, Mine
<1>3. Shape
  <2> SUFFICES ASSUME NEW t \in Tabs PROVE TabShape(t)
    BY DEF Shape
  <2>1. WireMatches(t) /\ OneEach(t) /\ BootAlone(t)
    BY <1>2 DEF WireMatches, OneEach, BootAlone
  <2>2. ThreadsOK(t)
    BY <1>1 DEF ThreadsOK, Busy, Idle, Threads
  <2> QED
    BY <2>1, <2>2 DEF TabShape
<1>4. FreshPairs
  <2>1. wire = {}
    BY DEF Init
  <2>2. Held \subseteq {None}
    <3>1. \A p \in Tabs \X Threads : thread[p[1]][p[2]].token = None
      <4>1. \A t \in Tabs, th \in Threads : thread[t][th].token = None
        BY <1>1 DEF Idle
      <4> QED
        BY <4>1
    <3>2. \A t \in Tabs : mem[t].refresh = None
      <4>1. SignedOut.refresh = None
        BY DEF SignedOut
      <4> QED
        BY <1>1, <4>1
    <3>3. \A b \in Browsers : disk[b] = None
      BY DEF Init
    <3>4. {thread[p[1]][p[2]].token : p \in Tabs \X Threads} \subseteq {None}
      BY <3>1
    <3> QED
      BY <2>1, <3>2, <3>3, <3>4 DEF Held
  <2> QED
    BY <2>1, <2>2 DEF FreshPairs
<1> QED
  BY <1>3, <1>4, InitTypes DEF SharingInv

\* The server serves a request, or the network loses it.
LEMMA ServedSharing ==
    ASSUME SharingInv, UNCHANGED client, NEW m \in wire,
           Serve(m) \/ Lose(m) \/ Drop(m) \/ OutOfPairs(m)
    PROVE  Shape' /\ FreshPairs'
<1>1. Issued \subseteq Issued' /\ Replaces(m)
  BY ServeReplaces, WireReplaces DEF SharingInv
<1> QED
  BY <1>1, ReplacedShape, ReplacedFresh DEF SharingInv

LEMMA ReceivedSharing ==
    ASSUME SharingInv, NEW t \in Tabs, NEW th \in Threads, NEW m \in wire,
           Receive(t, th, m), UNCHANGED server
    PROVE  Shape' /\ FreshPairs'
<1>0. TypeOK /\ Shape /\ FreshPairs
  BY DEF SharingInv
<1>1. CASE TakeTokens(t, th, m)
  BY <1>0, <1>1, TakeTokensShape, TakeTokensFresh
<1>2. CASE \/ TakeAnswer(t, th, m) \/ TakeError(t, th, m)
           \/ NothingToRefresh(t, th, m) \/ RefreshFailed(t, th, m)
  BY <1>0, <1>2, EndingShape, EndingFresh
<1>3. CASE ShareRefresh(t, th, m) \/ LeadRefresh(t, th, m)
  BY <1>0, <1>3, ChallengedShape, ChallengedFresh
<1>4. CASE Refreshed(t, th, m)
  BY <1>0, <1>4, RefreshedShape, RefreshedFresh
<1> QED
  BY <1>1, <1>2, <1>3, <1>4 DEF Receive

\* Time passes: no pair is issued or forgotten, and the tabs do not notice.
LEMMA TimeSharing ==
    ASSUME SharingInv, Expire \/ Lapse \/ Purge, UNCHANGED <<wire, client, faults>>
    PROVE  Shape' /\ FreshPairs'
<1>1. Issued' = Issued
  <2>1. session \in [Pairs -> {"none", "live", "lapsed", "rotated", "revoked"}]
    BY DEF SharingInv, TypeOK
  <2>2. CASE Lapse
    <3>1. PICK p \in Pairs : session[p] = "live" /\ session' = [session EXCEPT ![p] = "lapsed"]
      BY <2>2 DEF Lapse, Oldest
    <3> QED
      BY <2>1, <3>1 DEF Issued
  <2> QED
    BY <2>2 DEF Issued, Expire, Purge
<1>2. mem' = mem /\ disk' = disk /\ thread' = thread /\ wire' = wire
  BY DEF client
<1>3. Held' = Held /\ Unanswered' = Unanswered /\ \A t : Mine(t)' = Mine(t)
  BY <1>2 DEF Held, Unanswered, Mine
<1>4. FreshPairs'
  BY <1>1, <1>2, <1>3 DEF SharingInv, FreshPairs
<1>5. Shape'
  BY <1>2, <1>3, SameTab DEF SharingInv, Shape
<1> QED
  BY <1>4, <1>5

LEMMA SharingStep == SharingInv /\ [Next]_vars => SharingInv'
<1> SUFFICES ASSUME SharingInv, [Next]_vars PROVE SharingInv'
  OBVIOUS
<1>0. TypeOK /\ Shape /\ FreshPairs /\ TypeOK'
  BY StepTypes DEF SharingInv
<1>1. CASE \E t \in Tabs : User(t)
  BY <1>0, <1>1, LoadShape, LoadFresh, CallsShape, CallsFresh DEF User, SharingInv
<1>2. CASE \E t \in Tabs, th \in Threads : Progress(t, th)
  BY <1>0, <1>2, ServedSharing, ReceivedSharing DEF Progress, SharingInv
<1>3. CASE \E m \in wire : Lose(m) /\ UNCHANGED client
  BY <1>0, <1>3, ServedSharing DEF SharingInv
<1>4. CASE \E m \in wire : m.gone /\ (Serve(m) \/ Drop(m)) /\ UNCHANGED <<client, faults>>
  BY <1>0, <1>4, ServedSharing DEF SharingInv
<1>5. CASE (Expire \/ Lapse \/ Purge) /\ UNCHANGED <<wire, client, faults>>
  BY <1>0, <1>5, TimeSharing DEF SharingInv
<1>6. CASE UNCHANGED vars
  <2>1. UNCHANGED <<session, wire, mem, disk, thread>>
    BY <1>6 DEF vars, server, client
  <2>2. Held' = Held /\ Unanswered' = Unanswered /\ Issued' = Issued /\ \A t : Mine(t)' = Mine(t)
    BY <2>1 DEF Held, Unanswered, Issued, Mine
  <2>3. FreshPairs'
    BY <1>0, <2>1, <2>2 DEF FreshPairs
  <2>4. Shape'
    BY <1>0, <2>1, <2>2, SameTab DEF Shape
  <2> QED
    BY <1>0, <2>3, <2>4 DEF SharingInv
<1> QED
  BY <1>1, <1>2, <1>3, <1>4, <1>5, <1>6 DEF Next

\* Two open refreshes of one token are one: the shared one has one leader, and the
\* bootstrap's is of a token that no other presents.
LEMMA SharingImplies == SharingInv => RefreshesShared
<1> SUFFICES ASSUME SharingInv, NEW t \in Tabs, NEW m \in Refreshes(t), NEW n \in Refreshes(t),
                    m.token = n.token
             PROVE  m = n
  BY DEF RefreshesShared
<1>0. TabShape(t) /\ m \in Mine(t) /\ n \in Mine(t) /\ m.call = "refresh" /\ n.call = "refresh"
  BY DEF SharingInv, Shape, Refreshes, Mine
<1>1. \A k \in Mine(t) : k.from = <<t, k.from[2]>> /\ k.from[2] \in Threads
  BY DEF SharingInv, TypeOK, Mine, Message
<1>2. \A k \in Mine(t) : k.call = "refresh" => Booting(t, k) \/ thread[t][k.from[2]].waits = "refresh"
  BY <1>0, <1>1 DEF TabShape, WireMatches, ThreadsOK, Booting
<1>3. CASE Booting(t, m) \/ Booting(t, n)
  BY <1>0, <1>3 DEF TabShape, BootAlone
<1>4. CASE thread[t][m.from[2]].waits = "refresh" /\ thread[t][n.from[2]].waits = "refresh"
  <2>1. m.from = n.from
    BY <1>0, <1>1, <1>4 DEF TabShape, ThreadsOK
  <2> QED
    BY <1>0, <2>1 DEF TabShape, OneEach
<1> QED
  BY <1>0, <1>2, <1>3, <1>4

\* However many calls of a tab get a 401 together, and whatever is lost, reloaded or
\* answered late meanwhile, the tab has one refresh of a token open at a time
\* (refreshPromise in lib/api.ts; the bootstrap of useAuth has a refresh of its own).
THEOREM OneRefreshPerToken == Spec => []RefreshesShared
<1>1. Spec => []SharingInv
  BY InitSharing, SharingStep, PTL DEF Spec
<1> QED
  BY <1>1, SharingImplies, PTL
=============================================================================
