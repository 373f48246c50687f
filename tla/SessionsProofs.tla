--------------------------- MODULE SessionsProofs ---------------------------
(***************************************************************************)
(* Proofs about Sessions, for any number of tabs, requests and sessions.   *)
(* What makes the rotation safe is that claiming a session is one          *)
(* conditional update: between it and the row that replaces the session,   *)
(* the claim belongs to one call, and the session has no successor yet.    *)
(***************************************************************************)
EXTENDS Sessions, TLAPS

-----------------------------------------------------------------------------
(* The inductive invariants.                                               *)

\* A call that has claimed a session and not yet replaced it.
Exchanging(c) == Is(c, {"session", "refresh"}, "admitted")

\* Its session is exchanged and has no successor; no other call has claimed it.
ClaimedOnce ==
    \A c \in Calls : Exchanging(c) =>
        /\ call[c].with \in Rows /\ state[call[c].with] = "exchanged"
        /\ \A n \in Rows : parent[n] # call[c].with
        /\ \A d \in Calls : Exchanging(d) /\ call[d].with = call[c].with => d = c

\* A tab's refresh is a refresh, if it is under way, and logging out makes no session.
CallsKeepTheirKind ==
    /\ \A t \in Tabs : call[<<t, "refresh">>].op \in {"none", "refresh"}
    /\ \A c \in Calls :
         /\ call[c].op = "none" => call[c].at = "idle"
         /\ call[c].at = "idle" => call[c] = Idle
         /\ call[c].op = "logout" => call[c].row = None /\ call[c].at # "admitted"

\* What the cookie is while calls take turns: live before a claim, and after it replaced by
\* the session in the answer.
CookieHolds == cookie # None => Valid(cookie)
Stage(c) ==
    /\ call[c].at \notin {"error", "lost"}
    /\ call[c].at \in {"sent", "found", "counted", "no"} => CookieHolds /\ cookie \in {None, call[c].with}
    /\ call[c].at = "ok" => call[c].op = "logout" \/ (call[c].row # None /\ state[call[c].row] = "live")
TakingTurns ==
    calm => /\ Busy = {} => CookieHolds
            /\ \A c \in Busy : Busy = {c} /\ Stage(c)

-----------------------------------------------------------------------------
\* The initial state satisfies all of them.
LEMMA InitHolds ==
    Init => /\ TypeOK /\ ClaimedOnce /\ NoneFromEnded /\ ExchangedOnce
            /\ CallsKeepTheirKind /\ SomethingToWaitFor /\ TakingTurns
<1> SUFFICES ASSUME Init
             PROVE  /\ TypeOK /\ ClaimedOnce /\ NoneFromEnded /\ ExchangedOnce
                    /\ CallsKeepTheirKind /\ SomethingToWaitFor /\ TakingTurns
    OBVIOUS
<1> USE SessionConstants DEF Init, Idle, Call
<1>1. TypeOK
    BY DEF TypeOK, Rows
<1>2. ClaimedOnce /\ NoneFromEnded /\ ExchangedOnce
    BY DEF ClaimedOnce, NoneFromEnded, ExchangedOnce, Exchanging, Is
<1>3. CallsKeepTheirKind /\ SomethingToWaitFor
    BY DEF CallsKeepTheirKind, SomethingToWaitFor, Calls
<1>4. TakingTurns
    BY DEF TakingTurns, Busy, CookieHolds
<1> QED BY <1>1, <1>2, <1>3, <1>4

\* The calls of a tab are calls, and different ones.
LEMMA TwoCalls ==
    ASSUME NEW t \in Tabs
    PROVE  /\ <<t, "screen">> \in Calls /\ <<t, "refresh">> \in Calls
           /\ \A u \in Tabs : <<t, "screen">> # <<u, "refresh">>
BY DEF Calls

-----------------------------------------------------------------------------
\* Every step keeps the types.
LEMMA TypeStep == TypeOK /\ [Next]_vars => TypeOK'
<1> SUFFICES ASSUME TypeOK, [Next]_vars PROVE TypeOK'
    OBVIOUS
<1> USE SessionConstants DEF TypeOK, server, browser, Call, Idle
<1>0. ASSUME NEW c \in Calls, NEW at \in {"sent", "found", "counted", "admitted", "ok", "no", "error", "lost"},
             To(c, at)
      PROVE  call' \in [Calls ->
               [op : {"none", "session", "login", "logout", "bootstrap", "refresh"},
                at : {"idle", "sent", "found", "counted", "admitted", "ok", "no", "error", "lost"},
                with : Rows \cup {None}, row : Rows \cup {None}]]
    BY <1>0 DEF To
<1>00. ASSUME NEW c \in Calls, NEW op \in {"session", "login", "logout", "bootstrap", "refresh"},
             Send(c, op)
      PROVE  /\ calm' \in BOOLEAN
             /\ call' \in [Calls ->
               [op : {"none", "session", "login", "logout", "bootstrap", "refresh"},
                at : {"idle", "sent", "found", "counted", "admitted", "ok", "no", "error", "lost"},
                with : Rows \cup {None}, row : Rows \cup {None}]]
  <2>1. calm' \in BOOLEAN
      BY <1>00, Zenon DEF Send
  <2> QED BY <1>00, <2>1 DEF Send
<1>1. ASSUME NEW t \in Tabs, Load(t) PROVE TypeOK'
    BY <1>1, <1>00, TwoCalls DEF Load
<1>2. ASSUME NEW t \in Tabs, AskStatus(t) PROVE TypeOK'
    BY <1>2 DEF AskStatus
<1>3. ASSUME NEW t \in Tabs, LogIn(t) \/ SetUp(t) \/ LogOut(t) PROVE TypeOK'
    BY <1>3, <1>00, TwoCalls DEF LogIn, SetUp, LogOut, Submit
<1>4. ASSUME NEW t \in Tabs, AgeToken(t) PROVE TypeOK'
    BY <1>4 DEF AgeToken
<1>5. ASSUME NEW t \in Tabs, HearScreen(t) PROVE TypeOK'
  <2>1. cookie' \in Rows \cup {None}
      BY <1>5, TwoCalls DEF HearScreen, SetCookie, Given, Kept
  <2> QED BY <1>5, <2>1, TwoCalls DEF HearScreen, Shown
<1>6. ASSUME NEW t \in Tabs, HearRefresh(t) PROVE TypeOK'
  <2>1. cookie' \in Rows \cup {None}
      BY <1>6, TwoCalls DEF HearRefresh, SetCookie, Given, Kept
  <2>2. page' \in [Tabs \X Requests -> {"idle", "expired", "waiting", "final"}]
      BY <1>6 DEF HearRefresh
  <2>3. call' = [call EXCEPT ![<<t, "refresh">>] = Idle] /\ UNCHANGED <<server, screen, faults, calm>>
        /\ access' \in [Tabs -> {None, "fresh", "stale"}]
      BY <1>6 DEF HearRefresh
  <2> QED BY <2>1, <2>2, <2>3, TwoCalls
<1>7. ASSUME NEW t \in Tabs, NEW r \in Requests, Ask(t, r) PROVE TypeOK'
    BY <1>7 DEF Ask
<1>8. ASSUME NEW t \in Tabs, NEW r \in Requests, Challenge(t, r) PROVE TypeOK'
  <2>1. page' \in [Tabs \X Requests -> {"idle", "expired", "waiting", "final"}]
      BY <1>8 DEF Challenge
  <2> QED BY <1>8, <1>00, <2>1, TwoCalls DEF Challenge
<1>9. ASSUME NEW t \in Tabs, NEW r \in Requests, Answer(t, r) PROVE TypeOK'
    BY <1>9 DEF Answer
<1>10. ASSUME NEW c \in Calls, Find(c) \/ CheckPassword(c) \/ CountUsers(c) PROVE TypeOK'
    BY <1>10, <1>0 DEF Find, CheckPassword, CountUsers
<1>11. ASSUME NEW c \in Calls, Claim(c) PROVE TypeOK'
    BY <1>11, <1>0 DEF Claim
<1>12. ASSUME NEW c \in Calls, Initialise(c) PROVE TypeOK'
    BY <1>12, <1>0 DEF Initialise
<1>13. ASSUME NEW c \in Calls, Create(c) PROVE TypeOK'
    BY <1>13 DEF Create, Unused
<1>14. ASSUME NEW c \in Calls, Revoke(c) PROVE TypeOK'
  <2>1. state' \in [Rows -> {"none", "live", "exchanged", "ended"}]
      BY <1>14 DEF Revoke
  <2> QED BY <1>14, <1>0, <2>1 DEF Revoke
<1>15. ASSUME NEW c \in Calls, Refuse(c) \/ Lose(c) PROVE TypeOK'
  <2>1. calm' = FALSE /\ faults' = faults + 1 /\ UNCHANGED <<server, browser>>
      BY <1>15 DEF Refuse, Lose
  <2>2. To(c, "error") \/ To(c, "lost")
      BY <1>15 DEF Refuse, Lose
  <2>3. call' \in [Calls ->
               [op : {"none", "session", "login", "logout", "bootstrap", "refresh"},
                at : {"idle", "sent", "found", "counted", "admitted", "ok", "no", "error", "lost"},
                with : Rows \cup {None}, row : Rows \cup {None}]]
      BY <2>2, <1>0
  <2>4. calm' \in BOOLEAN
      BY <2>1, Zenon
  <2> QED BY <2>1, <2>3, <2>4
<1>16. ASSUME NEW n \in Rows, Expire(n) PROVE TypeOK'
    BY <1>16 DEF Expire
<1>17. CASE UNCHANGED vars
    BY <1>17 DEF vars
<1> QED BY <1>1, <1>2, <1>3, <1>4, <1>5, <1>6, <1>7, <1>8, <1>9, <1>10, <1>11, <1>12, <1>13,
           <1>14, <1>15, <1>16, <1>17 DEF Next, Serve, Fetch

-----------------------------------------------------------------------------
\* A call that is sent, or goes on other than to "admitted", claims nothing.
LEMMA NoNewClaim ==
    ASSUME TypeOK, ClaimedOnce, NoneFromEnded, ExchangedOnce,
           UNCHANGED <<state, parent>>,
           \A c \in Calls : Exchanging(c)' => Exchanging(c) /\ call'[c].with = call[c].with
    PROVE  (ClaimedOnce /\ NoneFromEnded /\ ExchangedOnce)'
BY DEF ClaimedOnce, NoneFromEnded, ExchangedOnce

\* Every step keeps claims and successors apart.
LEMMA ExchangeStep ==
    TypeOK /\ ClaimedOnce /\ NoneFromEnded /\ ExchangedOnce /\ [Next]_vars
      => (ClaimedOnce /\ NoneFromEnded /\ ExchangedOnce)'
<1> SUFFICES ASSUME TypeOK, ClaimedOnce, NoneFromEnded, ExchangedOnce, [Next]_vars
             PROVE  (ClaimedOnce /\ NoneFromEnded /\ ExchangedOnce)'
    OBVIOUS
<1> USE SessionConstants DEF server, browser
<1>0. call \in [Calls -> [op : {"none", "session", "login", "logout", "bootstrap", "refresh"},
             at : {"idle", "sent", "found", "counted", "admitted", "ok", "no", "error", "lost"},
             with : Rows \cup {None}, row : Rows \cup {None}]]
    BY DEF TypeOK
<1>a. ASSUME NEW c \in Calls, NEW at \in {"found", "counted", "ok", "no", "error", "lost"}, To(c, at)
      PROVE  \A d \in Calls : Exchanging(d)' => Exchanging(d) /\ call'[d].with = call[d].with
    BY <1>a, <1>0 DEF To, Exchanging, Is, Call
<1>b. ASSUME NEW c \in Calls, NEW op, Send(c, op)
      PROVE  \A d \in Calls : Exchanging(d)' => Exchanging(d) /\ call'[d].with = call[d].with
    BY <1>b, <1>0 DEF Send, Exchanging, Is, Call
<1>c. ASSUME NEW c \in Calls, call' = [call EXCEPT ![c] = Idle]
      PROVE  \A d \in Calls : Exchanging(d)' => Exchanging(d) /\ call'[d].with = call[d].with
    BY <1>c, <1>0 DEF Idle, Exchanging, Is, Call
<1>d. ASSUME UNCHANGED call
      PROVE  \A d \in Calls : Exchanging(d)' => Exchanging(d) /\ call'[d].with = call[d].with
    BY <1>d DEF Exchanging, Is
<1>1. ASSUME NEW t \in Tabs, Load(t)
      PROVE  (ClaimedOnce /\ NoneFromEnded /\ ExchangedOnce)'
    BY <1>1, <1>b, NoNewClaim, TwoCalls DEF Load
<1>2. ASSUME NEW t \in Tabs, AskStatus(t) \/ AgeToken(t)
      PROVE  (ClaimedOnce /\ NoneFromEnded /\ ExchangedOnce)'
    BY <1>2, <1>d, NoNewClaim DEF AskStatus, AgeToken
<1>3. ASSUME NEW t \in Tabs, LogIn(t) \/ SetUp(t) \/ LogOut(t)
      PROVE  (ClaimedOnce /\ NoneFromEnded /\ ExchangedOnce)'
    BY <1>3, <1>b, NoNewClaim, TwoCalls DEF LogIn, SetUp, LogOut, Submit
<1>5. ASSUME NEW t \in Tabs, HearScreen(t)
      PROVE  (ClaimedOnce /\ NoneFromEnded /\ ExchangedOnce)'
    BY <1>5, <1>c, NoNewClaim, TwoCalls DEF HearScreen
<1>6. ASSUME NEW t \in Tabs, HearRefresh(t)
      PROVE  (ClaimedOnce /\ NoneFromEnded /\ ExchangedOnce)'
    BY <1>6, <1>c, NoNewClaim, TwoCalls DEF HearRefresh
<1>7. ASSUME NEW t \in Tabs, NEW r \in Requests, Ask(t, r) \/ Answer(t, r)
      PROVE  (ClaimedOnce /\ NoneFromEnded /\ ExchangedOnce)'
    BY <1>7, <1>d, NoNewClaim DEF Ask, Answer
<1>8. ASSUME NEW t \in Tabs, NEW r \in Requests, Challenge(t, r)
      PROVE  (ClaimedOnce /\ NoneFromEnded /\ ExchangedOnce)'
  <2>1. Send(<<t, "refresh">>, "refresh") \/ UNCHANGED call
      BY <1>8 DEF Challenge
  <2>2. \A d \in Calls : Exchanging(d)' => Exchanging(d) /\ call'[d].with = call[d].with
      BY <2>1, <1>b, <1>d, TwoCalls
  <2> QED BY <1>8, <2>2, NoNewClaim DEF Challenge
<1>10. ASSUME NEW c \in Calls, Find(c) \/ CountUsers(c)
       PROVE  (ClaimedOnce /\ NoneFromEnded /\ ExchangedOnce)'
    BY <1>10, <1>a, NoNewClaim DEF Find, CountUsers
<1>11. ASSUME NEW c \in Calls, Claim(c)
       PROVE  (ClaimedOnce /\ NoneFromEnded /\ ExchangedOnce)'
  <2>1. CASE ~Valid(call[c].with)
      BY <1>11, <2>1, <1>a, NoNewClaim DEF Claim
  <2>2. CASE Valid(call[c].with)
    <3> DEFINE n == call[c].with
    <3>1. n \in Rows /\ state[n] = "live" /\ state' = [state EXCEPT ![n] = "exchanged"]
          /\ To(c, "admitted") /\ UNCHANGED parent
        BY <1>11, <2>2, <1>0 DEF Claim, Valid
    <3>2. \A m \in Rows : parent[m] # n
        BY <3>1 DEF NoneFromEnded
    <3>3. \A d \in Calls : Exchanging(d) => call[d].with # n
        BY <3>1 DEF ClaimedOnce
    <3>4. \A d \in Calls : Exchanging(d)' => call'[d].with = call[d].with /\ (d = c \/ Exchanging(d))
        BY <3>1, <1>0 DEF To, Call, Exchanging, Is
    <3>5. \A m \in Rows : state[m] = "exchanged" => state'[m] = "exchanged"
        BY <3>1 DEF TypeOK
    <3>6. state'[n] = "exchanged"
        BY <3>1 DEF TypeOK
    <3>7. ClaimedOnce'
        BY <3>1, <3>2, <3>3, <3>4, <3>5, <3>6 DEF ClaimedOnce
    <3>8. NoneFromEnded' /\ ExchangedOnce'
        BY <3>1, <3>5 DEF NoneFromEnded, ExchangedOnce, TypeOK
    <3> QED BY <3>7, <3>8
  <2> QED BY <2>1, <2>2
<1>12. ASSUME NEW c \in Calls, CheckPassword(c) \/ Initialise(c)
       PROVE  (ClaimedOnce /\ NoneFromEnded /\ ExchangedOnce)'
  <2>1. call[c].op \in {"login", "bootstrap"} /\ UNCHANGED <<state, parent>>
        /\ (To(c, "no") \/ To(c, "admitted"))
      BY <1>12 DEF CheckPassword, Initialise, Is
  <2>2. \A d \in Calls : Exchanging(d)' => Exchanging(d) /\ call'[d].with = call[d].with
      BY <2>1, <1>0 DEF To, Call, Exchanging, Is
  <2> QED BY <2>1, <2>2, NoNewClaim
<1>13. ASSUME NEW c \in Calls, Create(c)
       PROVE  (ClaimedOnce /\ NoneFromEnded /\ ExchangedOnce)'
  <2>1. PICK n \in Unused :
           /\ state' = [state EXCEPT ![n] = "live"]
           /\ parent' = [parent EXCEPT ![n] =
                  IF call[c].op \in {"session", "refresh"} THEN call[c].with ELSE None]
           /\ call' = [call EXCEPT ![c] = Call(@.op, "ok", @.with, n)]
      BY <1>13 DEF Create
  <2>2. n \in Rows /\ state[n] = "none" /\ call[c].at = "admitted"
      BY <1>13, <2>1 DEF Unused, Create
  <2>3. \A m \in Rows : state[m] = "exchanged" => state'[m] = "exchanged"
      BY <2>1, <2>2 DEF TypeOK
  <2>4. \A d \in Calls : Exchanging(d)' => d # c /\ Exchanging(d) /\ call'[d].with = call[d].with
      BY <2>1, <1>0 DEF Call, Exchanging, Is
  <2>5. \A m \in Rows : m # n => parent'[m] = parent[m]
      BY <2>1 DEF TypeOK
  <2>6. CASE call[c].op \in {"session", "refresh"}
    <3>1. Exchanging(c) /\ parent'[n] = call[c].with
        BY <2>1, <2>2, <2>6 DEF Exchanging, Is, TypeOK
    <3>2. ClaimedOnce'
        BY <2>3, <2>4, <2>5, <3>1 DEF ClaimedOnce
    <3>3. NoneFromEnded'
        BY <2>3, <2>5, <3>1 DEF ClaimedOnce, NoneFromEnded, TypeOK
    <3>4. ExchangedOnce'
        BY <2>5, <3>1 DEF ClaimedOnce, ExchangedOnce
    <3> QED BY <3>2, <3>3, <3>4
  <2>7. CASE call[c].op \notin {"session", "refresh"}
    <3>1. parent'[n] = None
        BY <2>1, <2>2, <2>7 DEF TypeOK
    <3>2. ClaimedOnce'
        BY <2>3, <2>4, <2>5, <3>1 DEF ClaimedOnce
    <3>3. NoneFromEnded'
        BY <2>3, <2>5, <3>1 DEF NoneFromEnded, TypeOK
    <3>4. ExchangedOnce'
        BY <2>5, <3>1 DEF ExchangedOnce
    <3> QED BY <3>2, <3>3, <3>4
  <2> QED BY <2>6, <2>7
<1>14. ASSUME NEW c \in Calls, Revoke(c)
       PROVE  (ClaimedOnce /\ NoneFromEnded /\ ExchangedOnce)'
  <2>1. \A m \in Rows : state[m] = "exchanged" => state'[m] = "exchanged"
      BY <1>14 DEF Revoke
  <2>2. \A d \in Calls : Exchanging(d)' => Exchanging(d) /\ call'[d].with = call[d].with
      BY <1>14, <1>a DEF Revoke
  <2>3. UNCHANGED parent
      BY <1>14 DEF Revoke
  <2>4. ClaimedOnce'
      BY <2>1, <2>2, <2>3 DEF ClaimedOnce
  <2>5. NoneFromEnded' /\ ExchangedOnce'
      BY <2>1, <2>3 DEF NoneFromEnded, ExchangedOnce, TypeOK
  <2> QED BY <2>4, <2>5
<1>15. ASSUME NEW c \in Calls, Refuse(c) \/ Lose(c)
       PROVE  (ClaimedOnce /\ NoneFromEnded /\ ExchangedOnce)'
    BY <1>15, <1>a, NoNewClaim DEF Refuse, Lose
<1>16. ASSUME NEW n \in Rows, Expire(n)
       PROVE  (ClaimedOnce /\ NoneFromEnded /\ ExchangedOnce)'
    BY <1>16, <1>d, NoNewClaim DEF Expire
<1>17. CASE UNCHANGED vars
    BY <1>17, <1>d, NoNewClaim DEF vars
<1> QED BY <1>1, <1>2, <1>3, <1>5, <1>6, <1>7, <1>8, <1>10, <1>11, <1>12, <1>13,
           <1>14, <1>15, <1>16, <1>17 DEF Next, Serve, Fetch

-----------------------------------------------------------------------------
\* Calls that go on keep their kind; only logging out has no row.
LEMMA KindStep == TypeOK /\ CallsKeepTheirKind /\ [Next]_vars => CallsKeepTheirKind'
<1> SUFFICES ASSUME TypeOK, CallsKeepTheirKind, [Next]_vars PROVE CallsKeepTheirKind'
    OBVIOUS
<1> USE SessionConstants DEF server, browser
<1>0. call \in [Calls -> [op : {"none", "session", "login", "logout", "bootstrap", "refresh"},
             at : {"idle", "sent", "found", "counted", "admitted", "ok", "no", "error", "lost"},
             with : Rows \cup {None}, row : Rows \cup {None}]]
    BY DEF TypeOK
<1>p. ASSUME NEW c \in Calls, NEW new,
             \A d \in Calls : call'[d] = IF d = c THEN new ELSE call[d],
             new.op = "none" => new.at = "idle",
             new.at = "idle" => new = Idle,
             new.op = "logout" => new.row = None /\ new.at # "admitted",
             \A t \in Tabs : c = <<t, "refresh">> => new.op \in {"none", "refresh"}
      PROVE  CallsKeepTheirKind'
  <2>1. \A t \in Tabs : call'[<<t, "refresh">>].op \in {"none", "refresh"}
      BY <1>p, TwoCalls DEF CallsKeepTheirKind
  <2>2. \A d \in Calls :
         /\ call'[d].op = "none" => call'[d].at = "idle"
         /\ call'[d].at = "idle" => call'[d] = Idle
         /\ call'[d].op = "logout" => call'[d].row = None /\ call'[d].at # "admitted"
      BY <1>p DEF CallsKeepTheirKind
  <2> QED BY <2>1, <2>2 DEF CallsKeepTheirKind, Idle, Call
<1>a. ASSUME NEW c \in Calls, call[c].at # "idle",
             NEW at \in {"found", "counted", "admitted", "ok", "no", "error", "lost"},
             at = "admitted" => call[c].op # "logout",
             To(c, at)
      PROVE  CallsKeepTheirKind'
  <2> DEFINE new == Call(call[c].op, at, call[c].with, call[c].row)
  <2>1. /\ new.op = call[c].op /\ new.at = at /\ new.row = call[c].row
      BY DEF Call
  <2>2. \A d \in Calls : call'[d] = IF d = c THEN new ELSE call[d]
      BY <1>a, <1>0 DEF To
  <2>3. call[c].op # "none" /\ \A t \in Tabs : c = <<t, "refresh">> => call[c].op \in {"none", "refresh"}
      BY <1>a DEF CallsKeepTheirKind
  <2>4. call[c].op = "logout" => call[c].row = None
      BY DEF CallsKeepTheirKind
  <2> HIDE DEF new
  <2> QED BY <1>a, <2>1, <2>2, <2>3, <2>4, <1>p
<1>b. ASSUME NEW t \in Tabs, NEW kind \in {"screen", "refresh"}, NEW op, op # "none",
             kind = "screen" \/ op = "refresh", Send(<<t, kind>>, op)
      PROVE  CallsKeepTheirKind'
  <2> DEFINE new == Call(op, "sent", cookie, None)
  <2>1. new.op = op /\ new.at = "sent" /\ new.row = None
      BY DEF Call
  <2>2. \A d \in Calls : call'[d] = IF d = <<t, kind>> THEN new ELSE call[d]
      BY <1>b, <1>0 DEF Send
  <2>3. <<t, kind>> \in Calls /\ \A u \in Tabs : <<t, kind>> = <<u, "refresh">> => op = "refresh"
      BY <1>b DEF Calls
  <2> HIDE DEF new
  <2> QED BY <1>b, <2>1, <2>2, <2>3, <1>p
<1>c. ASSUME NEW c \in Calls, call' = [call EXCEPT ![c] = Idle] PROVE CallsKeepTheirKind'
  <2>1. \A d \in Calls : call'[d] = IF d = c THEN Idle ELSE call[d]
      BY <1>c, <1>0
  <2>2. Idle.op = "none" /\ Idle.at = "idle"
      BY DEF Idle, Call
  <2> QED BY <2>1, <2>2, <1>p
<1>d. ASSUME UNCHANGED call PROVE CallsKeepTheirKind'
    BY <1>d DEF CallsKeepTheirKind, Idle, Call
<1>1. ASSUME NEW t \in Tabs, Load(t) PROVE CallsKeepTheirKind'
    BY <1>1, <1>b DEF Load
<1>2. ASSUME NEW t \in Tabs, AskStatus(t) \/ AgeToken(t) PROVE CallsKeepTheirKind'
    BY <1>2, <1>d DEF AskStatus, AgeToken
<1>3. ASSUME NEW t \in Tabs, LogIn(t) \/ SetUp(t) \/ LogOut(t) PROVE CallsKeepTheirKind'
    BY <1>3, <1>b DEF LogIn, SetUp, LogOut, Submit
<1>5. ASSUME NEW t \in Tabs, HearScreen(t) \/ HearRefresh(t) PROVE CallsKeepTheirKind'
    BY <1>5, <1>c, TwoCalls DEF HearScreen, HearRefresh
<1>7. ASSUME NEW t \in Tabs, NEW r \in Requests, Ask(t, r) \/ Answer(t, r)
      PROVE  CallsKeepTheirKind'
    BY <1>7, <1>d DEF Ask, Answer
<1>8. ASSUME NEW t \in Tabs, NEW r \in Requests, Challenge(t, r) PROVE CallsKeepTheirKind'
    BY <1>8, <1>b, <1>d DEF Challenge
<1>10. ASSUME NEW c \in Calls, Find(c) \/ CountUsers(c) \/ Revoke(c) PROVE CallsKeepTheirKind'
  <2>1. call[c].at = "sent"
        /\ \E at \in {"found", "counted", "ok", "no"} : To(c, at)
      BY <1>10 DEF Find, CountUsers, Revoke, Is
  <2> QED BY <2>1, <1>a
<1>11. ASSUME NEW c \in Calls, Claim(c) \/ CheckPassword(c) \/ Initialise(c)
       PROVE  CallsKeepTheirKind'
  <2>1. call[c].at # "idle" /\ call[c].op # "logout" /\ (To(c, "no") \/ To(c, "admitted"))
      BY <1>11 DEF Claim, CheckPassword, Initialise, Is
  <2> QED BY <2>1, <1>a
<1>13. ASSUME NEW c \in Calls, Create(c) PROVE CallsKeepTheirKind'
  <2>1. PICK n \in Unused : call' = [call EXCEPT ![c] = Call(@.op, "ok", @.with, n)]
      BY <1>13 DEF Create
  <2> DEFINE new == Call(call[c].op, "ok", call[c].with, n)
  <2>2. \A d \in Calls : call'[d] = IF d = c THEN new ELSE call[d]
      BY <2>1, <1>0
  <2>3. call[c].op \notin {"none", "logout"}
        /\ \A t \in Tabs : c = <<t, "refresh">> => call[c].op \in {"none", "refresh"}
      BY <1>13 DEF Create, CallsKeepTheirKind
  <2>4. new.op = call[c].op /\ new.at = "ok"
      BY DEF Call
  <2> HIDE DEF new
  <2> QED BY <2>2, <2>3, <2>4, <1>p
<1>15. ASSUME NEW c \in Calls, Refuse(c) \/ Lose(c) PROVE CallsKeepTheirKind'
  <2>1. call[c].at # "idle" /\ (To(c, "error") \/ To(c, "lost"))
      BY <1>15 DEF Refuse, Lose, Is
  <2> QED BY <2>1, <1>a
<1>16. ASSUME NEW n \in Rows, Expire(n) PROVE CallsKeepTheirKind'
    BY <1>16, <1>d DEF Expire
<1>17. CASE UNCHANGED vars
    BY <1>17, <1>d DEF vars
<1> QED BY <1>1, <1>2, <1>3, <1>5, <1>7, <1>8, <1>10, <1>11, <1>13, <1>15, <1>16, <1>17
        DEF Next, Serve, Fetch

\* What waits keeps waiting for its call until that is heard.
LEMMA WaitingStep ==
    TypeOK /\ CallsKeepTheirKind /\ SomethingToWaitFor /\ [Next]_vars => SomethingToWaitFor'
<1> SUFFICES ASSUME TypeOK, CallsKeepTheirKind, SomethingToWaitFor, [Next]_vars
             PROVE  SomethingToWaitFor'
    OBVIOUS
<1> USE SessionConstants DEF server, browser
<1>0. call \in [Calls -> [op : {"none", "session", "login", "logout", "bootstrap", "refresh"},
             at : {"idle", "sent", "found", "counted", "admitted", "ok", "no", "error", "lost"},
             with : Rows \cup {None}, row : Rows \cup {None}]]
      /\ screen \in [Tabs -> {"closed", "loading", "out", "login", "bootstrap", "in", "error"}]
      /\ page \in [Tabs \X Requests -> {"idle", "expired", "waiting", "final"}]
    BY DEF TypeOK
<1>a. ASSUME \A c \in Calls : call'[c].op = call[c].op, UNCHANGED <<screen, page>>
      PROVE  SomethingToWaitFor'
    BY <1>a, TwoCalls DEF SomethingToWaitFor
<1>b. ASSUME NEW c \in Calls, NEW at, To(c, at), UNCHANGED <<screen, page>>
      PROVE  SomethingToWaitFor'
    BY <1>a, <1>b, <1>0 DEF To, Call
<1>1. ASSUME NEW t \in Tabs, Load(t) PROVE SomethingToWaitFor'
  <2>1. \A d \in Calls : call'[d] = IF d = <<t, "screen">> THEN Call("session", "sent", cookie, None)
                                              ELSE call[d]
      BY <1>1, <1>0 DEF Load, Send
  <2>2. UNCHANGED page /\ screen' = [screen EXCEPT ![t] = "loading"]
      BY <1>1 DEF Load
  <2>a. call'[<<t, "screen">>] = Call("session", "sent", cookie, None)
      BY <2>1, TwoCalls
  <2>3. call'[<<t, "screen">>].op = "session"
      BY <2>a DEF Call
  <2>4. \A u \in Tabs : /\ call'[<<u, "refresh">>] = call[<<u, "refresh">>]
                        /\ u # t => /\ call'[<<u, "screen">>] = call[<<u, "screen">>]
                                    /\ screen'[u] = screen[u]
      BY <2>1, <2>2, <1>0, TwoCalls
  <2> QED BY <2>2, <2>3, <2>4 DEF SomethingToWaitFor
<1>2. ASSUME NEW t \in Tabs, AskStatus(t) PROVE SomethingToWaitFor'
    BY <1>2, <1>0 DEF AskStatus, SomethingToWaitFor
<1>3. ASSUME NEW t \in Tabs, LogIn(t) \/ SetUp(t) \/ LogOut(t) PROVE SomethingToWaitFor'
  <2>1. PICK op \in {"login", "bootstrap", "logout"} : Send(<<t, "screen">>, op)
      BY <1>3 DEF LogIn, SetUp, LogOut, Submit
  <2>2. \A d \in Calls : call'[d] = IF d = <<t, "screen">> THEN Call(op, "sent", cookie, None)
                                              ELSE call[d]
      BY <2>1, <1>0 DEF Send
  <2>3. screen[t] # "loading" /\ UNCHANGED <<screen, page>>
      BY <1>3 DEF LogIn, SetUp, LogOut, Submit
  <2> QED BY <2>2, <2>3, <1>0, TwoCalls DEF SomethingToWaitFor, Call
<1>5. ASSUME NEW t \in Tabs, HearScreen(t) PROVE SomethingToWaitFor'
  <2>1. \A d \in Calls : call'[d] = IF d = <<t, "screen">> THEN Idle ELSE call[d]
      BY <1>5, <1>0 DEF HearScreen
  <2>2. UNCHANGED page /\ screen' = [screen EXCEPT ![t] = Shown(t, <<t, "screen">>)]
      BY <1>5 DEF HearScreen
  <2>3. Shown(t, <<t, "screen">>) # "loading"
      BY <1>0 DEF SomethingToWaitFor, Shown
  <2> QED BY <2>1, <2>2, <2>3, <1>0, TwoCalls DEF SomethingToWaitFor
<1>6. ASSUME NEW t \in Tabs, HearRefresh(t) PROVE SomethingToWaitFor'
  <2>1. \A d \in Calls : call'[d] = IF d = <<t, "refresh">> THEN Idle ELSE call[d]
      BY <1>6, <1>0 DEF HearRefresh
  <2>2. UNCHANGED screen
      BY <1>6 DEF HearRefresh
  <2>3. \A u \in Tabs, r \in Requests :
           page'[<<u, r>>] = "waiting" => u # t /\ page[<<u, r>>] = "waiting"
      BY <1>6, <1>0 DEF HearRefresh
  <2> QED BY <2>1, <2>2, <2>3, TwoCalls DEF SomethingToWaitFor
<1>7. ASSUME NEW t \in Tabs, NEW r \in Requests, Ask(t, r) \/ Answer(t, r)
      PROVE  SomethingToWaitFor'
  <2>1. UNCHANGED <<screen, call>>
        /\ \A u \in Tabs, q \in Requests : page'[<<u, q>>] = "waiting" => page[<<u, q>>] = "waiting"
      BY <1>7, <1>0 DEF Ask, Answer
  <2> QED BY <2>1 DEF SomethingToWaitFor
<1>8. ASSUME NEW t \in Tabs, NEW r \in Requests, Challenge(t, r) PROVE SomethingToWaitFor'
  <2>1. UNCHANGED screen /\ page' = [page EXCEPT ![<<t, r>>] = "waiting"]
      BY <1>8 DEF Challenge
  <2>2. CASE Send(<<t, "refresh">>, "refresh")
    <3>1. \A d \in Calls : call'[d] = IF d = <<t, "refresh">> THEN Call("refresh", "sent", cookie, None)
                                              ELSE call[d]
        BY <2>2, <1>0 DEF Send
    <3>a. call'[<<t, "refresh">>] = Call("refresh", "sent", cookie, None)
        BY <3>1, TwoCalls
    <3>2. call'[<<t, "refresh">>].op = "refresh"
        BY <3>a DEF Call
    <3>3. \A u \in Tabs : /\ call'[<<u, "screen">>] = call[<<u, "screen">>]
                          /\ u # t => call'[<<u, "refresh">>] = call[<<u, "refresh">>]
        BY <3>1, TwoCalls
    <3>4. \A u \in Tabs, q \in Requests :
             page'[<<u, q>>] = "waiting" => u = t \/ page[<<u, q>>] = "waiting"
        BY <2>1, <1>0
    <3> QED BY <2>1, <3>2, <3>3, <3>4 DEF SomethingToWaitFor
  <2>3. CASE call[<<t, "refresh">>] # Idle /\ UNCHANGED call
    <3>1. call[<<t, "refresh">>].op = "refresh"
        BY <2>3, TwoCalls DEF CallsKeepTheirKind
    <3> QED BY <2>1, <2>3, <3>1, <1>0, TwoCalls DEF SomethingToWaitFor
  <2> QED BY <1>8, <2>2, <2>3 DEF Challenge
<1>10. ASSUME NEW c \in Calls, Serve(c) PROVE SomethingToWaitFor'
  <2>1. CASE Create(c)
    <3>1. PICK n \in Unused : call' = [call EXCEPT ![c] = Call(@.op, "ok", @.with, n)]
        BY <2>1 DEF Create
    <3>2. \A d \in Calls : call'[d].op = call[d].op
        BY <3>1, <1>0 DEF Call
    <3> QED BY <2>1, <3>2, <1>a DEF Create
  <2>2. CASE ~Create(c)
    <3>1. UNCHANGED <<screen, page>> /\ \E at : To(c, at)
        BY <1>10, <2>2 DEF Serve, Find, Claim, CheckPassword, CountUsers, Initialise, Revoke
    <3> QED BY <3>1, <1>b
  <2> QED BY <2>1, <2>2
<1>15. ASSUME NEW c \in Calls, Refuse(c) \/ Lose(c) PROVE SomethingToWaitFor'
    BY <1>15, <1>b DEF Refuse, Lose
<1>16. ASSUME NEW n \in Rows, Expire(n) PROVE SomethingToWaitFor'
    BY <1>16, <1>a DEF Expire
<1>17. ASSUME NEW t \in Tabs, AgeToken(t) PROVE SomethingToWaitFor'
    BY <1>17, <1>a DEF AgeToken
<1>18. CASE UNCHANGED vars
    BY <1>18, <1>a DEF vars
<1> QED BY <1>1, <1>2, <1>3, <1>5, <1>6, <1>7, <1>8, <1>10, <1>15, <1>16, <1>17, <1>18
        DEF Next, Fetch

-----------------------------------------------------------------------------
\* While calls take turns the cookie stays live: at most one call is under way, and what it
\* will do to the cookie depends on how far it has come.
LEMMA TurnStep ==
    TypeOK /\ CallsKeepTheirKind /\ TakingTurns /\ [Next]_vars => TakingTurns'
<1> SUFFICES ASSUME TypeOK, CallsKeepTheirKind, TakingTurns, [Next]_vars, calm'
             PROVE  /\ Busy' = {} => CookieHolds'
                    /\ \A c \in Busy' : Busy' = {c} /\ Stage(c)'
    BY DEF TakingTurns
<1> DEFINE Goal == /\ Busy' = {} => CookieHolds'
                   /\ \A c \in Busy' : Busy' = {c} /\ Stage(c)'
<1> USE SessionConstants DEF server, browser
<1>0. call \in [Calls -> [op : {"none", "session", "login", "logout", "bootstrap", "refresh"},
             at : {"idle", "sent", "found", "counted", "admitted", "ok", "no", "error", "lost"},
             with : Rows \cup {None}, row : Rows \cup {None}]]
    BY DEF TypeOK
<1>k. \A c \in Calls : c \in Busy <=> call[c].at # "idle"
    BY DEF Busy, CallsKeepTheirKind, Idle, Call
\* A call is sent while none is under way.
<1>a. ASSUME NEW c \in Calls, NEW op \in {"session", "login", "logout", "bootstrap", "refresh"},
             Send(c, op), UNCHANGED <<state, expired, cookie>>
      PROVE  Goal
  <2>1. calm /\ Busy = {}
      BY <1>a DEF Send
  <2>2. CookieHolds
      BY <2>1 DEF TakingTurns
  <2>3. \A d \in Calls : call'[d] = IF d = c THEN Call(op, "sent", cookie, None) ELSE Idle
      BY <2>1, <1>a, <1>0 DEF Send, Busy
  <2>4. Busy' = {c}
      BY <2>3 DEF Busy, Idle, Call
  <2>5. call'[c].at = "sent" /\ call'[c].with = cookie
      BY <2>3 DEF Call
  <2>6. Stage(c)'
      BY <2>2, <2>5, <1>a DEF Stage, CookieHolds, Valid
  <2> QED BY <2>4, <2>6
\* A call goes on, and nothing else happens to the sessions or the cookie.
<1>b. ASSUME NEW c \in Calls, NEW at \in {"found", "counted", "no"}, To(c, at),
             call[c].at \in {"sent", "found", "counted"}, calm,
             UNCHANGED <<state, expired, cookie>>
      PROVE  Goal
  <2>1. Busy = {c} /\ Stage(c)
      BY <1>b, <1>k DEF TakingTurns
  <2>2. \A d \in Calls : call'[d] = IF d = c THEN Call(call[c].op, at, call[c].with, call[c].row) ELSE call[d]
      BY <1>b, <1>0 DEF To
  <2>3. Busy' = {c}
      BY <2>1, <2>2, <1>b DEF Busy, Idle, Call
  <2>4. call'[c].at = at /\ call'[c].with = call[c].with
      BY <2>2 DEF Call
  <2>5. Stage(c)'
      BY <2>1, <2>4, <1>b DEF Stage, CookieHolds, Valid
  <2> QED BY <2>3, <2>5
\* A call is admitted.
<1>c. ASSUME NEW c \in Calls, To(c, "admitted"), call[c].at # "idle", calm PROVE Goal
  <2>1. Busy = {c}
      BY <1>c, <1>k DEF TakingTurns
  <2>2. \A d \in Calls : call'[d] = IF d = c THEN Call(call[c].op, "admitted", call[c].with, call[c].row) ELSE call[d]
      BY <1>c, <1>0 DEF To
  <2>3. Busy' = {c}
      BY <2>1, <2>2 DEF Busy, Idle, Call
  <2>4. call'[c].at = "admitted"
      BY <2>2 DEF Call
  <2> QED BY <2>3, <2>4 DEF Stage
\* A call is heard, and nothing is under way any more.
<1>d. ASSUME NEW c \in Calls, call[c].at \in {"ok", "no", "error", "lost"}, SetCookie(c), calm,
             call' = [call EXCEPT ![c] = Idle], UNCHANGED <<state, expired>>
      PROVE  Goal
  <2>1. Busy = {c} /\ Stage(c)
      BY <1>d, <1>k DEF TakingTurns
  <2>2. Busy' = {}
      BY <2>1, <1>d, <1>0 DEF Busy, Idle, Call
  <2>3. CASE Given(c)
    <3>1. call[c].op # "logout" /\ call[c].row # None /\ state[call[c].row] = "live"
        BY <2>1, <2>3 DEF Given, Stage, CallsKeepTheirKind
    <3>2. cookie' = Kept(call[c].row)
        BY <1>d, <2>3 DEF SetCookie
    <3>3. CookieHolds'
        BY <3>1, <3>2, <1>d DEF CookieHolds, Kept, Valid
    <3> QED BY <2>2, <3>3
  <2>4. CASE ~Given(c) /\ Cleared(c)
    <3>1. cookie' = None
        BY <1>d, <2>4 DEF SetCookie
    <3> QED BY <2>2, <3>1 DEF CookieHolds
  <2>5. CASE ~Given(c) /\ ~Cleared(c)
    <3>1. cookie' = cookie
        BY <1>d, <2>5 DEF SetCookie
    <3>2. call[c].at = "no"
        BY <2>1, <2>5, <1>d DEF Stage, Given, Cleared, Is
    <3>3. CookieHolds
        BY <2>1, <3>2 DEF Stage
    <3>4. CookieHolds'
        BY <3>1, <3>3, <1>d DEF CookieHolds, Valid
    <3> QED BY <2>2, <3>4
  <2> QED BY <2>3, <2>4, <2>5
\* Nothing that matters here changes.
<1>e. ASSUME UNCHANGED <<call, state, expired, cookie, calm>> PROVE Goal
  <2>1. Busy' = Busy /\ CookieHolds' = CookieHolds /\ \A c \in Calls : Stage(c)' = Stage(c)
      BY <1>e DEF Busy, CookieHolds, Stage, Valid, Idle, Call
  <2>2. \A c \in Busy : c \in Calls
      BY DEF Busy
  <2> QED BY <1>e, <2>1, <2>2 DEF TakingTurns
<1>1. ASSUME NEW t \in Tabs, Load(t) PROVE Goal
    BY <1>1, <1>a, TwoCalls DEF Load
<1>2. ASSUME NEW t \in Tabs, AskStatus(t) \/ AgeToken(t) PROVE Goal
    BY <1>2, <1>e DEF AskStatus, AgeToken
<1>3. ASSUME NEW t \in Tabs, LogIn(t) \/ SetUp(t) \/ LogOut(t) PROVE Goal
    BY <1>3, <1>a, TwoCalls DEF LogIn, SetUp, LogOut, Submit
<1>5. ASSUME NEW t \in Tabs, HearScreen(t) PROVE Goal
    BY <1>5, <1>d, TwoCalls DEF HearScreen
<1>6. ASSUME NEW t \in Tabs, HearRefresh(t) PROVE Goal
    BY <1>6, <1>d, TwoCalls DEF HearRefresh
<1>7. ASSUME NEW t \in Tabs, NEW r \in Requests, Ask(t, r) \/ Answer(t, r) PROVE Goal
    BY <1>7, <1>e DEF Ask, Answer
<1>8. ASSUME NEW t \in Tabs, NEW r \in Requests, Challenge(t, r) PROVE Goal
    BY <1>8, <1>a, <1>e, TwoCalls DEF Challenge
<1>10. ASSUME NEW c \in Calls, Find(c) \/ CountUsers(c) PROVE Goal
  <2>1. call[c].at = "sent" /\ UNCHANGED <<state, expired, cookie, calm>>
        /\ \E at \in {"found", "counted", "no"} : To(c, at)
      BY <1>10 DEF Find, CountUsers, Is
  <2> QED BY <2>1, <1>b
<1>11. ASSUME NEW c \in Calls, Claim(c) PROVE Goal
  <2>1. CASE Valid(call[c].with)
      BY <1>11, <2>1, <1>c DEF Claim, Is
  <2>2. CASE ~Valid(call[c].with)
      BY <1>11, <2>2, <1>b DEF Claim, Is
  <2> QED BY <2>1, <2>2
<1>12. ASSUME NEW c \in Calls, CheckPassword(c) \/ Initialise(c) PROVE Goal
  <2>1. call[c].at \in {"sent", "counted"} /\ UNCHANGED <<state, expired, cookie, calm>>
        /\ (To(c, "no") \/ To(c, "admitted"))
      BY <1>12 DEF CheckPassword, Initialise, Is
  <2> QED BY <2>1, <1>b, <1>c
<1>13. ASSUME NEW c \in Calls, Create(c) PROVE Goal
  <2>1. PICK n \in Unused :
           /\ state' = [state EXCEPT ![n] = "live"]
           /\ call' = [call EXCEPT ![c] = Call(@.op, "ok", @.with, n)]
      BY <1>13 DEF Create
  <2>2. call[c].at = "admitted" /\ calm /\ n \in Rows
      BY <1>13, <2>1 DEF Create, Unused
  <2>3. Busy = {c}
      BY <2>2, <1>k DEF TakingTurns
  <2>4. \A d \in Calls : call'[d] = IF d = c THEN Call(call[c].op, "ok", call[c].with, n) ELSE call[d]
      BY <2>1, <1>0
  <2>5. Busy' = {c}
      BY <2>3, <2>4 DEF Busy, Idle, Call
  <2>6. call'[c].at = "ok" /\ call'[c].row = n /\ state'[n] = "live" /\ n # None
      BY <2>1, <2>2, <2>4 DEF Call, TypeOK
  <2>7. Stage(c)'
      BY <2>6 DEF Stage
  <2> QED BY <2>5, <2>7
<1>14. ASSUME NEW c \in Calls, Revoke(c) PROVE Goal
  <2>1. call[c].at = "sent" /\ call[c].op = "logout" /\ calm /\ To(c, "ok")
      BY <1>14 DEF Revoke, Is
  <2>2. Busy = {c}
      BY <2>1, <1>k DEF TakingTurns
  <2>3. \A d \in Calls : call'[d] = IF d = c THEN Call("logout", "ok", call[c].with, call[c].row) ELSE call[d]
      BY <2>1, <1>0 DEF To
  <2>4. Busy' = {c}
      BY <2>2, <2>3 DEF Busy, Idle, Call
  <2>5. call'[c].at = "ok" /\ call'[c].op = "logout"
      BY <2>3 DEF Call
  <2> QED BY <2>4, <2>5 DEF Stage
<1>15. ASSUME NEW c \in Calls, Refuse(c) \/ Lose(c) PROVE Goal
    BY <1>15 DEF Refuse, Lose
<1>16. ASSUME NEW n \in Rows, Expire(n) PROVE Goal
  <2>1. UNCHANGED <<state, call, calm>> /\ expired' = expired \cup {n}
        /\ cookie' = IF cookie = n THEN None ELSE cookie
      BY <1>16 DEF Expire
  <2>2. Busy' = Busy
      BY <2>1 DEF Busy, Idle, Call
  <2>3. CookieHolds => CookieHolds'
      BY <2>1 DEF CookieHolds, Valid
  <2>4. \A c \in Calls : Stage(c) => Stage(c)'
      BY <2>1, <2>3 DEF Stage
  <2>5. \A c \in Busy : c \in Calls
      BY DEF Busy
  <2> QED BY <2>1, <2>2, <2>3, <2>4, <2>5 DEF TakingTurns
<1>17. CASE UNCHANGED vars
    BY <1>17, <1>e DEF vars
<1> QED BY <1>1, <1>2, <1>3, <1>5, <1>6, <1>7, <1>8, <1>10, <1>11, <1>12, <1>13, <1>14, <1>15,
           <1>16, <1>17 DEF Next, Serve, Fetch

-----------------------------------------------------------------------------
\* Whatever the tabs send, and whatever is lost or refused, every variable keeps its type.
THEOREM Typing == Spec => []TypeOK
BY InitHolds, TypeStep, PTL DEF Spec

\* However many tabs and requests restore one session at once, it is replaced by at most
\* one other (restore, createSession).
THEOREM Exchange == Spec => []ExchangedOnce
BY InitHolds, Typing, ExchangeStep, PTL DEF Spec

\* No session comes from one that logging out has revoked, also when it had been found valid
\* before (restore, logout).
THEOREM RevokedStays == Spec => []NoneFromEnded
BY InitHolds, Typing, ExchangeStep, PTL DEF Spec

\* Calls keep their kind while they are under way.
LEMMA Kinds == Spec => []CallsKeepTheirKind
BY InitHolds, Typing, KindStep, PTL DEF Spec

\* No tab loads, and no request waits, without a call that will end it (AuthProvider,
\* refreshAccessToken).
THEOREM WaitsForSomething == Spec => []SomethingToWaitFor
BY InitHolds, Typing, Kinds, WaitingStep, PTL DEF Spec

\* While calls take turns and are answered, the rotation never leaves the browser with a
\* cookie that cannot be restored (setRefreshCookie, clearRefreshCookie).
THEOREM CookieStaysLive == Spec => []CookieIsLive
<1>1. TakingTurns => CookieIsLive
    BY DEF TakingTurns, CookieIsLive, CookieHolds
<1> QED BY <1>1, InitHolds, Typing, Kinds, TurnStep, PTL DEF Spec
=============================================================================
