------------------------------ MODULE Sessions ------------------------------
(***************************************************************************)
(* Refresh sessions of one browser (auth.service.ts, auth.controller.ts)   *)
(* and the console's half of them (lib/api.ts, auth-provider.tsx).  All    *)
(* tabs share the cookie, which a request takes along when it is sent and  *)
(* a response sets when it arrives; each tab has an access token of its    *)
(* own.  A refresh session is exchanged for a new one on every use: claimed*)
(* in one transaction, replaced after it.                                  *)
(***************************************************************************)
EXTENDS Naturals, FiniteSets

CONSTANTS Tabs,
          Requests,     \* requests of one tab's pages
          MaxRows,      \* bounds the refresh sessions made
          MaxFaults,    \* bounds lost calls and refused ones (429, 503)
          None

Rows == 1..MaxRows

ASSUME SessionConstants ==
    /\ MaxFaults \in Nat /\ MaxRows \in Nat
    /\ None \notin Rows

VARIABLES
    state,     \* RefreshSession: none, live, exchanged, ended (by logging out)
    parent,    \* not in the code: the session it was exchanged for
    expired,   \* sessions past expiresAt
    users,     \* User: how often the platform was initialised
    cookie,    \* refresh_token
    access,    \* each tab's access token: None, fresh or stale
    screen,    \* what each tab shows
    call,      \* calls under /auth of each tab: the screen's, and refreshPromise
    page,      \* the other requests
    faults,
    calm       \* not in the code: calls never overlapped, none was lost or refused

server == <<state, parent, expired, users>>
browser == <<cookie, access, screen, page>>
vars == <<server, browser, call, faults, calm>>

Calls == Tabs \X {"screen", "refresh"}
Call(op, at, with, row) == [op |-> op, at |-> at, with |-> with, row |-> row]
Idle == Call("none", "idle", None, None)

Init ==
    /\ state = [n \in Rows |-> "none"] /\ parent = [n \in Rows |-> None]
    /\ expired = {} /\ users \in {0, 1}
    /\ cookie = None /\ access = [t \in Tabs |-> None]
    /\ screen = [t \in Tabs |-> "closed"]
    /\ call = [c \in Calls |-> Idle]
    /\ page = [p \in Tabs \X Requests |-> "idle"]
    /\ faults = 0 /\ calm = TRUE

Busy == {c \in Calls : call[c] # Idle}
Unused == {n \in Rows : state[n] = "none"}
Expecting == {p \in Tabs \X Requests : page[p] = "expired"}
\* Every call there is, or may be because of a request, finds an unused session.
Room == Cardinality(Unused) > Cardinality(Busy) + Cardinality(Expecting)

Valid(n) == n # None /\ state[n] = "live" /\ n \notin expired

-----------------------------------------------------------------------------
(* The browser sends.                                                      *)

Send(c, op) ==
    /\ call' = [call EXCEPT ![c] = Call(op, "sent", cookie, None)]
    /\ calm' = (calm /\ Busy = {})

\* A tab is opened or loaded again: AuthProvider asks for the session.
Load(t) ==
    /\ Room /\ Busy \cap ({t} \X {"screen", "refresh"}) = {}
    /\ screen[t] # "loading" /\ \A r \in Requests : page[<<t, r>>] = "idle"
    /\ screen' = [screen EXCEPT ![t] = "loading"]
    /\ Send(<<t, "screen">>, "session")
    /\ UNCHANGED <<server, cookie, access, page, faults>>

Uninitialised == users = 0

\* The login page asks for its form.
AskStatus(t) ==
    /\ screen[t] = "out"
    /\ screen' = [screen EXCEPT ![t] = IF Uninitialised THEN "bootstrap" ELSE "login"]
    /\ UNCHANGED <<server, cookie, access, call, page, faults, calm>>

Submit(t, here, op) ==
    /\ screen[t] = here /\ call[<<t, "screen">>] = Idle
    /\ Send(<<t, "screen">>, op)
    /\ UNCHANGED <<server, browser, faults>>

LogIn(t) == Room /\ Submit(t, "login", "login")
SetUp(t) == Room /\ Submit(t, "bootstrap", "bootstrap")
LogOut(t) == Submit(t, "in", "logout")

Authentic(t) == access[t] = "fresh"

Ask(t, r) ==
    /\ screen[t] = "in" /\ Room /\ page[<<t, r>>] = "idle"
    /\ page' = [page EXCEPT ![<<t, r>>] = IF Authentic(t) THEN "final" ELSE "expired"]
    /\ UNCHANGED <<server, cookie, access, screen, call, faults, calm>>

\* Answered 401, a request waits for the one refresh of its tab.
Challenge(t, r) ==
    /\ page[<<t, r>>] = "expired"
    /\ page' = [page EXCEPT ![<<t, r>>] = "waiting"]
    /\ IF call[<<t, "refresh">>] = Idle
       THEN Send(<<t, "refresh">>, "refresh")
       ELSE UNCHANGED <<call, calm>>
    /\ UNCHANGED <<server, cookie, access, screen, faults>>

\* An answer that is not 401, or is the second one: the request is over.
Answer(t, r) ==
    /\ page[<<t, r>>] = "final"
    /\ page' = [page EXCEPT ![<<t, r>>] = "idle"]
    /\ UNCHANGED <<server, cookie, access, screen, call, faults, calm>>

-----------------------------------------------------------------------------
(* The server.                                                             *)

To(c, at) == call' = [call EXCEPT ![c] = Call(@.op, at, @.with, @.row)]
Is(c, ops, at) == call[c].op \in ops /\ call[c].at = at

\* Every route but logout asks RequestRateLimitService.
Refuse(c) ==
    /\ Is(c, {"session", "refresh", "login", "bootstrap"}, "sent") /\ faults < MaxFaults
    /\ To(c, "error") /\ faults' = faults + 1 /\ calm' = FALSE
    /\ UNCHANGED <<server, browser>>

\* Neither the request nor its answer need arrive, and the server may stop in between.
Lose(c) ==
    /\ call[c].at \notin {"idle", "no", "error", "lost"} /\ faults < MaxFaults
    /\ To(c, "lost") /\ faults' = faults + 1 /\ calm' = FALSE
    /\ UNCHANGED <<server, browser>>

\* restore: the transaction reads the session, then claims it.
Find(c) ==
    /\ Is(c, {"session", "refresh"}, "sent")
    /\ To(c, IF Valid(call[c].with) THEN "found" ELSE "no")
    /\ UNCHANGED <<server, browser, faults, calm>>

\* Mutants of Claim: what was found is claimed whatever happened since; or only
\* its time is looked at again.
ClaimFound(c) ==
    /\ Is(c, {"session", "refresh"}, "found")
    /\ state' = [state EXCEPT ![call[c].with] = "exchanged"] /\ To(c, "admitted")
    /\ UNCHANGED <<parent, expired, users, browser, faults, calm>>

ClaimUnlessExchanged(c) ==
    /\ Is(c, {"session", "refresh"}, "found")
    /\ IF state[call[c].with] \in {"live", "ended"} /\ call[c].with \notin expired
       THEN /\ state' = [state EXCEPT ![call[c].with] = IF @ = "live" THEN "exchanged" ELSE @]
            /\ To(c, "admitted")
       ELSE To(c, "no") /\ UNCHANGED state
    /\ UNCHANGED <<parent, expired, users, browser, faults, calm>>

Claim(c) ==
    /\ Is(c, {"session", "refresh"}, "found")
    /\ IF Valid(call[c].with)
       THEN state' = [state EXCEPT ![call[c].with] = "exchanged"] /\ To(c, "admitted")
       ELSE To(c, "no") /\ UNCHANGED state
    /\ UNCHANGED <<parent, expired, users, browser, faults, calm>>

CheckPassword(c) ==
    /\ Is(c, {"login"}, "sent")
    /\ To(c, "no") \/ (users > 0 /\ To(c, "admitted"))
    /\ UNCHANGED <<server, browser, faults, calm>>

\* bootstrap: the setup token, and no user yet.
CountUsers(c) ==
    /\ Is(c, {"bootstrap"}, "sent")
    /\ To(c, "no") \/ (Uninitialised /\ To(c, "counted"))
    /\ UNCHANGED <<server, browser, faults, calm>>

\* Its SERIALIZABLE transaction counts again, and may fail.
Initialise(c) ==
    /\ Is(c, {"bootstrap"}, "counted")
    /\ \/ To(c, "no") /\ UNCHANGED users
       \/ Uninitialised /\ users' = users + 1 /\ To(c, "admitted")
    /\ UNCHANGED <<state, parent, expired, browser, faults, calm>>

\* createSession: the row, and its token in the answer.
Create(c) ==
    /\ call[c].at = "admitted"
    /\ \E n \in Unused :
         /\ \A m \in Unused : n <= m
         /\ state' = [state EXCEPT ![n] = "live"]
         /\ parent' = [parent EXCEPT ![n] =
                IF call[c].op \in {"session", "refresh"} THEN call[c].with ELSE None]
         /\ call' = [call EXCEPT ![c] = Call(@.op, "ok", @.with, n)]
    /\ UNCHANGED <<expired, users, browser, faults, calm>>

Revoke(c) ==
    /\ Is(c, {"logout"}, "sent")
    /\ state' = [n \in Rows |-> IF n = call[c].with /\ state[n] = "live" THEN "ended" ELSE state[n]]
    /\ To(c, "ok")
    /\ UNCHANGED <<parent, expired, users, browser, faults, calm>>

-----------------------------------------------------------------------------
(* The browser hears.                                                      *)

Given(c) == call[c].at = "ok" /\ call[c].row # None
Cleared(c) == Is(c, {"session"}, "no") \/ Is(c, {"logout"}, "ok")
\* Logging out ends what the tab shows even when the call has failed.
SignsOut(c) == Is(c, {"session"}, "no") \/ call[c].op = "logout"

\* A browser keeps no cookie that has expired.
Kept(n) == IF n \in expired THEN None ELSE n

\* Mutant of SetCookie: restoring a session does not set the new cookie.
SetCookieUnlessRestored(c) ==
    cookie' = IF Given(c) /\ call[c].op # "session" THEN Kept(call[c].row)
              ELSE IF Cleared(c) THEN None ELSE cookie

SetCookie(c) ==
    cookie' = IF Given(c) THEN Kept(call[c].row) ELSE IF Cleared(c) THEN None ELSE cookie

\* Mutant of Shown: loading ends only when the answer is one.
ShownIfAnswered(t, c) ==
    IF Given(c) THEN "in"
    ELSE IF SignsOut(c) THEN "out"
    ELSE screen[t]

\* What the tab shows next; AuthGuard takes it to the login page.
Shown(t, c) ==
    IF Given(c) THEN "in"
    ELSE IF SignsOut(c) THEN "out"
    ELSE IF call[c].op = "session" THEN "error"
    ELSE screen[t]

\* AuthProvider: the session is applied, or dropped.
HearScreen(t) ==
    LET c == <<t, "screen">>
    IN  /\ call[c].at \in {"ok", "no", "error", "lost"}
        /\ SetCookie(c)
        /\ access' = [access EXCEPT ![t] = IF Given(c) THEN "fresh" ELSE IF SignsOut(c) THEN None ELSE @]
        /\ screen' = [screen EXCEPT ![t] = Shown(t, c)]
        /\ call' = [call EXCEPT ![c] = Idle]
        /\ UNCHANGED <<server, page, faults, calm>>

\* The requests that waited are sent again, with a token, or fail.
HearRefresh(t) ==
    LET c == <<t, "refresh">>
    IN  /\ call[c].at \in {"ok", "no", "error", "lost"}
        /\ SetCookie(c)
        /\ access' = [access EXCEPT ![t] = IF call[c].at = "ok" THEN "fresh"
                                           ELSE IF call[c].at = "lost" THEN @ ELSE None]
        /\ page' = [p \in DOMAIN page |->
               IF p[1] # t \/ page[p] # "waiting" THEN page[p]
               ELSE IF call[c].at = "ok" THEN "final" ELSE "idle"]
        /\ call' = [call EXCEPT ![c] = Idle]
        /\ UNCHANGED <<server, screen, faults, calm>>

-----------------------------------------------------------------------------
(* Time.  The cookie expires with its session.                             *)

Expire(n) ==
    /\ state[n] = "live" /\ n \notin expired
    /\ expired' = expired \cup {n}
    /\ cookie' = IF cookie = n THEN None ELSE cookie
    /\ UNCHANGED <<state, parent, users, access, screen, call, page, faults, calm>>

AgeToken(t) ==
    /\ access[t] = "fresh"
    /\ access' = [access EXCEPT ![t] = "stale"]
    /\ UNCHANGED <<server, cookie, screen, call, page, faults, calm>>

-----------------------------------------------------------------------------

Serve(c) == Find(c) \/ Claim(c) \/ CheckPassword(c) \/ CountUsers(c) \/ Initialise(c)
            \/ Create(c) \/ Revoke(c)
Fetch(t, r) == Challenge(t, r) \/ Answer(t, r)

Next ==
    \/ \E t \in Tabs : Load(t) \/ AskStatus(t) \/ LogIn(t) \/ SetUp(t) \/ LogOut(t)
                       \/ AgeToken(t) \/ HearScreen(t) \/ HearRefresh(t)
    \/ \E t \in Tabs, r \in Requests : Ask(t, r) \/ Fetch(t, r)
    \/ \E c \in Calls : Serve(c) \/ Refuse(c) \/ Lose(c)
    \/ \E n \in Rows : Expire(n)

Spec == Init /\ [][Next]_vars

-----------------------------------------------------------------------------
(* Properties.                                                             *)

TypeOK ==
    /\ state \in [Rows -> {"none", "live", "exchanged", "ended"}]
    /\ parent \in [Rows -> Rows \cup {None}]
    /\ expired \subseteq Rows /\ users \in Nat
    /\ cookie \in Rows \cup {None}
    /\ access \in [Tabs -> {None, "fresh", "stale"}]
    /\ screen \in [Tabs -> {"closed", "loading", "out", "login", "bootstrap", "in", "error"}]
    /\ call \in [Calls ->
            [op : {"none", "session", "login", "logout", "bootstrap", "refresh"},
             at : {"idle", "sent", "found", "counted", "admitted", "ok", "no", "error", "lost"},
             with : Rows \cup {None}, row : Rows \cup {None}]]
    /\ page \in [Tabs \X Requests -> {"idle", "expired", "waiting", "final"}]
    /\ faults \in Nat /\ calm \in BOOLEAN

\* A session is exchanged for at most one other, however many tabs and requests
\* use its cookie at once: nobody keeps two sessions out of one login.
ExchangedOnce ==
    \A m, n \in Rows : m # n /\ parent[m] # None => parent[m] # parent[n]

\* Once logging out has revoked a session, none comes from it, not even from a
\* restore that had found it valid just before.
NoneFromEnded ==
    \A n \in Rows : parent[n] # None => state[parent[n]] = "exchanged"

\* As long as calls do not overlap and all are answered, the cookie names a session
\* that can be restored: the browser is never signed out by the rotation.
CookieIsLive == calm /\ Busy = {} /\ cookie # None => Valid(cookie)

\* The platform is initialised once, by whichever of the forms comes first.
InitialisedOnce == users <= 1

\* No tab stays on its loading screen, and no request waits for ever: the call
\* whose end they wait for is under way, however earlier ones ended.
SomethingToWaitFor ==
    /\ \A t \in Tabs : screen[t] = "loading" => call[<<t, "screen">>].op = "session"
    /\ \A t \in Tabs, r \in Requests :
           page[<<t, r>>] = "waiting" => call[<<t, "refresh">>].op = "refresh"

\* docs/api.md:14: POST /auth/logout revokes the current refresh session.  A refresh
\* that is under way outlives it: its answer leaves the browser a session that lives.
LoggedOutMeansOut ==
    [][\A t \in Tabs : screen[t] = "in" /\ screen'[t] = "out" /\ Is(<<t, "screen">>, {"logout"}, "ok")
         => \A n \in Rows : parent[n] = call[<<t, "screen">>].with /\ parent[n] # None
                              => state[n] # "live"]_vars
=============================================================================
