---------------------------- MODULE RunRequests ----------------------------
(***************************************************************************)
(* Requests to run an agent, from the guards in front of every handler     *)
(* (JwtAuthGuard, TenantGuard, PermissionsGuard) through prepare() to the  *)
(* row of the run, against administrators who change roles, keys, agents   *)
(* and conversations meanwhile.  Each await is a step; what follows the    *)
(* start of a run is in RunLifecycle.                                      *)
(***************************************************************************)
EXTENDS Naturals, FiniteSets

CONSTANTS Users, Orgs, Workspaces, Agents, Keys,
          Reqs,          \* requests; each may create the conversation of its name
          OrgOf,          \* the organization of each workspace
          Place,         \* the workspace of each agent
          Asks,          \* headers and parameters that requests carry
          Role0, Agent0, \* roles and agents to begin with
          MaxChanges,    \* bounds what administrators do
          None

ASSUME RunRequestsConstants ==
    /\ OrgOf \in [Workspaces -> Orgs] /\ Place \in [Agents -> Workspaces]
    /\ Asks \subseteq [org : Orgs \cup {None}, ws : Workspaces \cup {None},
                       agent : Agents, debug : BOOLEAN]
    /\ Role0 \in [Users -> [Orgs -> SUBSET {"agent:run", "agent:debug"}]]
    /\ Agent0 \in [Agents -> [status : {"DRAFT", "PUBLISHED", "ARCHIVED"}, published : BOOLEAN,
                              removed : BOOLEAN]]
    /\ None \notin Users \cup Orgs \cup Workspaces \cup Agents \cup Keys \cup Reqs
    /\ Users \cap Keys = {}
    /\ MaxChanges \in Nat

VARIABLES
    role,      \* the permissions of each user in each organization
    key,       \* ApiKey
    agent,     \* Agent: status, whether a version is published, whether it is removed
    conv,      \* Conversation created by each request
    at,        \* which await of the request comes next
    ask,       \* what the request carries
    ctx,       \* TenantContext, and the conversation once found
    leased,    \* requests that hold a lease of their workspace
    run,       \* AgentRun started by each request
    seen,      \* history: which rights a request had at some instant since it arrived
    changes

requestsVars == <<role, key, agent, conv, at, ask, ctx, leased, run, seen, changes>>
world == <<role, key, agent, changes>>

\* What a role grants, as far as this handler asks for it; {} also for who is no member.
Roles == {{}, {"agent:run"}, {"agent:run", "agent:debug"}}
NoKey == [ws |-> None, agent |-> None, scopes |-> {}, by |-> None, live |-> FALSE]
NoConversation == [ws |-> None, agent |-> None, user |-> None, key |-> None, live |-> FALSE]
NoAsk == [key |-> None, user |-> None, org |-> None, ws |-> None, agent |-> None,
          debug |-> FALSE, conv |-> None]
NoContext == [ws |-> None, permissions |-> {}, conv |-> None]
NoRun == [ws |-> None, agent |-> None, draft |-> FALSE, conv |-> None, key |-> None, user |-> None]

RequestsInit ==
    /\ role = Role0
    /\ key = [k \in Keys |-> NoKey]
    /\ agent = Agent0
    /\ conv = [r \in Reqs |-> NoConversation]
    /\ at = [r \in Reqs |-> "idle"]
    /\ ask = [r \in Reqs |-> NoAsk] /\ ctx = [r \in Reqs |-> NoContext]
    /\ leased = {} /\ run = [r \in Reqs |-> NoRun]
    /\ seen = [r \in Reqs |-> {}] /\ changes = 0

Keyed(r) == ask[r].key # None
Caller(r) == IF Keyed(r) THEN key[ask[r].key].by ELSE ask[r].user
Org(r) == IF Keyed(r) /\ ask[r].org = None THEN OrgOf[key[ask[r].key].ws] ELSE ask[r].org
Ws(r) == IF Keyed(r) /\ ask[r].ws = None THEN key[ask[r].key].ws ELSE ask[r].ws
GoOn(r, next) == at' = [at EXCEPT ![r] = next]

\* Mutant of Refuse: the lease of prepare() is kept.
RefuseUnreleased(r) ==
    /\ GoOn(r, "done")
    /\ ask' = [ask EXCEPT ![r] = NoAsk] /\ ctx' = [ctx EXCEPT ![r] = NoContext]
    /\ UNCHANGED leased

\* An error ends the request; its lease, if it has one by now, is released.
Refuse(r) ==
    /\ GoOn(r, "done")
    /\ ask' = [ask EXCEPT ![r] = NoAsk] /\ ctx' = [ctx EXCEPT ![r] = NoContext]
    /\ leased' = leased \ {r}

-----------------------------------------------------------------------------
(* The guards.                                                             *)

\* With the token of a session, which says who the user is, or a key that has been given out.
Arrive(r) ==
    /\ at[r] = "idle"
    /\ \E q \in Asks, c \in (Reqs \ {r}) \cup {None} :
         \E caller \in Users \cup {k \in Keys : key[k] # NoKey} :
            /\ ask' = [ask EXCEPT ![r] =
                         [key |-> IF caller \in Keys THEN caller ELSE None,
                          user |-> IF caller \in Users THEN caller ELSE None,
                          org |-> q.org, ws |-> q.ws, agent |-> q.agent, debug |-> q.debug,
                          conv |-> c]]
            /\ GoOn(r, IF caller \in Keys THEN "authenticate" ELSE "tenant")
    /\ UNCHANGED <<world, conv, ctx, leased, run>>

\* Live: not revoked, not expired, its creator active.
Authenticate(r) ==
    /\ at[r] = "authenticate"
    /\ IF key[ask[r].key].live THEN GoOn(r, "tenant") /\ UNCHANGED <<ask, ctx, leased>>
                              ELSE Refuse(r)
    /\ UNCHANGED <<world, conv, run>>

\* Mutant of KeepsToItsKey: only the organization is compared.
KeepsToTheOrganization(r) ==
    Keyed(r) => ask[r].org \in {None, OrgOf[key[ask[r].key].ws]}

\* A key selects no organization or workspace but its own.
KeepsToItsKey(r) ==
    Keyed(r) => /\ ask[r].org \in {None, OrgOf[key[ask[r].key].ws]}
                /\ ask[r].ws \in {None, key[ask[r].key].ws}

\* Mutant of Granted: a key is good for its scopes, whatever its creator may do by now.
ScopesAlone(r) ==
    IF Keyed(r) THEN key[ask[r].key].scopes ELSE role[Caller(r)][Org(r)]

\* The role's permissions as they are now, cut down to the scopes of a key.
Granted(r) ==
    IF Keyed(r) THEN role[Caller(r)][Org(r)] \cap key[ask[r].key].scopes
    ELSE role[Caller(r)][Org(r)]

Selects(r) ==
    /\ KeepsToItsKey(r)
    /\ Org(r) # None /\ Ws(r) # None /\ OrgOf[Ws(r)] = Org(r)

\* The first checks of prepare(), before its first await.
MayRun(r) ==
    /\ Keyed(r) => key[ask[r].key].agent \in {None, ask[r].agent}
    /\ ask[r].debug => ~Keyed(r) /\ "agent:debug" \in Granted(r)

Tenant(r) ==
    /\ at[r] = "tenant"
    /\ IF Selects(r) /\ "agent:run" \in Granted(r) /\ MayRun(r)
       THEN /\ ctx' = [ctx EXCEPT ![r] = [ws |-> Ws(r), permissions |-> Granted(r), conv |-> None]]
            /\ GoOn(r, "acquire") /\ UNCHANGED <<ask, leased>>
       ELSE Refuse(r)
    /\ UNCHANGED <<world, conv, run>>

-----------------------------------------------------------------------------
(* prepare().                                                              *)

Draft(r) == ask[r].debug /\ ~Keyed(r)
Runnable(a, draft) ==
    /\ ~agent[a].removed /\ agent[a].status # "ARCHIVED"
    /\ draft \/ (agent[a].status = "PUBLISHED" /\ agent[a].published)

\* The budget may be spent, or the runtime control at a limit; else it gives a lease.
Acquire(r) ==
    /\ at[r] = "acquire"
    /\ \/ Refuse(r)
       \/ leased' = leased \cup {r} /\ GoOn(r, "executable") /\ UNCHANGED <<ask, ctx>>
    /\ UNCHANGED <<world, conv, run>>

\* The agent as it is now; then its connection, the prices or the capabilities of its model
\* may not suit the version.
Executable(r) ==
    /\ at[r] = "executable"
    /\ \/ /\ Place[ask[r].agent] = ctx[r].ws /\ Runnable(ask[r].agent, Draft(r))
          /\ GoOn(r, "converse") /\ UNCHANGED <<ask, ctx, leased>>
       \/ Refuse(r)
    /\ UNCHANGED <<world, conv, run>>

\* Mutant of Found: a conversation is looked up by its agent and workspace.
FoundByAgent(r, c) ==
    conv[c].live /\ conv[c].ws = ctx[r].ws /\ conv[c].agent = ask[r].agent

Found(r, c) ==
    /\ conv[c].live /\ conv[c].ws = ctx[r].ws /\ conv[c].agent = ask[r].agent
    /\ conv[c].user = Caller(r)

\* The conversation of a key belongs to no user; a key continues none.
Converse(r) ==
    /\ at[r] = "converse"
    /\ IF ask[r].conv = None
       THEN /\ conv' = [conv EXCEPT ![r] = [ws |-> ctx[r].ws, agent |-> ask[r].agent,
                          user |-> ask[r].user, key |-> ask[r].key, live |-> TRUE]]
            /\ ctx' = [ctx EXCEPT ![r].conv = r]
            /\ GoOn(r, "start") /\ UNCHANGED <<ask, leased>>
       ELSE /\ IF ~Keyed(r) /\ Found(r, ask[r].conv)
               THEN /\ ctx' = [ctx EXCEPT ![r].conv = ask[r].conv]
                    /\ GoOn(r, "start") /\ UNCHANGED <<ask, leased>>
               ELSE Refuse(r)
            /\ UNCHANGED conv
    /\ UNCHANGED <<world, run>>

\* One transaction: the message, the conversation, which may be gone, and the run.
Start(r) ==
    /\ at[r] = "start"
    /\ IF conv[ctx[r].conv].live
       THEN /\ run' = [run EXCEPT ![r] = [ws |-> ctx[r].ws, agent |-> ask[r].agent,
                         draft |-> Draft(r), conv |-> ctx[r].conv,
                         key |-> ask[r].key, user |-> Caller(r)]]
            /\ GoOn(r, "running") /\ UNCHANGED <<ask, ctx, leased>>
       ELSE Refuse(r) /\ UNCHANGED run
    /\ UNCHANGED <<world, conv>>

\* However the run ends, its lease is released.
End(r) ==
    /\ at[r] = "running"
    /\ Refuse(r)
    /\ UNCHANGED <<world, conv, run>>

-----------------------------------------------------------------------------
(* What others do meanwhile.                                               *)

Change == changes < MaxChanges /\ changes' = changes + 1
requests == <<at, ask, ctx, leased, run>>

\* Of what scopes() lets a key have, running and reading of several kinds, what this handler
\* asks for: running, or not.
Scopes == {{"agent:run"}, {"agent:read"}}

CreateKey(k, u, w, pin, scopes) ==
    /\ key[k] = NoKey /\ role[u][OrgOf[w]] # {} /\ scopes \in Scopes
    /\ pin # None => Place[pin] = w /\ agent[pin].published /\ ~agent[pin].removed
    /\ key' = [key EXCEPT ![k] = [ws |-> w, agent |-> pin, scopes |-> scopes, by |-> u, live |-> TRUE]]
    /\ UNCHANGED <<role, agent, conv, requests>>

\* Revoked or expired, or its creator has been deactivated.
EndKey(k) ==
    /\ key[k].live
    /\ key' = [key EXCEPT ![k].live = FALSE]
    /\ UNCHANGED <<role, agent, conv, requests>>

\* A member joins, leaves or gets another role (Members).
ChangeRole(u, o, ps) ==
    /\ role[u][o] # ps
    /\ role' = [role EXCEPT ![u][o] = ps]
    /\ UNCHANGED <<key, agent, conv, requests>>

\* The writes of update(), publish() and rollback(), which have found the agent before: it
\* may have been removed since.
UpdateStatus(a, status) ==
    /\ agent[a].status # status
    /\ status = "PUBLISHED" => agent[a].published
    /\ agent' = [agent EXCEPT ![a].status = status]
    /\ UNCHANGED <<role, key, conv, requests>>

Publish(a) ==
    /\ agent' = [agent EXCEPT ![a].published = TRUE, ![a].status = "PUBLISHED"]
    /\ agent' # agent
    /\ UNCHANGED <<role, key, conv, requests>>

Remove(a) ==
    /\ ~agent[a].removed
    /\ agent' = [agent EXCEPT ![a].removed = TRUE, ![a].status = "ARCHIVED"]
    /\ UNCHANGED <<role, key, conv, requests>>

\* Retention: the conversation is older than any request under way that created or ran in it.
Forget(c) ==
    /\ conv[c].live /\ at[c] = "done"
    /\ \A r \in Reqs : at[r] = "running" => ctx[r].conv # c
    /\ conv' = [conv EXCEPT ![c].live = FALSE]
    /\ UNCHANGED <<role, key, agent, requests>>

Administer ==
    /\ Change
    /\ \/ \E k \in Keys, u \in Users, w \in Workspaces, pin \in Agents \cup {None} :
            \E scopes \in Scopes : CreateKey(k, u, w, pin, scopes)
       \/ \E k \in Keys : EndKey(k)
       \/ \E u \in Users, w \in Workspaces, ps \in Roles : ChangeRole(u, OrgOf[w], ps)
       \/ \E a \in Agents, s \in {"DRAFT", "PUBLISHED", "ARCHIVED"} : UpdateStatus(a, s)
       \/ \E a \in Agents : Publish(a) \/ Remove(a)
       \/ \E c \in Reqs : Forget(c)

Step(r) ==
    \/ Arrive(r) \/ Authenticate(r) \/ Tenant(r) \/ Acquire(r) \/ Executable(r)
    \/ Converse(r) \/ Start(r) \/ End(r)

\* The rights a request has at this instant: its key is live; its caller's role, within the
\* scopes, allows what it asks in the organization it runs in; the agent is there to run.
Rights(r) ==
    {x \in {"credential", "role", "agent"} :
        /\ x = "credential" => ~Keyed(r) \/ key[ask[r].key].live
        /\ x = "role" =>
             /\ Ws(r) # None /\ "agent:run" \in role[Caller(r)][OrgOf[Ws(r)]]
             /\ Keyed(r) => "agent:run" \in key[ask[r].key].scopes
             /\ ask[r].debug => "agent:debug" \in role[Caller(r)][OrgOf[Ws(r)]]
        /\ x = "agent" => Place[ask[r].agent] = Ws(r) /\ Runnable(ask[r].agent, Draft(r))}

UnderWay(r) == at[r] \notin {"idle", "done"}

RequestsNext ==
    /\ \/ \E r \in Reqs : Step(r)
       \/ Administer
    /\ seen' = [r \in Reqs |-> IF UnderWay(r)' THEN seen[r] \cup Rights(r)' ELSE {}]

RequestsSpec == RequestsInit /\ [][RequestsNext]_requestsVars

-----------------------------------------------------------------------------
(* Properties.                                                             *)

Stages == {"idle", "authenticate", "tenant", "acquire", "executable", "converse", "start",
           "running", "done"}

RequestsTypeOK ==
    /\ role \in [Users -> [Orgs -> SUBSET {"agent:run", "agent:debug"}]]
    /\ key \in [Keys -> [ws : Workspaces \cup {None}, agent : Agents \cup {None},
                         scopes : Scopes \cup {{}}, by : Users \cup {None}, live : BOOLEAN]]
    /\ agent \in [Agents -> [status : {"DRAFT", "PUBLISHED", "ARCHIVED"}, published : BOOLEAN,
                             removed : BOOLEAN]]
    /\ conv \in [Reqs -> [ws : Workspaces \cup {None}, agent : Agents \cup {None},
                          user : Users \cup {None}, key : Keys \cup {None}, live : BOOLEAN]]
    /\ at \in [Reqs -> Stages]
    /\ ask \in [Reqs -> [key : Keys \cup {None}, user : Users \cup {None}, org : Orgs \cup {None},
                         ws : Workspaces \cup {None}, agent : Agents \cup {None},
                         debug : BOOLEAN, conv : Reqs \cup {None}]]
    /\ ctx \in [Reqs -> [ws : Workspaces \cup {None},
                         permissions : SUBSET {"agent:run", "agent:debug"},
                         conv : Reqs \cup {None}]]
    /\ leased \subseteq Reqs
    /\ run \in [Reqs -> [ws : Workspaces \cup {None}, agent : Agents \cup {None},
                         draft : BOOLEAN, conv : Reqs \cup {None}, key : Keys \cup {None},
                         user : Users \cup {None}]]
    /\ seen \in [Reqs -> SUBSET {"credential", "role", "agent"}]
    /\ changes \in 0..MaxChanges

\* What is known of a request after each of its awaits: that it has one caller ...
OneCaller(r) ==
    /\ at[r] \notin {"idle", "done"} =>
         ask[r].agent # None /\ (ask[r].key = None <=> ask[r].user # None)
    /\ Keyed(r) => key[ask[r].key].ws # None /\ key[ask[r].key].by # None

\* ... after the guards, that its workspace is the one it selected or the one of its key ...
WorkspaceSelected(r) ==
    at[r] \in {"acquire", "executable", "converse", "start", "running"} =>
        /\ ctx[r].ws # None /\ ctx[r].ws = Ws(r)
        /\ Keyed(r) => /\ ctx[r].ws = key[ask[r].key].ws
                       /\ key[ask[r].key].agent \in {None, ask[r].agent}
                       /\ ~ask[r].debug

\* ... after executable(), that its agent is of that workspace ...
AgentSelected(r) ==
    at[r] \in {"converse", "start", "running"} => Place[ask[r].agent] = ctx[r].ws

\* ... and then that its conversation is its caller's.
ConversationSelected(r) ==
    at[r] \in {"start", "running"} =>
        /\ ctx[r].conv # None
        /\ conv[ctx[r].conv].ws = ctx[r].ws /\ conv[ctx[r].conv].agent = ask[r].agent
        /\ conv[ctx[r].conv].user = ask[r].user /\ conv[ctx[r].conv].key = ask[r].key
        /\ Keyed(r) => ctx[r].conv = r

\* A run repeats its conversation, and that of a key stays within the key.
RunRecorded(r) ==
    /\ run[r].conv = None => run[r].key = None
    /\ run[r].conv # None =>
         /\ run[r].ws # None /\ run[r].agent # None
         /\ conv[run[r].conv].ws = run[r].ws /\ conv[run[r].conv].agent = run[r].agent
         /\ conv[run[r].conv].key = run[r].key
         /\ run[r].key = None => run[r].user = conv[run[r].conv].user
    /\ run[r].key # None =>
         /\ key[run[r].key].ws = run[r].ws /\ key[run[r].key].by = run[r].user
         /\ key[run[r].key].agent \in {None, run[r].agent}
         /\ Place[run[r].agent] = run[r].ws /\ ~run[r].draft
         /\ run[r].conv = r /\ conv[r].user = None

\* A conversation is created by one await, and belongs to a user or to a key.
ConversationOnce(r) ==
    /\ at[r] \notin {"start", "running", "done"} => conv[r].ws = None
    /\ conv[r].user = None \/ conv[r].key = None

\* The rights a request has had by each of its awaits.
RightsSoFar(r) ==
    /\ at[r] \notin {"idle", "authenticate", "done"} => "credential" \in seen[r]
    /\ at[r] \in {"acquire", "executable", "converse", "start", "running"} => "role" \in seen[r]
    /\ at[r] \in {"converse", "start", "running"} => "agent" \in seen[r]

\* A key that has been given out has a workspace and a creator.
KeysGiven == \A k \in Keys : key[k] # NoKey => key[k].ws # None /\ key[k].by # None

RequestsInv ==
    /\ KeysGiven
    /\ \A r \in Reqs :
        /\ OneCaller(r) /\ WorkspaceSelected(r) /\ AgentSelected(r) /\ ConversationSelected(r)
        /\ RunRecorded(r) /\ ConversationOnce(r) /\ RightsSoFar(r)

\* A run that a key started stays within the key: its workspace, its agent if it has one, no
\* draft, a conversation of its own that belongs to no user.
WithinKey ==
    \A r \in Reqs : run[r].key # None =>
        LET k == key[run[r].key] IN
        /\ run[r].ws = k.ws /\ Place[run[r].agent] = k.ws
        /\ k.agent \in {None, run[r].agent}
        /\ ~run[r].draft
        /\ run[r].conv = r /\ conv[r].user = None

\* The runs of a conversation are those of one caller with one agent in one workspace.
ConversationKept ==
    \A r, s \in Reqs :
        run[r].conv # None /\ run[r].conv = run[s].conv =>
            /\ run[r].user = run[s].user /\ run[r].key = run[s].key
            /\ run[r].agent = run[s].agent /\ run[r].ws = run[s].ws

\* A run starts only for a request that had each right it needs at some instant since it
\* arrived: a key that was no longer live, a member who had left, a role that had been taken
\* away or an agent that had been removed or archived before it arrived starts nothing.
RightsWereHeld ==
    \A r \in Reqs : at[r] = "running" => seen[r] = {"credential", "role", "agent"}

\* Leases are held by requests between acquire() and the end of their run only, however they end.
NoLeaseLost ==
    leased = {r \in Reqs : at[r] \in {"executable", "converse", "start", "running"}}
=============================================================================
