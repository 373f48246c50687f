----------------------------- MODULE ListPages -----------------------------
(***************************************************************************)
(* The console's pages of lists: app/(console)/*/page.tsx over             *)
(* lib/use-api-query.ts.  One page is shown at a time, of one tab; its     *)
(* queries load, its buttons start handlers that send one change, close    *)
(* their dialog, ask for the lists again and only then let go of the       *)
(* button.  The server's data is a revision for each path.  Names, forms   *)
(* and what a row says are left out, and the user has every right: the     *)
(* buttons of others are disabled and the server would refuse them anyway. *)
(***************************************************************************)
EXTENDS Naturals, FiniteSets

CONSTANTS Rows,          \* what a row, or a knowledge base, is called
          MaxClicks,     \* bounds what the user does on a page
          MaxRevision,   \* bounds the changes to each list
          None

VARIABLES
    page,        \* the page shown, None while another screen is
    query,       \* what each useApiQuery of it holds
    gets,        \* their requests under way
    works,       \* the handlers under way
    flag,        \* the state that disables buttons: None, "on" or a row
    dialog,      \* the dialogs: None when closed, else what they are about
    links,       \* dialogs that show what is shown only once
    selected,    \* KnowledgePage: the base whose detail is shown
    server,      \* the revision of each path, counted from when the page came up
    told,        \* not in the code: the newest change this page heard to be done
    clicks

pageVars == <<page, query, gets, works, flag, dialog, links, selected, server, told, clicks>>

QueriesOf(p) ==
    CASE p = "agents" -> {"agents"}
      [] p = "providers" -> {"providers"}
      [] p = "tools" -> {"tools"}
      [] p = "apiKeys" -> {"keys"}
      [] p = "members" -> {"members", "roles", "invitations"}
      [] p = "knowledge" -> {"bases", "detail"}
      [] p = "conversation" -> {"conversation", "run"}
      [] p = "settings" -> {"workspace"}
      [] OTHER -> {}
Pages == {"agents", "providers", "tools", "apiKeys", "members", "knowledge", "conversation",
          "settings"}
PathsOf(p) == (QueriesOf(p) \ {"detail"}) \cup (IF p = "knowledge" THEN Rows ELSE {})

Queries == UNION {QueriesOf(p) : p \in Pages}

Flags == {"duplicating", "validating", "busyRemove", "submitting", "busyMember", "inviting",
          "creatingRole", "revoking", "uploading", "removing", "approvalBusy", "saving"}
Dialogs == {"create", "remove", "invite", "role", "approval"}
OfDetail == {"uploading", "removing"}

ASSUME ListConstants ==
    /\ {MaxClicks, MaxRevision} \subseteq Nat
    /\ Rows \cap Queries = {}
    /\ None \notin Pages \cup Flags \cup Rows

Unasked == [id |-> 0, loading |-> FALSE, failed |-> FALSE, data |-> None]
Asking(q, id) == [query |-> q, id |-> id, path |-> q, seen |-> None]
Asked(s) == [s EXCEPT !.id = @ + 1, !.loading = TRUE, !.failed = FALSE]

(* The page comes up: each query with a path loads (the effect of           *)
(* useApiQuery).                                                            *)
ShowPage(p) ==
    /\ page' = p
    /\ query' = [q \in QueriesOf(p) |-> IF q = "detail" THEN Unasked ELSE Asked(Unasked)]
    /\ gets' = {Asking(q, 1) : q \in QueriesOf(p) \ {"detail"}}
    /\ works' = {} /\ flag' = [f \in Flags |-> None] /\ dialog' = [d \in Dialogs |-> None]
    /\ links' = {} /\ selected' = None
    /\ server' = [x \in PathsOf(p) |-> 0] /\ told' = [x \in PathsOf(p) |-> 0]
    /\ clicks' = 0

NoPage ==
    /\ page = None /\ query = <<>> /\ gets = {} /\ works = {} /\ links = {} /\ selected = None
    /\ flag = [f \in Flags |-> None] /\ dialog = [d \in Dialogs |-> None]
    /\ server = <<>> /\ told = <<>> /\ clicks = 0
LeavePage ==
    /\ page' = None /\ query' = <<>> /\ gets' = {} /\ works' = {} /\ links' = {} /\ selected' = None
    /\ flag' = [f \in Flags |-> None] /\ dialog' = [d \in Dialogs |-> None]
    /\ server' = <<>> /\ told' = <<>> /\ clicks' = 0
---------------------------------------------------------------------------
(* useApiQuery.  load() as closed over path x.                             *)
Reload(qs, x) ==
    /\ query' = [q \in DOMAIN query |-> IF q \in qs THEN Asked(query[q]) ELSE query[q]]
    /\ gets' = gets \cup {[query |-> q, id |-> query[q].id + 1, seen |-> None,
                           path |-> IF q = "detail" THEN x ELSE q] : q \in qs}

\* The server reads the path.
Read(g) ==
    /\ g.seen = None
    /\ gets' = (gets \ {g}) \cup {[g EXCEPT !.seen = server[g.path]]}
    /\ UNCHANGED <<page, query, works, flag, dialog, links, selected, server, told, clicks>>

\* Mutant of Settle: an older request's answer is taken too.
SettleAny(s, g, failed) ==
    [s EXCEPT !.loading = FALSE, !.failed = failed,
              !.data = IF failed THEN None ELSE [path |-> g.path, rev |-> g.seen]]
\* Its answer, or the failure, of the newest request only.
Settle(s, g, failed) ==
    IF g.id # s.id THEN s
    ELSE [s EXCEPT !.loading = FALSE, !.failed = failed,
                   !.data = IF failed THEN None ELSE [path |-> g.path, rev |-> g.seen]]

Arrive(g) ==
    /\ gets' = gets \ {g}
    /\ \E failed \in {f \in BOOLEAN : g.seen = None => f} :
          query' = [query EXCEPT ![g.query] = Settle(@, g, failed)]
    /\ UNCHANGED <<page, works, flag, dialog, links, selected, server, told, clicks>>

\* What a panel shows: skeletons, an error with or without a button, or the rows.
RowsShown(q) == ~query[q].loading /\ ~query[q].failed /\ query[q].data # None
Retried(q) == query[q].failed /\ ~query[q].loading /\ q \notin {"roles", "invitations"}
---------------------------------------------------------------------------
(* The handlers: the state that disables their button, whether it is kept   *)
(* by row, the dialog they belong to and what success does to it, the list  *)
(* they change and the lists they ask for again.                            *)
Handler(f, keyed, d, then, changes, reloads) ==
    [flag |-> f, keyed |-> keyed, dialog |-> d, then |-> then,
     changes |-> changes, reloads |-> reloads]

DuplicateAgent == Handler("duplicating", TRUE, None, "stay", "agents", {"agents"})
ValidateProvider == Handler("validating", TRUE, None, "stay", "providers", {"providers"})
RemoveProvider == Handler("busyRemove", FALSE, "remove", "close", "providers", {"providers"})
CreateProvider == Handler("submitting", FALSE, "create", "close", "providers", {"providers"})
RemoveTool == Handler("busyRemove", FALSE, "remove", "close", "tools", {"tools"})
CreateTool == Handler("submitting", FALSE, "create", "close", "tools", {"tools"})
RevokeKey == Handler("revoking", TRUE, None, "stay", "keys", {"keys"})
CreateKey == Handler("submitting", FALSE, "create", "link", "keys", {"keys"})
UpdateRole == Handler("busyMember", TRUE, None, "stay", "members", {"members", "roles"})
RemoveMember == Handler("busyMember", TRUE, None, "stay", "members", {"members", "roles"})
RevokeInvitation == Handler(None, FALSE, None, "stay", "invitations", {"invitations"})
Invite == Handler("inviting", FALSE, "invite", "link", "invitations", {"invitations"})
CreateRole == Handler("creatingRole", FALSE, "role", "close", "roles", {"roles"})
Upload == Handler("uploading", FALSE, None, "stay", "detail", {"detail"})
RemoveDocument == Handler(None, FALSE, None, "stay", "detail", {"detail"})
RemoveBase == Handler("removing", FALSE, None, "leave", "bases", {"bases"})
CreateBase == Handler("submitting", FALSE, "create", "select", "bases", {"bases"})
Decide == Handler("approvalBusy", FALSE, "approval", "close", "run", {"conversation", "run"})
SaveSettings == Handler("saving", FALSE, None, "stay", "workspace", {"workspace"})

\* Button: loading, or disabled, while the flag is its own.
Enabled(h, r) == h.flag # None => flag[h.flag] # IF h.keyed THEN r ELSE "on"
Raised(h, r) == IF h.flag = None THEN flag
                ELSE [flag EXCEPT ![h.flag] = IF h.keyed THEN r ELSE "on"]
Lowered(h) == IF h.flag = None THEN flag ELSE [flag EXCEPT ![h.flag] = None]

\* A click: the flag is raised and the change sent, for the path of this render.
Press(h, r) ==
    /\ clicks < MaxClicks /\ Enabled(h, r)
    /\ clicks' = clicks + 1
    /\ flag' = Raised(h, r)
    /\ works' = works \cup {[handler |-> h, row |-> r, no |-> clicks, step |-> "sent", awaits |-> {},
                             path |-> IF h.changes = "detail" THEN selected ELSE h.changes,
                             rev |-> 0]}
    /\ UNCHANGED <<page, query, gets, dialog, links, selected, server, told>>
Confirm(h) == dialog[h.dialog] # None /\ h.dialog \notin links /\ Press(h, "on")

Open(d, r) ==
    /\ clicks < MaxClicks /\ \A e \in Dialogs : dialog[e] = None
    /\ clicks' = clicks + 1
    /\ dialog' = [dialog EXCEPT ![d] = r]
    /\ UNCHANGED <<page, query, gets, works, flag, links, selected, server, told>>
Close(d) ==
    /\ dialog[d] # None
    /\ dialog' = [dialog EXCEPT ![d] = None]
    /\ links' = links \ {d}
    /\ UNCHANGED <<page, query, gets, works, flag, selected, server, told, clicks>>
---------------------------------------------------------------------------
(* The pages: which buttons there are, and when.                           *)
AgentsPage == page = "agents" /\ RowsShown("agents") /\ \E r \in Rows : Press(DuplicateAgent, r)
ProvidersPage ==
    /\ page = "providers"
    /\ \/ Open("create", "new")
       \/ RowsShown("providers") /\ \E r \in Rows : Press(ValidateProvider, r) \/ Open("remove", r)
       \/ Confirm(CreateProvider) \/ Confirm(RemoveProvider)
ToolsPage ==
    /\ page = "tools"
    /\ \/ Open("create", "new")
       \/ RowsShown("tools") /\ \E r \in Rows : Open("remove", r)
       \/ Confirm(CreateTool) \/ Confirm(RemoveTool)
ApiKeysPage ==
    /\ page = "apiKeys"
    /\ \/ Open("create", "new")
       \/ RowsShown("keys") /\ \E r \in Rows : Press(RevokeKey, r)
       \/ Confirm(CreateKey)
MembersPage ==
    /\ page = "members"
    /\ \/ query["roles"].data # None /\ Open("invite", "new")
       \/ Open("role", "new")
       \/ /\ RowsShown("members")
          /\ \E r \in Rows : Press(UpdateRole, r) \/ Press(RemoveMember, r)
       \/ RowsShown("invitations") /\ \E r \in Rows : Press(RevokeInvitation, r)
       \/ Confirm(Invite) \/ Confirm(CreateRole)

\* KnowledgeDetail is not keyed by the base: another id is another path of the
\* same query, whose data stays while the new one loads.
Select(r) ==
    /\ clicks < MaxClicks /\ selected # r
    /\ clicks' = clicks + 1
    /\ selected' = r
    /\ Reload({"detail"}, r)
    /\ UNCHANGED <<page, works, flag, dialog, links, server, told>>
KnowledgePage ==
    /\ page = "knowledge"
    /\ \/ Open("create", "new") \/ Confirm(CreateBase)
       \/ RowsShown("bases") /\ \E r \in Rows : Select(r)
KnowledgeDetail ==
    /\ page = "knowledge" /\ selected # None /\ RowsShown("detail")
    /\ \E h \in {Upload, RemoveDocument, RemoveBase} : Press(h, "on")

ConversationPage ==
    /\ page = "conversation" /\ RowsShown("conversation") /\ query["run"].data # None
    /\ \/ RowsShown("run") /\ Open("approval", "new")
       \/ Confirm(Decide)
SettingsPage == page = "settings" /\ RowsShown("workspace") /\ Press(SaveSettings, "on")

Retry ==
    \E q \in DOMAIN query :
        /\ clicks < MaxClicks /\ Retried(q) /\ (q = "detail" => selected # None)
        /\ clicks' = clicks + 1
        /\ Reload({q}, selected)
        /\ UNCHANGED <<page, works, flag, dialog, links, selected, server, told>>
---------------------------------------------------------------------------
(* The change: done, refused, or done with its answer lost.                *)
Serve(w) ==
    /\ w.step = "sent"
    /\ \/ /\ server[w.path] < MaxRevision
          /\ server' = [server EXCEPT ![w.path] = @ + 1]
          /\ \E s \in {"done", "refused"} :
                works' = (works \ {w}) \cup {[w EXCEPT !.step = s, !.rev = server[w.path] + 1]}
       \/ /\ works' = (works \ {w}) \cup {[w EXCEPT !.step = "refused"]}
          /\ UNCHANGED server
    /\ UNCHANGED <<page, query, gets, flag, dialog, links, selected, told, clicks>>

\* Another member changes a list.
Others ==
    /\ \E x \in DOMAIN server :
          server[x] < MaxRevision /\ server' = [server EXCEPT ![x] = @ + 1]
    /\ UNCHANGED <<page, query, gets, works, flag, dialog, links, selected, told, clicks>>

\* After the await: the dialog, then refetch(); the handler goes on to await it.
Reloading(w) == [w EXCEPT !.step = "reloading",
                          !.awaits = {<<q, query[q].id + 1>> : q \in w.handler.reloads}]
Done(w) ==
    /\ w.step = "done" /\ w.handler.then \in {"stay", "close", "link"}
    /\ Reload(w.handler.reloads, w.path)
    /\ works' = (works \ {w}) \cup {Reloading(w)}
    /\ dialog' = IF w.handler.then = "close" THEN [dialog EXCEPT ![w.handler.dialog] = None] ELSE dialog
    /\ links' = IF w.handler.then = "link" THEN links \cup {w.handler.dialog} ELSE links
    /\ told' = [told EXCEPT ![w.path] = IF @ < w.rev THEN w.rev ELSE @]
    /\ UNCHANGED <<page, flag, selected, server, clicks>>

\* CreateBase also shows the detail of the new base.
Created(w) ==
    /\ w.step = "done" /\ w.handler.then = "select"
    /\ \E r \in Rows \ {selected} : selected' = r /\ Reload({"bases", "detail"}, r)
    /\ works' = (works \ {w}) \cup {Reloading(w)}
    /\ dialog' = [dialog EXCEPT !["create"] = None]
    /\ told' = [told EXCEPT ![w.path] = IF @ < w.rev THEN w.rev ELSE @]
    /\ UNCHANGED <<page, flag, links, server, clicks>>

\* RemoveBase takes the detail away, with all that was under way in it.
Removed(w) ==
    /\ w.step = "done" /\ w.handler.then = "leave"
    /\ selected' = None
    /\ query' = [query EXCEPT !["bases"] = Asked(@), !["detail"] = Unasked]
    /\ gets' = {g \in gets : g.query # "detail"} \cup {Asking("bases", query["bases"].id + 1)}
    /\ works' = {v \in works : v.handler.changes # "detail" /\ v.handler # RemoveBase}
    /\ flag' = [f \in Flags |-> IF f \in OfDetail THEN None ELSE flag[f]]
    /\ told' = [told EXCEPT ![w.path] = IF @ < w.rev THEN w.rev ELSE @]
    /\ UNCHANGED <<page, dialog, links, server, clicks>>

\* finally: after the refetches, or after a change that failed.
Over(w) ==
    \/ w.step = "refused"
    \/ w.step = "reloading" /\ \A g \in gets : <<g.query, g.id>> \notin w.awaits
\* Mutant of Finish: the flag is let go of after a success only.
FinishUnlessRefused(w) ==
    /\ Over(w)
    /\ works' = works \ {w} /\ flag' = IF w.step = "refused" THEN flag ELSE Lowered(w.handler)
    /\ UNCHANGED <<page, query, gets, dialog, links, selected, server, told, clicks>>
Finish(w) ==
    /\ Over(w)
    /\ works' = works \ {w} /\ flag' = Lowered(w.handler)
    /\ UNCHANGED <<page, query, gets, dialog, links, selected, server, told, clicks>>

PageStep ==
    \/ AgentsPage \/ ProvidersPage \/ ToolsPage \/ ApiKeysPage \/ MembersPage
    \/ KnowledgePage \/ KnowledgeDetail \/ ConversationPage \/ SettingsPage
    \/ Retry \/ (page # None /\ \E d \in Dialogs : Close(d))
    \/ \E g \in gets : Read(g) \/ Arrive(g)
    \/ \E w \in works : Serve(w) \/ Done(w) \/ Created(w) \/ Removed(w) \/ Finish(w)
    \/ Others
---------------------------------------------------------------------------
HandlersOf(p) ==
    CASE p = "agents" -> {DuplicateAgent}
      [] p = "providers" -> {ValidateProvider, RemoveProvider, CreateProvider}
      [] p = "tools" -> {RemoveTool, CreateTool}
      [] p = "apiKeys" -> {RevokeKey, CreateKey}
      [] p = "members" -> {UpdateRole, RemoveMember, RevokeInvitation, Invite, CreateRole}
      [] p = "knowledge" -> {Upload, RemoveDocument, RemoveBase, CreateBase}
      [] p = "conversation" -> {Decide}
      [] p = "settings" -> {SaveSettings}
      [] OTHER -> {}

Held(p) == [id : Nat, loading : BOOLEAN, failed : BOOLEAN,
            data : {None} \cup [path : PathsOf(p), rev : Nat]]
Gets(p) == [query : QueriesOf(p), id : Nat, path : PathsOf(p), seen : Nat \cup {None}]
Works(p) ==
    [handler : HandlersOf(p), row : Rows \cup {"on"}, no : Nat, path : PathsOf(p), rev : Nat,
     step : {"sent", "done", "refused", "reloading"}, awaits : SUBSET (QueriesOf(p) \X Nat)]

PageTypeOK ==
    /\ page \in Pages \cup {None}
    /\ query \in [QueriesOf(page) -> Held(page)]
    /\ gets \subseteq Gets(page) /\ works \subseteq Works(page)
    /\ flag \in [Flags -> Rows \cup {"on", None}]
    /\ selected \in Rows \cup {None}
    /\ server \in [PathsOf(page) -> Nat] /\ told \in [PathsOf(page) -> Nat]
    /\ clicks \in Nat

\* Every query but the detail has one path, its own.
PathOf(q, x) == IF q = "detail" THEN x \in Rows ELSE x = q

\* The newest request of a query, once the server has read, has read what this page was told.
GetSound(g) ==
    /\ PathOf(g.query, g.path)
    /\ g.id <= query[g.query].id
    /\ g.id = query[g.query].id /\ g.seen # None => told[g.path] <= g.seen
QuerySound(q) == query[q].data # None => PathOf(q, query[q].data.path)
\* A handler has heard of no change that has not been made.
WorkSound(w) == PathOf(w.handler.changes, w.path) /\ w.rev <= server[w.path]
ToldSound == \A x \in PathsOf(page) : told[x] <= server[x]
---------------------------------------------------------------------------
(* A list that is shown, with nothing under way for it, is not older than   *)
(* the last change this page was told is done: every success asks for the   *)
(* list again and only the newest request of a query is heard, whatever the *)
(* order in which the answers of several clicks arrive.                     *)
ReadsItsWrites ==
    \A q \in DOMAIN query :
        RowsShown(q) => query[q].data.rev >= told[query[q].data.path]

(* What is disabled or loading is waiting for something under way: no       *)
(* button stays disabled and no panel stays a skeleton for ever.            *)
PageWaits ==
    /\ \A f \in Flags : flag[f] # None =>
          \E w \in works : w.handler.flag = f /\ (flag[f] = "on" \/ flag[f] = w.row)
    /\ \A q \in DOMAIN query : query[q].loading =>
          \E g \in gets : g.query = q /\ g.id = query[q].id

PageInv ==
    /\ PageTypeOK /\ ToldSound
    /\ \A g \in gets : GetSound(g)
    /\ \A q \in QueriesOf(page) : QuerySound(q)
    /\ \A w \in works : WorkSound(w)
    /\ ReadsItsWrites /\ PageWaits
=============================================================================
