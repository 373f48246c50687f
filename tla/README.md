# Formal model of the agent platform

This directory holds TLA+ specifications of the API in `apps/api/src` and of the web console in
`apps/web`: the services that run agents, call models, let humans approve tool calls, admit runs to
a workspace, keep versions, members, sessions, connections and knowledge, and the pages that drive
them. Paths below are relative to the repository. Under `apps/api/src/modules`,

| | | | |
| --- | --- | --- | --- |
| `AES` | `agents/agent-execution.service.ts` | `AGS` | `agents/agents.service.ts` |
| `TAS` | `tools/tool-approval.service.ts` | `TOS` | `tools/tools.service.ts` |
| `RCS` | `runtime/runtime-control.service.ts` | `MEM` | `members/members.service.ts` |
| `AUT` | `auth/auth.service.ts` | `PRO` | `providers/providers.service.ts` |
| `KNO` | `knowledge/knowledge.service.ts` | `KEY` | `api-keys/api-keys.service.ts` |

The API is a NestJS application. Several identical processes serve HTTP requests, and share
PostgreSQL (through Prisma, READ COMMITTED unless a transaction says otherwise), Redis and an
object store. A process is single-threaded, so a request runs undisturbed between two `await`s;
everything else interleaves. Each statement or transaction sent to PostgreSQL and each command
sent to Redis is therefore one atomic step of a model, and what a request has read is part of its
local state. The console is one React application per tab; it is undisturbed between two awaits,
too, and its tabs share the cookies of the browser.

## Inventory

| Part | State | Operations | Talks to | Hard behaviour | What makes it correct |
| --- | --- | --- | --- | --- | --- |
| Agent run executor (`AES`, `agents.controller.ts`) | `AgentRun`, `Message`, `UsageRecord`, `ToolExecution`; round, pending calls, abort signal | `chat`, `stream` and the `prepare`, `executeToolCalls`, `recordUsage`, `complete`, `fail` they call | admission, versions, providers, tool executor | a statement that fails or is committed without an answer, crash, client abort, decisions that arrive while it works | every run ends parked or closed, is billed for what it acts on, and has one answer exactly if it succeeded through the model |
| Tool approval (`TAS`) | `ToolExecution`, `AgentRun` | `approve`, `reject` | tool executor | two operators, expiry, a decision before the run is parked | one decision per call, one call per approval, the run follows the decision |
| Run admission (`RCS`, `redis.service.ts`) | rate counters, lease set, maps of each process | `acquire`, `release` | Redis | outage between acquire and release, commands sent twice, clock | limits hold, leaks heal |
| Provider calls (`chatWithRetry`, `streamWithRetry` in `AES`; the four adapters) | attempt, deadline, what was handed on, held calls | one model call with its retries, in rounds | vendors | retry after partial output, timeout, abort, four ways to end a stream | the answer is of one attempt and whole, usage is its own, the next round is accepted, the run comes out |
| Provider connections (`PRO`, `ssrf-protection.ts`, `bedrock-endpoint-policy.ts`) | `ProviderConnection` | create, update, remove, validate, models, runtime | vendors, versions | update checked against what was read, removal against a new version | calls go where type and region allow, with the credential of their mode |
| Agents and versions (`AGS`) | `Agent.status`, `publishedVersionId`, `AgentVersion.status` | create and update draft, publish, rollback, archive, `executable` | tools, providers | concurrent publish, draft read outside the transaction | the agent points to a published version |
| Tool definitions (`TOS`) | `ToolDefinition` | create, update, remove | versions, approvals | check then update | tools in use stay |
| Members, roles, invitations (`MEM`) | `Membership`, `Role`, `Invitation` | invite, register, accept, revoke, update, remove | sessions | two invitations to one address, two owners leaving | there is always an Owner, an invitation is used once |
| Sessions (`AUT`, `auth.controller.ts`; `web/lib/api.ts`, `auth-provider.tsx`) | `RefreshSession` rows, cookie, access tokens, screens | bootstrap, login, restore (rotation), logout, retry after 401 | – | two tabs with one cookie, logout during rotation, lost answers | a session is exchanged once, none comes from one logged out, nothing waits for ever |
| API keys, tenancy (`KEY`, `jwt-auth.guard.ts`, `tenant.guard.ts`, `permissions.guard.ts`) and `prepare()` | `ApiKey`, roles, `Conversation`, context of a request | create, revoke, authenticate, authorise, start a run | executor, admission, retention | rights that change at any await, a lease held over a dozen checks | a key reaches its own agent, rights were held, no lease is lost |
| Knowledge (`KNO`, `storage.service.ts`) | `KnowledgeBase`, `Document`, `KnowledgeChunk`, objects | upload, remove document or base, retrieve | object store, executor | two stores, no transaction over both; any call fails, or has taken effect and is not answered; stop in the middle | a document keeps its file unless its creation was undone, has all its chunks or none, does not stay PROCESSING unnoticed |
| Retention (`maintenance-queue.service.ts`) | `Conversation` | delete old conversations | requests | deletion under a run that starts | a run has a conversation of its caller |
| Console: list pages (eight pages, `use-api-query.ts`) | queries, dialogs, busy flags | load, act, reload | API | loads that overtake each other, changes finished after leaving | a list is not older than what the page did |
| Console: agent editor, playground | form, latest version, conversation, stream | edit, save in two requests, publish; send, stop, clear | API | edits during a save, half of a save refused, events after a clear | saved is what was clicked, cleared stays cleared |
| Budgets, usage, audit, configuration, encryption, health, deployment | – | – | – | – | not modelled, see the end |

## Modules

| Module | Role | Instances | Theorems |
| --- | --- | --- | --- |
| `RunContract` | What runs and approvals promise, without executors or operators. | | |
| `RunLifecycle` | The executor of each request and the operators, statement by statement. Implements `RunContract`. | `MCRunLifecycle` | `RunLifecycleProofs` |
| `RuntimeControl` | Admission: rate counter, leases, fallback, outages. | `MCRuntimeControl` | `AdmissionProofs` |
| `ProviderAdapters` | What each of the four adapters accepts, sends, hands on and calls retryable, as functions. | | |
| `ProviderCalls` | The model calls of a run: rounds, attempts, deadline, streams; the vendor and the client. Extends `ProviderAdapters`. | itself | `ProvidersProofs` |
| `AgentVersions` | Drafts, publishing, rollback, status and removal of one agent, with the tools its versions use. | `MCAgentVersions` | `AgentVersionsProofs` |
| `Members` | Members, roles and invitations of one organization. | `MCMembers` | `MembersProofs` |
| `Sessions` | One browser's refresh sessions: server, cookie and tabs. | `MCSessions` | `SessionsProofs` |
| `Connections` | Provider connections, and the calls made with them. | `MCConnections` | `ProvidersProofs` |
| `RunRequests` | Requests from the guards through `prepare()` to the row of the run, against administrators and retention. | `MCRunRequests` | `AdmissionProofs` |
| `Knowledge` | Documents, chunks and files, and what runs read of them. | `MCKnowledge` | `KnowledgeProofs` |
| `ListPages`, `AgentEditor`, `Playground` | The screens of the console. | | |
| `Console` | One tab that shows one of them at a time; composes the three. | `MCConsole` | `ConsoleProofs` |

How they fit: `RunRequests` ends where `RunLifecycle` begins (the row of the run), and takes the
lease whose life `RuntimeControl` follows command by command. `ProviderCalls` is what
`RunLifecycle` abstracts to `ModelReply` and `ModelError`; `Connections` decides which request an
adapter of `ProviderAdapters` sends at all. `Knowledge` is read by the step that follows the start
of a run. `Sessions` is below every page of `Console`.

### How a model corresponds to the code

*Atomicity.* A statement, a `$transaction` whose statements cannot be told apart by others, or a
Redis command or script is one action. Where a transaction runs at READ COMMITTED and another
transaction can see, or change, what lies between its statements (`activateVersion`), each
statement is an action and the rows it has written are locked (`holds`). Code between two awaits
belongs to the action that precedes it.

*Control.* `pc` (of an executor, an operator, a client or a request; `at` in some modules) names the
statement that comes next. What the code keeps in local variables over an await is kept in the
variables next to it: `calls`, `current`, `attempt` of the executor; `stamp` of an admission;
`target`, `retiring`, `tool` of a client; the record `req[c]` of a member request or of a request
about a connection; `ctx[r]`, the `TenantContext`, of a request to run an agent.

*`RunLifecycle`.* `runStatus`, `usageRows`, `answers` stand for `AgentRun`, `UsageRecord` and the
ASSISTANT `Message`; `execStatus`, `execRun`, `execTool`, `approvedBy` for `ToolExecution`. `Prepare`
is `prepare()` up to its transaction; `ModelReply` and `ModelError` are the outcomes of the provider;
`RecordUsage`, `CreateExecution`, `Park`, `CallTool`, `SucceedCall`, `FailCall`, `Complete`, `Fail`
are the statements of the executor; `Approve`, `Expire`, `Claim`, `CallApproved`,
`SucceedApproved`, `FailApproved`, `Reject`, `RejectExecution`, `CancelRun` those of the operators.
`Age` lets the 15 minutes of a request pass. If `Faulty`, every statement may fail, before or after
it was committed, and every process may crash; the error path of the code follows (`Reply`).

*`RuntimeControl`.* `Begin`, `CountRequest`, `ExpireCounter`, `TakeLease` are the commands of
`acquire()`, and the actions on `local...` its fallback. `ioredis` keeps a command while the
connection is away (`maxRetriesPerRequest: null`) and sends it again if its answer was lost: both
are actions. `expires` is the score of the sorted set.

*`ProviderAdapters`, `ProviderCalls`.* A request is what the adapters can tell apart: the family of
the model, tools, a response schema, a temperature above 1. The arguments of a tool call are one of
four classes of text (a JSON object, other JSON, no JSON, nothing), since `JSON.parse` and the
checks on its result are all that is done with them. `phase` is where `chatWithRetry` or
`streamWithRetry` is; `attempt`, `clock`, `limit` are its counter and its timers, in steps of the
first delay (250 ms); `sent` is what the vendor has sent, `pending` the calls an adapter holds back,
`delivered` what the executor got, with the attempts it came from. One event of a vendor is one
action of its adapter (`CompatibleEvent`, `AnthropicEvent`, `GeminiEvent`, `BedrockEvent`).

*`AgentVersions`.* Each operation of `AGS` and the update and removal of `TOS` are chains of
actions, from the first read (`FindOwned`) on. The content of a tool is one of two policies, since
no property looks further. `holds` and `retiring` are PostgreSQL's row locks and the snapshot of the
statement that retires versions. A statement that waits for a row is an action that is not enabled.

*`Members`.* `Enter` is `TenantGuard` with `PermissionsGuard`: the role and the permissions of the
actor are read once and kept. `MemberRead` and `MemberWrite` are the SERIALIZABLE transactions of
`updateMember` and `removeMember`. PostgreSQL guarantees that such a transaction fails if a row it
writes has changed since its snapshot, and that of two transactions that each read what the other
writes one fails; the model has exactly these two rules (`AnsweredWith`), and lets a transaction
also fail without reason. A role is a set of permissions. `late` is the set of invitations past
`expiresAt`.

*`Sessions`.* A call carries the cookie as it was when it was sent (`with`); `Find` and `Claim` are
the two statements of `restore()`, `Create` is `createSession()`, `SetCookie` the response that
reaches the browser. `HearScreen` and `HearRefresh` are the continuations in `auth-provider.tsx` and
`lib/api.ts`; `Ask`, `Challenge`, `Answer` a request of a page with its one retry after a 401, and
the refresh that all requests of a tab share. `Lose` is an answer that does not arrive, `Refuse` a
429 or 503; a crash between two statements looks like either. `parent` and `calm` are history.

*`Connections`.* A URL is what the checks read of it (scheme, host, credentials or query in it).
`UpdateRead` and `UpdateWrite`, `CountVersions` and `Delete` are pairs because the code checks in the
first and writes in the second; `UpdateWrite` writes only what the request carries. `Call` reads the
row, `Dispatch` is the request the adapter makes, `Report` stores what a validation found.

*`RunRequests`.* `Arrive`, `Authenticate`, `Tenant` are the guards, `Acquire`, `Executable`,
`Converse`, `Start` the awaits of `prepare()`, `End` the release after the run. Checks whose outcome
depends on nothing the model holds (budget, connection, tools) may refuse at each of them
(`Refuse`); before the lease is taken a refusal leaves, after it releases. `ChangeRole`, `CreateKey`,
`EndKey`, `UpdateStatus`, `Publish`, `Remove` are single statements of administrators, `Forget`
is retention. `seen` records which rights a request had at some instant.

*`Knowledge`.* `upload[d]` is the await of an upload that comes next; `text[d]` the length of the
text and `chunks[d]` the offsets at which its chunks start, which `Starts` computes as `chunkText()`
does. Every write ends in one of three ways: it is answered (`Answered`), or it fails with or without
having taken effect (`Failed`, one `Fault`); a commit whose answer is lost is the latter. So `Undo`
may delete the file of a row that was created (`KNO` 77-78), `NoteFailure` may come after the
transaction of `FailToIndex` was committed, and may fail itself, as `Park` may (`UpdateStatus`).
`upload[d]` ends `"done"` if it was answered with the document, `"undone"` after `Undo`, and
`"error"` otherwise. Reads that fail before anything is written end a request as if it had not come,
and are left out. `Stop` is the end of the process, before any await. `Retrieve` is one query.

*`Console`.* `ListPages` describes each page by its queries and handlers (which flag it raises, which
dialog it closes, what it changes, which queries it reloads), and gives them one meaning: `Press`
sends, `Serve` is the server, `Finish` the rest of the handler. A query keeps the data of whichever
response came last, as `useApiQuery` does. In `AgentEditor` a form has one field of each way the
code has of sending a field. `Playground` numbers the conversations as the server makes them; of the
panels beside the transcript it keeps whose run they show (`run`), whether there is any usage, and
which kinds of entries the trace has (`Entries`). `Settled` is the end of `send()`, its `catch` and
`finally` included: it adds the entry "Run cancelled" or "Run failed" to the trace as it is by then.
Leaving a screen drops its state, what it has sent goes on.

## What the runs check

Every passing run explores all reachable states of its instance.

| Run | Question | Properties |
| --- | --- | --- |
| `run_faulty` | Do ownership, approval and bounded calls survive two operators, two executions, faults and crashes? Does `RunLifecycle` implement `RunContract`? | `ExecutorOwnsRun`, `SentOnlyIfApproved`, `SentAtMost`, `DecisionStands`, `ImplementsContract` |
| `run_fair` | Without faults, is every run parked or closed, every call ended, every parked run closed by a decision that got through? | `NothingStaysRunning`, `DecisionClosesParkedRun` |
| `admission` | Do leases, rate and leaks keep to their limits through outages, crashes and repeated commands, with one process in production and one that may fall back on its maps? | `RunsWithinLimit`, `LeaksOnlyByOutage`, `AdmittedWithinRate` |
| `versions` | Does the agent point to a PUBLISHED version, do activations that meet no other heal what overlaps left, do tools in use stay? | `PointerIsPublished`, `HealedByNextPublish`, `UsedToolsStay` |
| `members` | Does an Owner remain, do people join only by their invitation, does nobody but an Owner dethrone an Owner, is delegation limited? | `OwnerRemains`, `InvitesWithinPower`, `JoinByInvitation`, `OwnersByOwners` |
| `members_last_owner` | Does an organization retain an Owner, as `MEM` line 355 says? Violated: see Findings. | `AlwaysAnOwner` |
| `providers` | Is the stored answer whole and of one attempt, its usage its own, the next round accepted by the same adapter, and does every run come out, with any vendor? | `OneWholeAnswer`, `UsageOfTheAnswer`, `NextRoundAccepted`, `RunSettles` |
| `sessions` | Is a session exchanged once, does none come from one that was logged out, does the rotation keep the cookie valid, does nothing wait for a call that is not there? | `ExchangedOnce`, `NoneFromEnded`, `CookieIsLive`, `SomethingToWaitFor` |
| `connections` | Do calls go where type and region allow with the credential of their mode, whatever updates interleave, and do connections in use stay? | `GoesWhereItMay`, `CarriesItsCredential`, `ReferredStays` |
| `requests` | Does a key reach its own workspace and agent only, does a conversation keep its caller, was every right held, is no lease lost? | `WithinKey`, `ConversationKept`, `RightsWereHeld`, `NoLeaseLost` |
| `knowledge` | Whatever calls fail, before or after they took effect: has each document its file, has it all its chunks or none, is PROCESSING temporary, do runs read READY documents? | `FilesStay`, `ReadyIsWhole`, `ProcessingEnds`, `ReadsWhatIsReady` |
| `console` | Is no list shown that is older than what its page did, does what is disabled wait for something, is a form said to be saved stored as it was clicked, does a cleared playground stay cleared? | `ReadsItsWrites`, `BusyIsUnderWay`, `SavedAsClicked`, `ClearedStaysCleared` |

What some of them say is easily read too strongly:

- `RunsWithinLimit` counts runs that end before their lease does; `RuntimeControlLongRun` shows the
  others.
- `CookieIsLive` speaks of calls that take turns and are answered. Two tabs that restore at once do
  break it: the loser clears the cookie of the winner (`auth.controller.ts:83`).
- `NoneFromEnded` speaks of the row that logging out revokes. A refresh that is under way has left it
  already; `SessionsLogout` shows that its answer leaves a session that lives.
- `RightsWereHeld` says each right was held at some instant of the request, not all of them at one.
- `FilesStay` excepts a document whose creation was committed and answered with an error: `upload()`
  deletes its file (`KNO` 77-78), and the row stays, PROCESSING and never read.
- `ReadyIsWhole` lets a FAILED document have chunks, all of them: its transaction was committed, the
  answer lost, and the failure noted over READY (`KNO` 105-113).
- `ProcessingEnds` excepts uploads that were not answered with the document, because the process
  stopped or the update of the status failed in its turn (`KNO` 82, 106): nothing picks those up again.
- `ClearedStaysCleared` excepts one row of the trace: the `send()` that `clear()` aborts adds "Run
  cancelled" to the trace that `clear()` has just emptied (page.tsx of the playground, 200-208 after
  236). Nothing else of the former conversation comes back.

### Other configurations

They answer questions of the same models, and run with `tlc -config <X>.cfg <module>.tla`. These pass:
`RunLifecycleMore`, `RuntimeControlMore`, `ProviderCallsMore`, `SessionsMore`, `ConnectionsMore`,
`RunRequestsMore`, `KnowledgeMore` and `ConsoleMore` (each with its `MC` module, `ProviderCallsMore`
with `ProviderCalls` itself) check the type invariants, the inductive invariants the proofs use, and
further properties, among them `WithinTime` (an attempt ends with its deadline), `InitialisedOnce`
and `LeasesWithinLimit`. These find a counterexample:

| Configuration | What TLC finds |
| --- | --- |
| `RunLifecycleReject` (`MCRunLifecycle`) | A rejection between the insert of an execution and the update that parks its run (`AES` 507-512, `TAS` 130) closes the execution and finds no parked run to cancel; the run is then parked for ever. The console says the run is marked cancelled. |
| `RunLifecycleExpiry` (`MCRunLifecycle`) | Approving an execution of more than 15 minutes cancels its parked run as expired, also if the execution was approved in time and is being made (`TAS` 34). |
| `RuntimeControlLongRun` (`MCRuntimeControl`) | Leases last 30 minutes and are never renewed (`RCS` 41), and a run may last longer; the next request drops the lease and two runs go on where one is allowed. |
| `AgentVersionsTwoPublished` (`MCAgentVersions`) | Two overlapping activations both end PUBLISHED (`AGS` 257). The next one that meets no other heals it, as `HealedByNextPublish` says, and the pointer of the agent is always right. |
| `AgentVersionsPolicy` (`MCAgentVersions`) | A version published between the count of the versions that use a tool and the update of the tool has its policy changed in place (`TOS` 69). The count of pending approvals (`TOS` 62) has the same race. |
| `SessionsLogout` (`MCSessions`) | A refresh under way while the other tab logs out leaves a live session and its cookie (`docs/api.md:14` speaks of the current session being revoked). |

### Bounds, and why they are enough

- `run_faulty`: one run, two executions, two operators, `MaxRounds` 2, `MaxCalls` 2. Runs share
  nothing but the executions that operators choose from, so a second run adds states without new
  interactions; two operators make every race on one execution; two executions and two rounds make
  "the call before", "the call after" and "the round after" happen. Replies of none, some, and more
  than `MaxCalls` calls are all tried. `run_fair` uses `MaxCalls` 1.
- `admission`: three requests on two processes for one slot, a rate of two, a clock of four ticks
  with windows of two, rate keys of three and leases of two, three outages. Two requests of one
  process and one of another are the least that tells a process's view apart from Redis; a lease can
  expire, be taken again and leak within the clock.
- `versions`: two clients, one tool, two versions. The races of this component are between two
  requests; two versions are the least that can both be PUBLISHED. Policies go back and forth, so
  the state space is finite without a bound.
- `members`: an Owner, a member with a custom role that may manage members, somebody from outside;
  two requests; one invitation that is sent at most once; two permissions; a built-in role with all
  of them and one with none. `Grants` are the two sets of permissions that matter: within what the
  member has, and more. `members_last_owner` uses two people and two invitations, since its history
  needs two overlapping invitations and ends with one Owner who leaves.
- `providers`: two retries, a timeout of five steps of which an attempt needs four
  (`MinTimeout`), so there is time for one retry and an attempt may begin with less than it asks for;
  two rounds, so that what was accepted once is sent again; three events of a stream, which are
  enough to begin, fill and close a call, or to interleave text, a call and a report.
- `sessions`: two tabs, one page request each, three session rows, one fault. Two tabs are what
  makes an overlap; three rows let each of them log in or rotate, and one rotate twice. `Room` keeps
  a call from starting if the rows might not suffice for it.
- `connections`: one connection, two requests; the four types with rules of their own (a local one,
  Google's, Bedrock's, Azure's); an address of each kind, two Bedrock regions, credentials of each
  mode. Two requests are what it takes to write halves that were checked apart.
- `requests`: two users, two organizations, two workspaces of one of them, two agents (published
  and draft), one key, two requests, two changes by administrators: two changes let a right
  go between two checks of one request, or come and go.
- `knowledge`: two bases, two documents, an empty text and one that takes two chunks of 4 overlapping
  by 1. Two failed calls or stops: the outage that fails the transaction also fails the note of it.
  `KnowledgeMore` adds a text that is cut short (length 9, two chunks at most), over one base.
- `console`: two rows, three clicks, one change by others; five edits and clicks in the editor over
  two connections, three messages. Three clicks let a change be under way while another page is
  shown and the first is opened again.
- Symmetry is used for what the models never tell apart, and only in runs without liveness
  properties. `CHECK_DEADLOCK FALSE` is set where the system may stop: all requests served and the
  bound on new ones reached. In `providers` every end of a run is a stutter (`Finished`), so a
  deadlock there would be a run that hangs.

### Fairness

`run_fair` uses `FairSpec` of `RunLifecycle`: weak fairness of the next statement of each executor
and each operator that has started. Node drives every pending promise on as long as the process
lives, PostgreSQL answers, and the calls to providers and tools have timeouts (`Faulty` is FALSE).
Nothing is assumed of clients and operators: they may never ask, abort or decide, and the 15 minutes
may or may not pass. `run_faulty` shows why crashes are excluded: after one, nothing picks up a
RUNNING run.

`providers` uses `FairSpec` of `ProviderCalls`: weak fairness of `Executor`, which is the process
itself: timers fire when they are due, time passes, and what the code does next is done. Nothing is
asked of the vendor, which may stay silent for ever, nor of the client.

## Findings

`MEM` 267: an Owner who still holds an invitation to another role accepts it and may be the last
one (`members_last_owner`). `resigned` in the model is the only way out of `OwnerRemains`.

Met while modelling, without a run of their own; the models follow the code.

- *Runs.* `rollback()` accepts a draft although `docs/architecture.md:72` speaks of published
  versions. The monthly budget is checked before the run and spent during it; `docs/unfinished.md:23`
  says so.
- *Model calls.* A usage report of a failed attempt is kept when the next one brings none. A stream
  of an OpenAI-compatible vendor that ends without `[DONE]` counts as complete, and a last line
  without a newline is dropped. An attempt that uses up the time leaves none for another, so
  timeouts are not retried in effect. Bedrock's request limit of 2 MB is below what a history may
  hold. The slugs of two tools may coincide. Anthropic takes temperatures up to 1 where agents may
  have 2. The Anthropic client may end an aborted stream quietly.
- *Sessions.* The loser of two concurrent restores clears the winner's cookie. A lost response after
  a rotation signs the browser out. A logout whose request fails still shows the login page. Access
  tokens stay valid for up to 15 minutes.
- *Connections.* Two updates may store a combination neither of them checked; it is caught when it is
  used. `lastValidatedAt` may attest other credentials than those stored. Validating an Azure
  connection makes no call.
- *Knowledge.* A document uploaded between the listing and the deletion of its base leaves a file
  nothing refers to. Chunks beyond 10 000 are cut off silently. `retrieveKnowledge()` takes 1000
  chunks in no given order. A process that stops leaves documents PROCESSING, and so does an outage
  that lasts over the transaction and the update that notes its failure (106), or hits the update to
  PENDING (82). A `create()` that is committed but not answered has the file of its row deleted
  (77-78). A transaction that is committed but not answered leaves a FAILED document with all its
  chunks. A deletion that is committed but not answered leaves the files behind.
- *Console.* The detail of a knowledge base is not keyed by the base: documents of A may be shown
  under B after an upload. Clearing the playground while an answer streams leaves "Run cancelled" in
  the emptied trace. Publish sends the version that was the latest when the page was loaded.
  Switching the workspace reloads no page. A busy flag that names a row holds the last row only. The
  success of a removal closes the dialog reopened for another row. Stopping before the first event
  makes the next message start another conversation in the same transcript. A run that waits for an
  approval is shown as succeeded. A blank schema, budget, description or icon is not sent and keeps
  its former value, where the hints of the form say that blank means none. Settings typed during a
  save are overwritten by the refetch. Leaving the playground does not abort its stream.

## Proofs

Eight modules hold proofs, for every value of the constants that the named assumptions of the
modules allow. Every invariant that a passing run checks has its theorem. Each follows from an
inductive one; the types are part of it, and each action has a step of its own. The theorems speak of
`Spec`, and so hold of the specifications with fairness, which imply it.

- `RunLifecycleProofs`. `IInv` is inductive: it says where an executor stands and which execution is
  its current one (`ExecutorState`), what an operator holds (`OperatorState`), what the columns of
  an execution say of each other (`ExecutionRow`), and that a run has at most one execution that has
  not succeeded. Without the last one, two decisions on one run could each close it. From `IInv`
  follow ownership, approval before the call, bounded calls, settled success and the single open
  execution; `Accounts` is inductive relative to it and gives the billing and outcome rules.
  `Implementation` maps each step to a step of `RunContract` or a stutter: an execution that needs
  approval is a request, all statuses after the claim count as granted.
- `AdmissionProofs`, of `RuntimeControl`. `LeaseLimit` needs only that the script counts and adds in
  one step, with cardinality lemmas on the set of leases. `RunLimitHolds` needs `MaxRun < LeaseTtl`:
  then every run is covered by a lease that has not expired (`LeaseInv`), the hypothesis
  `RuntimeControlLongRun` breaks. `LeaksBounded` rests on `LeakSound`, which says for each request
  where its lease may be and that it is lost if it is not running. `RateHolds` rests on `RateSound`:
  a counter is not dropped before its minute is over (`Minute <= RateTtl`) and until then counts all
  it has admitted.
- `AdmissionProofs`, of `RunRequests`. `RequestsInv` has one part per await: what the guards have
  established of the caller (`OneCaller`), the workspace, the agent and the conversation, and what
  `seen` then must hold (`RightsSoFar`). Conversations never change their columns, which is what
  carries `ConversationSelected` over the awaits. `LeasesReleased` follows the stages alone.
- `AgentVersionsProofs`. The pointer needs that targets exist and that a row that is being retired
  is locked; `Healing` needs that activations that meet know it on both sides (`OverlapsKnown`) and
  that one that meets no other has found all PUBLISHED versions (`FoundAll`).
- `MembersProofs`. The heart is `Fresh`: an open transaction that will not fail decided on the row
  as it still is, and if it takes an Owner away another one is still there. A transaction that
  changes the row, or that counted the Owners too, makes it fail. `SendersPower` strengthens
  `InvitesWithinPower`: built-in roles never change (`BuiltInStays`), and only Owners, who have
  all permissions, give custom roles away.
- `SessionsProofs`. `ClaimedOnce` (a claimed row that has not been replaced belongs to one call)
  gives `Exchange`; `CookieStaysLive` needs `TakingTurns`: as long as calls take turns, the one under
  way is at a known stage between the cookie it carries and the one it sets. `WaitsForSomething`
  needs that a call keeps its kind until it is heard (`CallsKeepTheirKind`).
- `ProvidersProofs`, of `Connections`. A row always has the key its type needs (`HasKey`), although
  its other columns may not fit each other: every check that protects a call is repeated when the
  call is made (`CallSound`). `Referred` is the foreign key.
- `ProvidersProofs`, of `ProviderCalls`. While a stream is read, what was handed on followed by what
  the adapter holds back is what the vendor has sent (`AnswerSound`; the calls are `Numbered` as they
  came, so their order is told by their ids). Each event keeps these sums, whichever of the four
  adapters handles it (`ReplyKeeps`), and at the end nothing is held back: that is
  `OneWholeAnswer`. That the answer is of one attempt needs that a retry finds nothing handed on.
  `UsageSound` says what is known of the usage before the stream has ended, and excepts Anthropic,
  whose adapter reports it last. `NextRoundAccepted` needs `RequestSound`: the history of a run holds
  only arguments the executor has parsed, and a request that an adapter accepts it accepts with any
  such history (`StaysAccepted`). The clock is in none of this: steps depend on it only in being
  taken or not.
- `KnowledgeProofs`. `UploadSound` and `RemovalSound` say what an upload or a removal may still do,
  by its next await, whatever its calls have done; `FilesStay` needs that a file is deleted only for
  a document that is gone or by the upload that could not create it. `ReadyIsWhole` follows from
  `IndexSound`: chunks, where there are any, are those `chunkText()` cuts the text into
  (`ChunkText`), which cover it to the last character, or are as many as may be. `ProcessingEnds`
  needs that every way out of an upload that leaves PROCESSING behind has met a fault.
- `ConsoleProofs`, of `Console` and the three screens. `PageInv` of `ListPages`: the
  newest request of a query reads what the page was told by the time the server reads (`GetSound`),
  and only that request is heard, so `ReadsItsWrites` stays; a handler has heard only of changes
  that were made (`WorkSound`, `ToldSound`); every flag that is up belongs to a handler that will
  let go of it, whatever its reloads bring (`PageWaits`). `EditorInv` says of a save under way that
  nothing is said of it yet, and that between its two requests the metadata is stored as it was
  clicked (`SaveSound`). `PlayInv`: whatever is under way when a conversation is cleared has been
  aborted, so its end can add no other entry to the trace. Leaving a screen ends what it shows (`Leave`), and the steps of one screen leave the
  others alone.

Only model-checked:

- the liveness properties of `run_fair` and `providers`: temporal reasoning under fairness is out of
  the prover's reach;
- `WithinTime` and the types of `clock` and `limit` in `ProviderCalls`: the delay of a retry is
  `2 ^ attempt`, and no backend knows `^`; that it is a number would itself need induction;
- `InitialisedOnce` of `Sessions`, which says no more than the guard of one statement;
- the counterexamples.

## Not modelled, and why

- The list views, audit rows and usage summaries: nothing reads them back to decide anything.
  `create()` and `duplicate()` of an agent, `create()` of a tool, `create()` and `update()` of a
  knowledge base, workspaces and their settings: one statement each, which appear as the initial
  state or as the constants.
- The monthly budget, beyond the fact that a reply may exceed it: the code checks and spends apart,
  and says so.
- The HTTP call of a tool (`tool-executor.service.ts`) and the wording of the adapters' payloads:
  data without control a property could be about. Calls appear as their outcomes.
- The request rate limit is one script, and appears as a refusal that may come at any call.
- The console's dashboard, usage, audit, models and conversation lists, which show answers of the API;
  the dialog of prices on the models page is one update of a connection.
- Encryption, configuration, health checks and deployment files keep no state that changes at run
  time.

## Where it could go on

A composition of `RuntimeControl` and `RunRequests` in one state space, with the lease set of Redis
instead of `leased`; a refinement of `ModelReply` by `ProviderCalls`.
