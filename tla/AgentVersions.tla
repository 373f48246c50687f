--------------------------- MODULE AgentVersions ---------------------------
(***************************************************************************)
(* The versions of one agent and the tools they use (agents.service.ts,    *)
(* tools.service.ts).  Clients create drafts, publish, roll back, archive  *)
(* and remove the agent, and change or delete tools, at the same time.     *)
(* activateVersion is a transaction of three statements at READ COMMITTED: *)
(* its first statement sees the versions committed when it starts, waits   *)
(* for rows another transaction holds, and every row it writes is held     *)
(* until it commits.                                                       *)
(***************************************************************************)
EXTENDS Naturals, FiniteSets

CONSTANTS Clients,      \* requests in progress at once
          Tools,
          MaxVersions,  \* bound on the versions of the agent
          NoTool

ASSUME VersionConstants ==
    MaxVersions \in Nat \ {0} /\ NoTool \notin Tools

Versions == 1 .. MaxVersions
AgentStatus == {"DRAFT", "PUBLISHED", "ARCHIVED"}
VersionStatus == {"DRAFT", "PUBLISHED", "RETIRED"}

VARIABLES
    \* Agent
    status, published,   \* publishedVersionId, 0 for null
    removed,             \* is deletedAt set?
    \* AgentVersion, AgentVersionTool
    last,                \* versions 1 .. last exist
    vstatus, basedOn, uses,
    \* Tool, and ToolExecution as far as tools.service looks at it
    present, enabled,
    policy,              \* two contents a tool's definition goes back and forth between
    waiting,             \* tools with an execution that is WAITING_APPROVAL
    \* requests
    pc, target, wanted,
    seen,                \* had the agent a published version when it was found?
    tool, change,        \* the tool to change, and does its policy change?
    retiring,            \* versions the first statement found PUBLISHED
    holds,               \* version rows held by the open transaction
    \* not in the code
    overlap,             \* has the open activation met another one?
    doubtful             \* had the last activation that committed?

agentRow   == <<status, published, removed>>
versionRow == <<last, vstatus, basedOn, uses>>
toolRow    == <<present, enabled, policy, waiting>>
local      == <<target, wanted, seen, tool, change, retiring, holds, overlap>>
vars == <<agentRow, versionRow, toolRow, pc, local, doubtful>>

\* create() has returned: version 1 is a draft with some tools.
Init ==
    /\ status = "DRAFT" /\ published = 0 /\ removed = FALSE
    /\ last = 1
    /\ vstatus = [n \in Versions |-> "DRAFT"]
    /\ basedOn = [n \in Versions |-> 0]
    /\ \E ts \in SUBSET Tools : uses = [n \in Versions |-> IF n = 1 THEN ts ELSE {}]
    /\ present = Tools /\ enabled = Tools
    /\ policy = [t \in Tools |-> 0] /\ waiting = {}
    /\ pc = [c \in Clients |-> "idle"]
    /\ target = [c \in Clients |-> 0] /\ wanted = [c \in Clients |-> {}]
    /\ seen = [c \in Clients |-> FALSE]
    /\ tool = [c \in Clients |-> NoTool] /\ change = [c \in Clients |-> FALSE]
    /\ retiring = [c \in Clients |-> {}] /\ holds = [c \in Clients |-> {}]
    /\ overlap = [c \in Clients |-> FALSE] /\ doubtful = FALSE

At(c, here) == pc[c] = here
Goto(c, there) == pc' = [pc EXCEPT ![c] = there]
\* The request is answered, and its transaction over.
Return(c) ==
    /\ Goto(c, "idle")
    /\ target' = [target EXCEPT ![c] = 0] /\ wanted' = [wanted EXCEPT ![c] = {}]
    /\ seen' = [seen EXCEPT ![c] = FALSE]
    /\ tool' = [tool EXCEPT ![c] = NoTool] /\ change' = [change EXCEPT ![c] = FALSE]
    /\ retiring' = [retiring EXCEPT ![c] = {}] /\ holds' = [holds EXCEPT ![c] = {}]
    /\ overlap' = [overlap EXCEPT ![c] = FALSE]

Continue(c, there) == Goto(c, there) /\ UNCHANGED local

-----------------------------------------------------------------------------
(* Agents.                                                                 *)

\* findOwned opens every operation on an agent.
FindOwned(c) ==
    /\ At(c, "idle") /\ ~removed
    /\ \E there \in {"latest", "publish", "rollback", "status", "remove"} : Goto(c, there)
    /\ seen' = [seen EXCEPT ![c] = published # 0]
    /\ UNCHANGED <<agentRow, versionRow, toolRow, target, wanted, tool, change, retiring, holds,
                   overlap, doubtful>>

\* createVersion reads the latest version outside its transaction; the draft takes the
\* tools it is given, or else those of the latest.
Latest(c) ==
    /\ At(c, "latest") /\ last < MaxVersions /\ Goto(c, "validate")
    /\ target' = [target EXCEPT ![c] = last]
    /\ \E ts \in (SUBSET Tools) \cup {uses[last]} : wanted' = [wanted EXCEPT ![c] = ts]
    /\ UNCHANGED <<agentRow, versionRow, toolRow, seen, tool, change, retiring, holds, overlap,
                   doubtful>>

ValidateTools(c) ==
    /\ At(c, "validate")
    /\ IF wanted[c] \subseteq present \cap enabled THEN Continue(c, "insert") ELSE Return(c)
    /\ UNCHANGED <<agentRow, versionRow, toolRow, doubtful>>

\* The unique key on (agentId, version) refuses the second of two drafts, the foreign
\* key of the join table a tool that is gone.
Insert(c) ==
    /\ At(c, "insert") /\ Return(c)
    /\ LET n == target[c] + 1 IN
       \/ /\ last < n /\ wanted[c] \subseteq present
          /\ last' = n
          /\ vstatus' = [vstatus EXCEPT ![n] = "DRAFT"]
          /\ basedOn' = [basedOn EXCEPT ![n] = target[c]]
          /\ uses' = [uses EXCEPT ![n] = wanted[c]]
       \/ (last >= n \/ ~(wanted[c] \subseteq present)) /\ UNCHANGED versionRow
    /\ UNCHANGED <<agentRow, toolRow, doubtful>>

\* publish takes a version by its id or the latest, rollback one by its id; neither
\* looks at the status of the version.  An id that is not found is refused.
PickTarget(c) ==
    /\ pc[c] \in {"publish", "rollback"}
    /\ \/ /\ \E n \in 1 .. last : target' = [target EXCEPT ![c] = n]
          /\ Goto(c, "activate")
          /\ UNCHANGED <<wanted, seen, tool, change, retiring, holds, overlap>>
       \/ Return(c)
    /\ UNCHANGED <<agentRow, versionRow, toolRow, doubtful>>

\* activateVersion, first statement: what it finds ...
Activating == {c \in Clients : pc[c] \in {"retire", "mark", "point"}}

FindPublished(c) ==
    /\ At(c, "activate") /\ Goto(c, "retire")
    /\ retiring' = [retiring EXCEPT
           ![c] = {n \in 1 .. last : vstatus[n] = "PUBLISHED" /\ n # target[c]}]
    /\ overlap' = [d \in Clients |-> IF d = c THEN Activating # {}
                                     ELSE overlap[d] \/ d \in Activating]
    /\ UNCHANGED <<agentRow, versionRow, toolRow, target, wanted, seen, tool, change, holds,
                   doubtful>>

\* ... and what it writes, once it has waited for the rows that are held: those that
\* are still PUBLISHED.
Held(c) == UNION {holds[d] : d \in Clients \ {c}}

\* Mutant of Retire: the version published so far is left as it is.
RetireNone(c) ==
    /\ At(c, "retire") /\ retiring[c] \cap Held(c) = {} /\ Goto(c, "mark")
    /\ holds' = [holds EXCEPT ![c] = {}]
    /\ UNCHANGED <<agentRow, versionRow, toolRow, target, wanted, seen, tool, change, retiring,
                   overlap, doubtful>>

Retire(c) ==
    /\ At(c, "retire") /\ retiring[c] \cap Held(c) = {} /\ Goto(c, "mark")
    /\ holds' = [holds EXCEPT ![c] = {n \in retiring[c] : vstatus[n] = "PUBLISHED"}]
    /\ UNCHANGED <<agentRow, versionRow, toolRow, target, wanted, seen, tool, change, retiring,
                   overlap, doubtful>>

\* Second statement.
Mark(c) ==
    /\ At(c, "mark") /\ target[c] \notin Held(c) /\ Goto(c, "point")
    /\ holds' = [holds EXCEPT ![c] = @ \cup {target[c]}]
    /\ UNCHANGED <<agentRow, versionRow, toolRow, target, wanted, seen, tool, change, retiring,
                   overlap, doubtful>>

\* Mutant of Point: the other versions are retired last, without a look at the id.
PointThenRetire(c) ==
    /\ At(c, "point") /\ Return(c)
    /\ vstatus' = [n \in Versions |-> IF n \in holds[c] THEN "RETIRED" ELSE vstatus[n]]
    /\ published' = target[c] /\ status' = "PUBLISHED"
    /\ doubtful' = overlap[c]
    /\ UNCHANGED <<removed, last, basedOn, uses, toolRow>>

\* Third statement, and the commit.
Point(c) ==
    /\ At(c, "point") /\ Return(c)
    /\ vstatus' = [n \in Versions |-> IF n = target[c] THEN "PUBLISHED"
                                      ELSE IF n \in holds[c] THEN "RETIRED" ELSE vstatus[n]]
    /\ published' = target[c] /\ status' = "PUBLISHED"
    /\ doubtful' = overlap[c]
    /\ UNCHANGED <<removed, last, basedOn, uses, toolRow>>

\* A statement fails, or PostgreSQL resolves a deadlock: the transaction is rolled back.
Abort(c) ==
    /\ c \in Activating /\ Return(c)
    /\ UNCHANGED <<agentRow, versionRow, toolRow, doubtful>>

\* update: PUBLISHED is refused to an agent that had no published version when it was found.
SetStatus(c) ==
    /\ At(c, "status") /\ Return(c)
    /\ \E s \in AgentStatus :
         \/ (s = "PUBLISHED" => seen[c]) /\ status' = s
         \/ s = "PUBLISHED" /\ ~seen[c] /\ UNCHANGED status
    /\ UNCHANGED <<published, removed, versionRow, toolRow, doubtful>>

Remove(c) ==
    /\ At(c, "remove") /\ Return(c)
    /\ status' = "ARCHIVED" /\ removed' = TRUE
    /\ UNCHANGED <<published, versionRow, toolRow, doubtful>>

-----------------------------------------------------------------------------
(* Tools.                                                                  *)

FindTool(c) ==
    /\ At(c, "idle")
    /\ \E t \in present, b \in BOOLEAN, there \in {"pending", "used"} :
         /\ tool' = [tool EXCEPT ![c] = t] /\ change' = [change EXCEPT ![c] = b]
         /\ Goto(c, there)
    /\ UNCHANGED <<agentRow, versionRow, toolRow, target, wanted, seen, retiring, holds,
                   overlap, doubtful>>

\* update counts the approvals that are pending ...
CountPending(c) ==
    /\ At(c, "pending")
    /\ IF tool[c] \in waiting THEN Return(c)
       ELSE Continue(c, IF change[c] THEN "references" ELSE "write")
    /\ UNCHANGED <<agentRow, versionRow, toolRow, doubtful>>

\* ... and, if the policy changes, the versions that are no drafts ...
Referenced(t) == \E n \in 1 .. last : t \in uses[n] /\ vstatus[n] # "DRAFT"

CountReferences(c) ==
    /\ At(c, "references")
    /\ IF Referenced(tool[c]) THEN Return(c) ELSE Continue(c, "write")
    /\ UNCHANGED <<agentRow, versionRow, toolRow, doubtful>>

\* ... and then writes, wherever those counts stand by now.
WriteTool(c) ==
    /\ At(c, "write") /\ Return(c)
    /\ LET t == tool[c] IN
       \/ /\ t \in present
          /\ \E p \in 0 .. 1 :
                policy' = [policy EXCEPT ![t] = IF change[c] THEN p ELSE @]
          /\ \E on \in {enabled, enabled \cup {t}, enabled \ {t}} : enabled' = on
       \/ t \notin present /\ UNCHANGED <<policy, enabled>>
    /\ UNCHANGED <<agentRow, versionRow, present, waiting, doubtful>>

Used(t) == \E n \in 1 .. last : t \in uses[n]

CountUsed(c) ==
    /\ At(c, "used")
    /\ IF Used(tool[c]) THEN Return(c) ELSE Continue(c, "delete")
    /\ UNCHANGED <<agentRow, versionRow, toolRow, doubtful>>

\* Mutant of DeleteTool: the foreign key cascades.
DeleteUnchecked(c) ==
    /\ At(c, "delete") /\ Return(c)
    /\ present' = present \ {tool[c]}
    /\ UNCHANGED <<agentRow, versionRow, enabled, policy, waiting, doubtful>>

\* The foreign key of the join table refuses a tool that has come into use.
DeleteTool(c) ==
    /\ At(c, "delete") /\ Return(c)
    /\ present' = IF Used(tool[c]) THEN present ELSE present \ {tool[c]}
    /\ UNCHANGED <<agentRow, versionRow, enabled, policy, waiting, doubtful>>

-----------------------------------------------------------------------------
(* Runs: an execution asks for approval and is decided.  The run is on the *)
(* version that was the latest or the published one when it started.       *)
AskApproval(t) ==
    /\ Used(t) /\ waiting' = waiting \cup {t}
    /\ UNCHANGED <<agentRow, versionRow, present, enabled, policy, pc, local, doubtful>>

Decide(t) ==
    /\ t \in waiting /\ waiting' = waiting \ {t}
    /\ UNCHANGED <<agentRow, versionRow, present, enabled, policy, pc, local, doubtful>>

Next ==
    \/ \E c \in Clients :
          \/ FindOwned(c) \/ Latest(c) \/ ValidateTools(c) \/ Insert(c) \/ PickTarget(c)
          \/ FindPublished(c) \/ Retire(c) \/ Mark(c) \/ Point(c) \/ Abort(c)
          \/ SetStatus(c) \/ Remove(c)
          \/ FindTool(c) \/ CountPending(c) \/ CountReferences(c) \/ WriteTool(c)
          \/ CountUsed(c) \/ DeleteTool(c)
    \/ \E t \in Tools : AskApproval(t) \/ Decide(t)

Spec == Init /\ [][Next]_vars

-----------------------------------------------------------------------------
(* Properties.                                                             *)

ClientPc == {"idle", "latest", "validate", "insert", "publish", "rollback", "activate", "retire",
             "mark", "point", "status", "remove", "pending", "references", "write", "used", "delete"}

RowTypes ==
    /\ status \in AgentStatus /\ published \in 0 .. MaxVersions /\ removed \in BOOLEAN
    /\ last \in Versions /\ vstatus \in [Versions -> VersionStatus]
    /\ basedOn \in [Versions -> 0 .. MaxVersions] /\ uses \in [Versions -> SUBSET Tools]
    /\ present \subseteq Tools /\ enabled \subseteq Tools
    /\ policy \in [Tools -> 0 .. 1] /\ waiting \subseteq Tools
    /\ doubtful \in BOOLEAN

RequestTypes ==
    /\ pc \in [Clients -> ClientPc]
    /\ target \in [Clients -> 0 .. MaxVersions] /\ wanted \in [Clients -> SUBSET Tools]
    /\ seen \in [Clients -> BOOLEAN]
    /\ tool \in [Clients -> Tools \cup {NoTool}] /\ change \in [Clients -> BOOLEAN]
    /\ retiring \in [Clients -> SUBSET Versions] /\ holds \in [Clients -> SUBSET Versions]
    /\ overlap \in [Clients -> BOOLEAN]

TypeOK == RowTypes /\ RequestTypes

\* Whatever activations, status changes and drafts run at the same time, the version the
\* agent points to exists and is PUBLISHED, and an agent that is PUBLISHED has one.
PointerIsPublished ==
    /\ published # 0 => published <= last /\ vstatus[published] = "PUBLISHED"
    /\ status = "PUBLISHED" => published # 0

\* Two drafts made at the same time do not skip a number or lose an edit: each version
\* starts from the one before it.
EachVersionBuildsOnTheLast ==
    \A n \in Versions : IF n <= last THEN basedOn[n] = n - 1
                        ELSE vstatus[n] = "DRAFT" /\ uses[n] = {}

\* No version row is written by two open transactions.
RowsHeldOnce ==
    \A c, d \in Clients : c # d => holds[c] \cap holds[d] = {}

\* An activation that met no other leaves one PUBLISHED version, whatever was there before.
PublishedIsCurrent == \A n \in 1 .. last : vstatus[n] = "PUBLISHED" => n = published
HealedByNextPublish == ~doubtful => PublishedIsCurrent

\* A tool that some version uses is never deleted, nor one with a pending approval.
UsedToolsStay ==
    /\ \A t \in Tools : Used(t) => t \in present
    /\ waiting \subseteq present

\* The entity guide says that publishedVersionId points to the published version.
OnePublishedVersion == PublishedIsCurrent

\* The policy of a tool does not change while a version that is no draft uses it.
PolicyFrozen ==
    [][\A t \in Tools : Referenced(t) => policy'[t] = policy[t]]_vars
=============================================================================
