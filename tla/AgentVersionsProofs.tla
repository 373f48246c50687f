------------------------ MODULE AgentVersionsProofs ------------------------
(***************************************************************************)
(* Proofs about AgentVersions, for any number of clients, tools and        *)
(* versions.  Row locks order the activations; what an activation found    *)
(* PUBLISHED is complete only if it meets no other one.                    *)
(***************************************************************************)
EXTENDS AgentVersions, TLAPS

-----------------------------------------------------------------------------
(* The inductive invariant.                                                *)

\* A version that is to be activated, or that a draft starts from, exists; so do those an activation retires.
Targets ==
    \A c \in Clients :
      /\ target[c] <= last
      /\ pc[c] \in {"validate", "insert"} => target[c] < MaxVersions
      /\ retiring[c] \cup holds[c] \subseteq 1 .. last
      /\ c \in Activating \/ pc[c] = "activate" => target[c] # 0

\* An agent never loses its published version.
SeenStays == \A c \in Clients : seen[c] => published # 0

\* Activations that meet know it: overlap says so on both sides.
OverlapsKnown ==
    \A c, d \in Activating : c # d => overlap[c]

\* An activation that meets no other knows, and then holds, every other PUBLISHED version.
Others(c) == {n \in Versions : n <= last /\ vstatus[n] = "PUBLISHED" /\ n # target[c]}
FoundAll ==
    \A c \in Activating : ~overlap[c] =>
       Others(c) \subseteq (IF pc[c] = "retire" THEN retiring[c] ELSE holds[c])

\* An execution that waits for approval is of a tool in use.
WaitingIsUsed == \A t \in waiting : Used(t)

-----------------------------------------------------------------------------
\* The initial state satisfies the whole invariant.
LEMMA InitHolds ==
    Init => /\ TypeOK /\ Targets /\ SeenStays /\ PointerIsPublished
            /\ EachVersionBuildsOnTheLast /\ RowsHeldOnce /\ OverlapsKnown /\ FoundAll
            /\ HealedByNextPublish /\ UsedToolsStay /\ WaitingIsUsed
<1> SUFFICES ASSUME Init
             PROVE  /\ TypeOK /\ Targets /\ SeenStays /\ PointerIsPublished
                    /\ EachVersionBuildsOnTheLast /\ RowsHeldOnce /\ OverlapsKnown /\ FoundAll
                    /\ HealedByNextPublish /\ UsedToolsStay /\ WaitingIsUsed
    OBVIOUS
<1> USE VersionConstants DEF Init, Versions
<1>1. TypeOK
  <2>1. uses \in [Versions -> SUBSET Tools]
    <3>1. PICK ts \in SUBSET Tools : uses = [n \in Versions |-> IF n = 1 THEN ts ELSE {}]
        OBVIOUS
    <3> QED BY <3>1
  <2>4. vstatus \in [Versions -> VersionStatus] /\ basedOn \in [Versions -> 0 .. MaxVersions]
      BY DEF VersionStatus
  <2>5. policy \in [Tools -> 0 .. 1] /\ present \subseteq Tools /\ enabled \subseteq Tools
        /\ waiting \subseteq Tools
      OBVIOUS
  <2>6. status \in AgentStatus /\ published \in 0 .. MaxVersions /\ last \in Versions
      BY DEF AgentStatus
  <2>7. removed \in BOOLEAN /\ doubtful \in BOOLEAN
      BY Zenon
  <2> HIDE DEF Init
  <2>3. RowTypes
      BY <2>1, <2>4, <2>5, <2>6, <2>7 DEF RowTypes
  <2>2. RequestTypes
      BY DEF Init, RequestTypes, ClientPc
  <2> QED BY <2>2, <2>3 DEF TypeOK
<1>2. Targets /\ SeenStays /\ OverlapsKnown /\ FoundAll
    BY DEF Targets, SeenStays, OverlapsKnown, FoundAll, Activating
<1>3. PointerIsPublished /\ EachVersionBuildsOnTheLast /\ RowsHeldOnce
    BY DEF PointerIsPublished, EachVersionBuildsOnTheLast, RowsHeldOnce
<1>4. HealedByNextPublish
    BY DEF HealedByNextPublish, PublishedIsCurrent
<1>5. UsedToolsStay /\ WaitingIsUsed
    BY DEF UsedToolsStay, WaitingIsUsed, Used
<1> QED BY <1>1, <1>2, <1>3, <1>4, <1>5

\* A request that is answered, or goes on with nothing new, keeps its types.
LEMMA ReturnTypes ==
    ASSUME RequestTypes, NEW c \in Clients, Return(c) PROVE RequestTypes'
BY VersionConstants DEF RequestTypes, Return, Goto, ClientPc

LEMMA ContinueTypes ==
    ASSUME RequestTypes, NEW c \in Clients, NEW there \in ClientPc, Continue(c, there)
    PROVE  RequestTypes'
BY DEF RequestTypes, Continue, Goto, local

\* Every step keeps the types.
LEMMA TypeStep == TypeOK /\ Targets /\ [Next]_vars => TypeOK'
<1> SUFFICES ASSUME TypeOK, Targets, [Next]_vars PROVE TypeOK'
    OBVIOUS
<1> USE VersionConstants DEF Goto, At, Return, Continue, local, agentRow, versionRow, toolRow,
           TypeOK, RowTypes, Targets, Versions, AgentStatus, VersionStatus
<1>1. ASSUME NEW c \in Clients, FindOwned(c) PROVE TypeOK'
  <2>1. RowTypes'
      BY <1>1 DEF FindOwned
  <2>2. RequestTypes'
      BY <1>1 DEF FindOwned, RequestTypes, ClientPc
  <2> QED BY <2>1, <2>2
<1>2. ASSUME NEW c \in Clients, Latest(c) PROVE TypeOK'
  <2>1. RowTypes'
      BY <1>2 DEF Latest
  <2>2. last \in 0 .. MaxVersions /\ uses[last] \in SUBSET Tools
      OBVIOUS
  <2>3. target' \in [Clients -> 0 .. MaxVersions]
      BY <1>2, <2>2 DEF Latest, RequestTypes
  <2>5. PICK ts \in (SUBSET Tools) \cup {uses[last]} : wanted' = [wanted EXCEPT ![c] = ts]
      BY <1>2 DEF Latest
  <2>6. wanted' \in [Clients -> SUBSET Tools]
      BY <2>2, <2>5 DEF RequestTypes
  <2>4. pc' \in [Clients -> ClientPc]
      BY <1>2 DEF Latest, RequestTypes, ClientPc
  <2> QED BY <1>2, <2>1, <2>3, <2>4, <2>6 DEF Latest, RequestTypes
<1>3. ASSUME NEW c \in Clients, ValidateTools(c) PROVE TypeOK'
  <2>1. RowTypes'
      BY <1>3 DEF ValidateTools
  <2>2. RequestTypes'
      BY <1>3, ReturnTypes, ContinueTypes DEF ValidateTools, ClientPc
  <2> QED BY <2>1, <2>2
<1>4. ASSUME NEW c \in Clients, Insert(c) PROVE TypeOK'
  <2>1. RequestTypes'
      BY <1>4, ReturnTypes DEF Insert
  <2>2. CASE UNCHANGED versionRow
      BY <1>4, <2>1, <2>2 DEF Insert
  <2>3. CASE ~ UNCHANGED versionRow
    <3>1. last < target[c] + 1 /\ wanted[c] \in SUBSET Tools /\ target[c] \in 0 .. MaxVersions
          /\ target[c] + 1 \in Versions
        BY <1>4, <2>3 DEF Insert, RequestTypes
    <3>2. last' \in Versions /\ vstatus' \in [Versions -> VersionStatus]
        BY <1>4, <2>3, <3>1 DEF Insert
    <3>3. basedOn' \in [Versions -> 0 .. MaxVersions]
        BY <1>4, <2>3, <3>1 DEF Insert
    <3>4. uses' = [uses EXCEPT ![target[c] + 1] = wanted[c]]
        BY <1>4, <2>3 DEF Insert
    <3>5. uses' \in [Versions -> SUBSET Tools]
        BY <3>1, <3>4
    <3> QED BY <1>4, <2>1, <3>2, <3>3, <3>5 DEF Insert
  <2> QED BY <2>2, <2>3
<1>5. ASSUME NEW c \in Clients, PickTarget(c) PROVE TypeOK'
  <2>1. RowTypes'
      BY <1>5 DEF PickTarget
  <2>2. CASE Return(c)
      BY <2>1, <2>2, ReturnTypes
  <2>3. ASSUME NEW n \in 1 .. last, target' = [target EXCEPT ![c] = n], Goto(c, "activate"),
               UNCHANGED <<wanted, seen, tool, change, retiring, holds, overlap>>
        PROVE  RequestTypes'
    <3>1. n \in 0 .. MaxVersions
        OBVIOUS
    <3> QED BY <2>3, <3>1 DEF RequestTypes, ClientPc
  <2> QED BY <1>5, <2>1, <2>2, <2>3 DEF PickTarget
<1>6. ASSUME NEW c \in Clients, FindPublished(c) PROVE TypeOK'
  <2>1. RowTypes'
      BY <1>6 DEF FindPublished
  <2>2. retiring' \in [Clients -> SUBSET Versions]
      BY <1>6 DEF FindPublished, RequestTypes
  <2>3. overlap' \in [Clients -> BOOLEAN]
      BY <1>6, Zenon DEF FindPublished, RequestTypes
  <2>4. pc' \in [Clients -> ClientPc]
      BY <1>6 DEF FindPublished, RequestTypes, ClientPc
  <2> QED BY <1>6, <2>1, <2>2, <2>3, <2>4 DEF FindPublished, RequestTypes
<1>7. ASSUME NEW c \in Clients, Retire(c) PROVE TypeOK'
  <2>1. RowTypes'
      BY <1>7 DEF Retire
  <2>2. RequestTypes'
      BY <1>7 DEF Retire, RequestTypes, ClientPc
  <2> QED BY <2>1, <2>2
<1>8. ASSUME NEW c \in Clients, Mark(c) PROVE TypeOK'
  <2>1. RowTypes'
      BY <1>8 DEF Mark
  <2>2. target[c] \in Versions
      BY <1>8 DEF Mark, RequestTypes, Activating
  <2>3. holds' \in [Clients -> SUBSET Versions]
      BY <1>8, <2>2 DEF Mark, RequestTypes
  <2>4. pc' \in [Clients -> ClientPc]
      BY <1>8 DEF Mark, RequestTypes, ClientPc
  <2> QED BY <1>8, <2>1, <2>3, <2>4 DEF Mark, RequestTypes
<1>9. ASSUME NEW c \in Clients, Point(c) PROVE TypeOK'
  <2>1. target[c] \in 0 .. MaxVersions /\ overlap[c] \in BOOLEAN
      BY DEF RequestTypes
  <2>2. vstatus' \in [Versions -> VersionStatus]
      BY <1>9 DEF Point
  <2>3. RowTypes'
      BY <1>9, <2>1, <2>2, Zenon DEF Point
  <2>4. RequestTypes'
      BY <1>9, ReturnTypes DEF Point
  <2> QED BY <2>3, <2>4
<1>10. ASSUME NEW c \in Clients, Abort(c) PROVE TypeOK'
  <2>1. RowTypes'
      BY <1>10 DEF Abort
  <2>2. RequestTypes'
      BY <1>10, ReturnTypes DEF Abort
  <2> QED BY <2>1, <2>2
<1>11. ASSUME NEW c \in Clients, SetStatus(c) PROVE TypeOK'
  <2>1. RowTypes'
      BY <1>11 DEF SetStatus
  <2>2. RequestTypes'
      BY <1>11, ReturnTypes DEF SetStatus
  <2> QED BY <2>1, <2>2
<1>12. ASSUME NEW c \in Clients, Remove(c) PROVE TypeOK'
  <2>1. RowTypes'
      BY <1>12 DEF Remove
  <2>2. RequestTypes'
      BY <1>12, ReturnTypes DEF Remove
  <2> QED BY <2>1, <2>2
<1>13. ASSUME NEW c \in Clients, FindTool(c) PROVE TypeOK'
  <2>1. RowTypes'
      BY <1>13 DEF FindTool
  <2>2. RequestTypes'
      BY <1>13 DEF FindTool, RequestTypes, ClientPc
  <2> QED BY <2>1, <2>2
<1>14. ASSUME NEW c \in Clients, CountPending(c) PROVE TypeOK'
  <2>1. RowTypes'
      BY <1>14 DEF CountPending
  <2>2. RequestTypes'
      BY <1>14, ReturnTypes, ContinueTypes DEF CountPending, ClientPc
  <2> QED BY <2>1, <2>2
<1>15. ASSUME NEW c \in Clients, CountReferences(c) PROVE TypeOK'
  <2>1. RowTypes'
      BY <1>15 DEF CountReferences
  <2>2. RequestTypes'
      BY <1>15, ReturnTypes, ContinueTypes DEF CountReferences, ClientPc
  <2> QED BY <2>1, <2>2
<1>16. ASSUME NEW c \in Clients, WriteTool(c) PROVE TypeOK'
  <2>1. RowTypes'
      BY <1>16 DEF WriteTool
  <2>2. RequestTypes'
      BY <1>16, ReturnTypes DEF WriteTool
  <2> QED BY <2>1, <2>2
<1>17. ASSUME NEW c \in Clients, CountUsed(c) PROVE TypeOK'
  <2>1. RowTypes'
      BY <1>17 DEF CountUsed
  <2>2. RequestTypes'
      BY <1>17, ReturnTypes, ContinueTypes DEF CountUsed, ClientPc
  <2> QED BY <2>1, <2>2
<1>18. ASSUME NEW c \in Clients, DeleteTool(c) PROVE TypeOK'
  <2>1. RowTypes'
      BY <1>18 DEF DeleteTool
  <2>2. RequestTypes'
      BY <1>18, ReturnTypes DEF DeleteTool
  <2> QED BY <2>1, <2>2
<1>19. ASSUME NEW t \in Tools, AskApproval(t) PROVE TypeOK'
    BY <1>19 DEF AskApproval, RequestTypes
<1>20. ASSUME NEW t \in Tools, Decide(t) PROVE TypeOK'
    BY <1>20 DEF Decide, RequestTypes
<1>21. CASE UNCHANGED vars
    BY <1>21 DEF vars, RequestTypes
<1> QED BY <1>1, <1>2, <1>3, <1>4, <1>5, <1>6, <1>7, <1>8, <1>9, <1>10, <1>11, <1>12, <1>13, <1>14, <1>15, <1>16, <1>17, <1>18, <1>19, <1>20, <1>21 DEF Next

\* No version goes away, and a draft stays within the bound.
LEMMA TargetsStep == TypeOK /\ Targets /\ [Next]_vars => Targets'
<1> SUFFICES ASSUME TypeOK, Targets, [Next]_vars PROVE Targets'
    OBVIOUS
<1> USE VersionConstants DEF Goto, At, Return, Continue, local, agentRow, versionRow, toolRow,
           TypeOK, RowTypes, RequestTypes, Targets, Versions, Activating
<1>1. ASSUME NEW c \in Clients, FindOwned(c) PROVE Targets'
    BY <1>1 DEF FindOwned
<1>2. ASSUME NEW c \in Clients, Latest(c) PROVE Targets'
    BY <1>2 DEF Latest
<1>3. ASSUME NEW c \in Clients, ValidateTools(c) PROVE Targets'
  <2>1. CASE Return(c)
      BY <1>3, <2>1 DEF ValidateTools
  <2>2. CASE ~ Return(c)
      BY <1>3, <2>2 DEF ValidateTools, Continue
  <2> QED BY <2>1, <2>2
<1>4. ASSUME NEW c \in Clients, Insert(c) PROVE Targets'
    BY <1>4 DEF Insert
<1>5. ASSUME NEW c \in Clients, PickTarget(c) PROVE Targets'
  <2>1. CASE Return(c)
      BY <1>5, <2>1 DEF PickTarget
  <2>2. CASE ~ Return(c)
      BY <1>5, <2>2 DEF PickTarget, Continue
  <2> QED BY <2>1, <2>2
<1>6. ASSUME NEW c \in Clients, FindPublished(c) PROVE Targets'
    BY <1>6 DEF FindPublished
<1>7. ASSUME NEW c \in Clients, Retire(c) PROVE Targets'
    BY <1>7 DEF Retire
<1>8. ASSUME NEW c \in Clients, Mark(c) PROVE Targets'
    BY <1>8 DEF Mark
<1>9. ASSUME NEW c \in Clients, Point(c) PROVE Targets'
    BY <1>9 DEF Point
<1>10. ASSUME NEW c \in Clients, Abort(c) PROVE Targets'
    BY <1>10 DEF Abort
<1>11. ASSUME NEW c \in Clients, SetStatus(c) PROVE Targets'
    BY <1>11 DEF SetStatus
<1>12. ASSUME NEW c \in Clients, Remove(c) PROVE Targets'
    BY <1>12 DEF Remove
<1>13. ASSUME NEW c \in Clients, FindTool(c) PROVE Targets'
    BY <1>13 DEF FindTool
<1>14. ASSUME NEW c \in Clients, CountPending(c) PROVE Targets'
  <2>1. CASE Return(c)
      BY <1>14, <2>1 DEF CountPending
  <2>2. CASE ~ Return(c)
      BY <1>14, <2>2 DEF CountPending, Continue
  <2> QED BY <2>1, <2>2
<1>15. ASSUME NEW c \in Clients, CountReferences(c) PROVE Targets'
  <2>1. CASE Return(c)
      BY <1>15, <2>1 DEF CountReferences
  <2>2. CASE ~ Return(c)
      BY <1>15, <2>2 DEF CountReferences, Continue
  <2> QED BY <2>1, <2>2
<1>16. ASSUME NEW c \in Clients, WriteTool(c) PROVE Targets'
    BY <1>16 DEF WriteTool
<1>17. ASSUME NEW c \in Clients, CountUsed(c) PROVE Targets'
  <2>1. CASE Return(c)
      BY <1>17, <2>1 DEF CountUsed
  <2>2. CASE ~ Return(c)
      BY <1>17, <2>2 DEF CountUsed, Continue
  <2> QED BY <2>1, <2>2
<1>18. ASSUME NEW c \in Clients, DeleteTool(c) PROVE Targets'
    BY <1>18 DEF DeleteTool
<1>19. ASSUME NEW t \in Tools, AskApproval(t) PROVE Targets'
    BY <1>19 DEF AskApproval
<1>20. ASSUME NEW t \in Tools, Decide(t) PROVE Targets'
    BY <1>20 DEF Decide
<1>21. CASE UNCHANGED vars
    BY <1>21 DEF vars
<1> QED BY <1>1, <1>2, <1>3, <1>4, <1>5, <1>6, <1>7, <1>8, <1>9, <1>10, <1>11, <1>12, <1>13, <1>14, <1>15, <1>16, <1>17, <1>18, <1>19, <1>20, <1>21 DEF Next

\* Only an activation changes what is PUBLISHED, and it moves the pointer in the same commit.
LEMMA PointerStep == TypeOK /\ Targets /\ SeenStays /\ PointerIsPublished /\ [Next]_vars => (SeenStays /\ PointerIsPublished)'
<1> SUFFICES ASSUME TypeOK, Targets, SeenStays, PointerIsPublished, [Next]_vars PROVE (SeenStays /\ PointerIsPublished)'
    OBVIOUS
<1> USE VersionConstants DEF Goto, At, Return, Continue, local, agentRow, versionRow, toolRow,
           TypeOK, RowTypes, RequestTypes, Targets, Versions, Activating, AgentStatus, SeenStays, PointerIsPublished
<1>1. ASSUME NEW c \in Clients, FindOwned(c) PROVE (SeenStays /\ PointerIsPublished)'
    BY <1>1 DEF FindOwned
<1>2. ASSUME NEW c \in Clients, Latest(c) PROVE (SeenStays /\ PointerIsPublished)'
    BY <1>2 DEF Latest
<1>3. ASSUME NEW c \in Clients, ValidateTools(c) PROVE (SeenStays /\ PointerIsPublished)'
    BY <1>3 DEF ValidateTools
<1>4. ASSUME NEW c \in Clients, Insert(c) PROVE (SeenStays /\ PointerIsPublished)'
    BY <1>4 DEF Insert
<1>5. ASSUME NEW c \in Clients, PickTarget(c) PROVE (SeenStays /\ PointerIsPublished)'
    BY <1>5 DEF PickTarget
<1>6. ASSUME NEW c \in Clients, FindPublished(c) PROVE (SeenStays /\ PointerIsPublished)'
    BY <1>6 DEF FindPublished
<1>7. ASSUME NEW c \in Clients, Retire(c) PROVE (SeenStays /\ PointerIsPublished)'
    BY <1>7 DEF Retire
<1>8. ASSUME NEW c \in Clients, Mark(c) PROVE (SeenStays /\ PointerIsPublished)'
    BY <1>8 DEF Mark
<1>9. ASSUME NEW c \in Clients, Point(c) PROVE (SeenStays /\ PointerIsPublished)'
    BY <1>9 DEF Point
<1>10. ASSUME NEW c \in Clients, Abort(c) PROVE (SeenStays /\ PointerIsPublished)'
    BY <1>10 DEF Abort
<1>11. ASSUME NEW c \in Clients, SetStatus(c) PROVE (SeenStays /\ PointerIsPublished)'
    BY <1>11 DEF SetStatus
<1>12. ASSUME NEW c \in Clients, Remove(c) PROVE (SeenStays /\ PointerIsPublished)'
    BY <1>12 DEF Remove
<1>13. ASSUME NEW c \in Clients, FindTool(c) PROVE (SeenStays /\ PointerIsPublished)'
    BY <1>13 DEF FindTool
<1>14. ASSUME NEW c \in Clients, CountPending(c) PROVE (SeenStays /\ PointerIsPublished)'
    BY <1>14 DEF CountPending
<1>15. ASSUME NEW c \in Clients, CountReferences(c) PROVE (SeenStays /\ PointerIsPublished)'
    BY <1>15 DEF CountReferences
<1>16. ASSUME NEW c \in Clients, WriteTool(c) PROVE (SeenStays /\ PointerIsPublished)'
    BY <1>16 DEF WriteTool
<1>17. ASSUME NEW c \in Clients, CountUsed(c) PROVE (SeenStays /\ PointerIsPublished)'
    BY <1>17 DEF CountUsed
<1>18. ASSUME NEW c \in Clients, DeleteTool(c) PROVE (SeenStays /\ PointerIsPublished)'
    BY <1>18 DEF DeleteTool
<1>19. ASSUME NEW t \in Tools, AskApproval(t) PROVE (SeenStays /\ PointerIsPublished)'
    BY <1>19 DEF AskApproval
<1>20. ASSUME NEW t \in Tools, Decide(t) PROVE (SeenStays /\ PointerIsPublished)'
    BY <1>20 DEF Decide
<1>21. CASE UNCHANGED vars
    BY <1>21 DEF vars
<1> QED BY <1>1, <1>2, <1>3, <1>4, <1>5, <1>6, <1>7, <1>8, <1>9, <1>10, <1>11, <1>12, <1>13, <1>14, <1>15, <1>16, <1>17, <1>18, <1>19, <1>20, <1>21 DEF Next

\* The unique key lets only the draft of the latest version in.
LEMMA DraftsStep == TypeOK /\ Targets /\ EachVersionBuildsOnTheLast /\ [Next]_vars => EachVersionBuildsOnTheLast'
<1> SUFFICES ASSUME TypeOK, Targets, EachVersionBuildsOnTheLast, [Next]_vars PROVE EachVersionBuildsOnTheLast'
    OBVIOUS
<1> USE VersionConstants DEF Goto, At, Return, Continue, local, agentRow, versionRow, toolRow,
           TypeOK, RowTypes, RequestTypes, Targets, Versions, Activating, EachVersionBuildsOnTheLast
<1>1. ASSUME NEW c \in Clients, FindOwned(c) PROVE EachVersionBuildsOnTheLast'
    BY <1>1 DEF FindOwned
<1>2. ASSUME NEW c \in Clients, Latest(c) PROVE EachVersionBuildsOnTheLast'
    BY <1>2 DEF Latest
<1>3. ASSUME NEW c \in Clients, ValidateTools(c) PROVE EachVersionBuildsOnTheLast'
    BY <1>3 DEF ValidateTools
<1>4. ASSUME NEW c \in Clients, Insert(c) PROVE EachVersionBuildsOnTheLast'
    BY <1>4 DEF Insert
<1>5. ASSUME NEW c \in Clients, PickTarget(c) PROVE EachVersionBuildsOnTheLast'
    BY <1>5 DEF PickTarget
<1>6. ASSUME NEW c \in Clients, FindPublished(c) PROVE EachVersionBuildsOnTheLast'
    BY <1>6 DEF FindPublished
<1>7. ASSUME NEW c \in Clients, Retire(c) PROVE EachVersionBuildsOnTheLast'
    BY <1>7 DEF Retire
<1>8. ASSUME NEW c \in Clients, Mark(c) PROVE EachVersionBuildsOnTheLast'
    BY <1>8 DEF Mark
<1>9. ASSUME NEW c \in Clients, Point(c) PROVE EachVersionBuildsOnTheLast'
    BY <1>9 DEF Point
<1>10. ASSUME NEW c \in Clients, Abort(c) PROVE EachVersionBuildsOnTheLast'
    BY <1>10 DEF Abort
<1>11. ASSUME NEW c \in Clients, SetStatus(c) PROVE EachVersionBuildsOnTheLast'
    BY <1>11 DEF SetStatus
<1>12. ASSUME NEW c \in Clients, Remove(c) PROVE EachVersionBuildsOnTheLast'
    BY <1>12 DEF Remove
<1>13. ASSUME NEW c \in Clients, FindTool(c) PROVE EachVersionBuildsOnTheLast'
    BY <1>13 DEF FindTool
<1>14. ASSUME NEW c \in Clients, CountPending(c) PROVE EachVersionBuildsOnTheLast'
    BY <1>14 DEF CountPending
<1>15. ASSUME NEW c \in Clients, CountReferences(c) PROVE EachVersionBuildsOnTheLast'
    BY <1>15 DEF CountReferences
<1>16. ASSUME NEW c \in Clients, WriteTool(c) PROVE EachVersionBuildsOnTheLast'
    BY <1>16 DEF WriteTool
<1>17. ASSUME NEW c \in Clients, CountUsed(c) PROVE EachVersionBuildsOnTheLast'
    BY <1>17 DEF CountUsed
<1>18. ASSUME NEW c \in Clients, DeleteTool(c) PROVE EachVersionBuildsOnTheLast'
    BY <1>18 DEF DeleteTool
<1>19. ASSUME NEW t \in Tools, AskApproval(t) PROVE EachVersionBuildsOnTheLast'
    BY <1>19 DEF AskApproval
<1>20. ASSUME NEW t \in Tools, Decide(t) PROVE EachVersionBuildsOnTheLast'
    BY <1>20 DEF Decide
<1>21. CASE UNCHANGED vars
    BY <1>21 DEF vars
<1> QED BY <1>1, <1>2, <1>3, <1>4, <1>5, <1>6, <1>7, <1>8, <1>9, <1>10, <1>11, <1>12, <1>13, <1>14, <1>15, <1>16, <1>17, <1>18, <1>19, <1>20, <1>21 DEF Next

\* A row is written only when no other transaction holds it.
LEMMA LocksStep == TypeOK /\ RowsHeldOnce /\ [Next]_vars => RowsHeldOnce'
<1> SUFFICES ASSUME TypeOK, RowsHeldOnce, [Next]_vars PROVE RowsHeldOnce'
    OBVIOUS
<1> USE VersionConstants DEF Goto, At, Return, Continue, local, agentRow, versionRow, toolRow,
           TypeOK, RowTypes, RequestTypes, Held, RowsHeldOnce
<1>1. ASSUME NEW c \in Clients, FindOwned(c) PROVE RowsHeldOnce'
    BY <1>1 DEF FindOwned
<1>2. ASSUME NEW c \in Clients, Latest(c) PROVE RowsHeldOnce'
    BY <1>2 DEF Latest
<1>3. ASSUME NEW c \in Clients, ValidateTools(c) PROVE RowsHeldOnce'
    BY <1>3 DEF ValidateTools
<1>4. ASSUME NEW c \in Clients, Insert(c) PROVE RowsHeldOnce'
    BY <1>4 DEF Insert
<1>5. ASSUME NEW c \in Clients, PickTarget(c) PROVE RowsHeldOnce'
    BY <1>5 DEF PickTarget
<1>6. ASSUME NEW c \in Clients, FindPublished(c) PROVE RowsHeldOnce'
    BY <1>6 DEF FindPublished
<1>7. ASSUME NEW c \in Clients, Retire(c) PROVE RowsHeldOnce'
    BY <1>7 DEF Retire
<1>8. ASSUME NEW c \in Clients, Mark(c) PROVE RowsHeldOnce'
    BY <1>8 DEF Mark
<1>9. ASSUME NEW c \in Clients, Point(c) PROVE RowsHeldOnce'
    BY <1>9 DEF Point
<1>10. ASSUME NEW c \in Clients, Abort(c) PROVE RowsHeldOnce'
    BY <1>10 DEF Abort
<1>11. ASSUME NEW c \in Clients, SetStatus(c) PROVE RowsHeldOnce'
    BY <1>11 DEF SetStatus
<1>12. ASSUME NEW c \in Clients, Remove(c) PROVE RowsHeldOnce'
    BY <1>12 DEF Remove
<1>13. ASSUME NEW c \in Clients, FindTool(c) PROVE RowsHeldOnce'
    BY <1>13 DEF FindTool
<1>14. ASSUME NEW c \in Clients, CountPending(c) PROVE RowsHeldOnce'
    BY <1>14 DEF CountPending
<1>15. ASSUME NEW c \in Clients, CountReferences(c) PROVE RowsHeldOnce'
    BY <1>15 DEF CountReferences
<1>16. ASSUME NEW c \in Clients, WriteTool(c) PROVE RowsHeldOnce'
    BY <1>16 DEF WriteTool
<1>17. ASSUME NEW c \in Clients, CountUsed(c) PROVE RowsHeldOnce'
    BY <1>17 DEF CountUsed
<1>18. ASSUME NEW c \in Clients, DeleteTool(c) PROVE RowsHeldOnce'
    BY <1>18 DEF DeleteTool
<1>19. ASSUME NEW t \in Tools, AskApproval(t) PROVE RowsHeldOnce'
    BY <1>19 DEF AskApproval
<1>20. ASSUME NEW t \in Tools, Decide(t) PROVE RowsHeldOnce'
    BY <1>20 DEF Decide
<1>21. CASE UNCHANGED vars
    BY <1>21 DEF vars
<1> QED BY <1>1, <1>2, <1>3, <1>4, <1>5, <1>6, <1>7, <1>8, <1>9, <1>10, <1>11, <1>12, <1>13, <1>14, <1>15, <1>16, <1>17, <1>18, <1>19, <1>20, <1>21 DEF Next

\* Who starts an activation while others are open tells them, and itself.
LEMMA OverlapsStep == TypeOK /\ OverlapsKnown /\ [Next]_vars => OverlapsKnown'
<1> SUFFICES ASSUME TypeOK, OverlapsKnown, [Next]_vars PROVE OverlapsKnown'
    OBVIOUS
<1> USE VersionConstants DEF Goto, At, Return, Continue, local, agentRow, versionRow, toolRow,
           TypeOK, RowTypes, RequestTypes, Activating, OverlapsKnown
<1>1. ASSUME NEW c \in Clients, FindOwned(c) PROVE OverlapsKnown'
    BY <1>1 DEF FindOwned
<1>2. ASSUME NEW c \in Clients, Latest(c) PROVE OverlapsKnown'
    BY <1>2 DEF Latest
<1>3. ASSUME NEW c \in Clients, ValidateTools(c) PROVE OverlapsKnown'
    BY <1>3 DEF ValidateTools
<1>4. ASSUME NEW c \in Clients, Insert(c) PROVE OverlapsKnown'
    BY <1>4 DEF Insert
<1>5. ASSUME NEW c \in Clients, PickTarget(c) PROVE OverlapsKnown'
    BY <1>5 DEF PickTarget
<1>6. ASSUME NEW c \in Clients, FindPublished(c) PROVE OverlapsKnown'
    BY <1>6 DEF FindPublished
<1>7. ASSUME NEW c \in Clients, Retire(c) PROVE OverlapsKnown'
    BY <1>7 DEF Retire
<1>8. ASSUME NEW c \in Clients, Mark(c) PROVE OverlapsKnown'
    BY <1>8 DEF Mark
<1>9. ASSUME NEW c \in Clients, Point(c) PROVE OverlapsKnown'
    BY <1>9 DEF Point
<1>10. ASSUME NEW c \in Clients, Abort(c) PROVE OverlapsKnown'
    BY <1>10 DEF Abort
<1>11. ASSUME NEW c \in Clients, SetStatus(c) PROVE OverlapsKnown'
    BY <1>11 DEF SetStatus
<1>12. ASSUME NEW c \in Clients, Remove(c) PROVE OverlapsKnown'
    BY <1>12 DEF Remove
<1>13. ASSUME NEW c \in Clients, FindTool(c) PROVE OverlapsKnown'
    BY <1>13 DEF FindTool
<1>14. ASSUME NEW c \in Clients, CountPending(c) PROVE OverlapsKnown'
    BY <1>14 DEF CountPending
<1>15. ASSUME NEW c \in Clients, CountReferences(c) PROVE OverlapsKnown'
    BY <1>15 DEF CountReferences
<1>16. ASSUME NEW c \in Clients, WriteTool(c) PROVE OverlapsKnown'
    BY <1>16 DEF WriteTool
<1>17. ASSUME NEW c \in Clients, CountUsed(c) PROVE OverlapsKnown'
    BY <1>17 DEF CountUsed
<1>18. ASSUME NEW c \in Clients, DeleteTool(c) PROVE OverlapsKnown'
    BY <1>18 DEF DeleteTool
<1>19. ASSUME NEW t \in Tools, AskApproval(t) PROVE OverlapsKnown'
    BY <1>19 DEF AskApproval
<1>20. ASSUME NEW t \in Tools, Decide(t) PROVE OverlapsKnown'
    BY <1>20 DEF Decide
<1>21. CASE UNCHANGED vars
    BY <1>21 DEF vars
<1> QED BY <1>1, <1>2, <1>3, <1>4, <1>5, <1>6, <1>7, <1>8, <1>9, <1>10, <1>11, <1>12, <1>13, <1>14, <1>15, <1>16, <1>17, <1>18, <1>19, <1>20, <1>21 DEF Next

\* Only another activation makes a version PUBLISHED, and it would have been met.
LEMMA FoundStep == TypeOK /\ Targets /\ OverlapsKnown /\ FoundAll /\ [Next]_vars => FoundAll'
<1> SUFFICES ASSUME TypeOK, Targets, OverlapsKnown, FoundAll, [Next]_vars PROVE FoundAll'
    OBVIOUS
<1> USE VersionConstants DEF Goto, At, Return, Continue, local, agentRow, versionRow, toolRow,
           TypeOK, RowTypes, RequestTypes, Targets, Versions, Activating, OverlapsKnown, Others, FoundAll
<1>1. ASSUME NEW c \in Clients, FindOwned(c) PROVE FoundAll'
    BY <1>1 DEF FindOwned
<1>2. ASSUME NEW c \in Clients, Latest(c) PROVE FoundAll'
    BY <1>2 DEF Latest
<1>3. ASSUME NEW c \in Clients, ValidateTools(c) PROVE FoundAll'
  <2>1. CASE Return(c)
      BY <1>3, <2>1 DEF ValidateTools
  <2>2. CASE Continue(c, "insert")
    <3>1. /\ pc' = [pc EXCEPT ![c] = "insert"] /\ pc[c] = "validate"
          /\ UNCHANGED <<last, vstatus, target, retiring, holds, overlap>>
        BY <1>3, <2>2 DEF ValidateTools
    <3> HIDE DEF Goto, Return, Continue
    <3> QED BY <3>1
  <2> QED BY <1>3, <2>1, <2>2 DEF ValidateTools
<1>4. ASSUME NEW c \in Clients, Insert(c) PROVE FoundAll'
    BY <1>4 DEF Insert
<1>5. ASSUME NEW c \in Clients, PickTarget(c) PROVE FoundAll'
  <2>1. CASE Return(c)
      BY <1>5, <2>1 DEF PickTarget
  <2>2. CASE ~ Return(c)
      BY <1>5, <2>2 DEF PickTarget, Continue
  <2> QED BY <2>1, <2>2
<1>6. ASSUME NEW c \in Clients, FindPublished(c) PROVE FoundAll'
    BY <1>6 DEF FindPublished
<1>7. ASSUME NEW c \in Clients, Retire(c) PROVE FoundAll'
    BY <1>7 DEF Retire
<1>8. ASSUME NEW c \in Clients, Mark(c) PROVE FoundAll'
    BY <1>8 DEF Mark
<1>9. ASSUME NEW c \in Clients, Point(c) PROVE FoundAll'
    BY <1>9 DEF Point
<1>10. ASSUME NEW c \in Clients, Abort(c) PROVE FoundAll'
    BY <1>10 DEF Abort
<1>11. ASSUME NEW c \in Clients, SetStatus(c) PROVE FoundAll'
    BY <1>11 DEF SetStatus
<1>12. ASSUME NEW c \in Clients, Remove(c) PROVE FoundAll'
    BY <1>12 DEF Remove
<1>13. ASSUME NEW c \in Clients, FindTool(c) PROVE FoundAll'
    BY <1>13 DEF FindTool
<1>14. ASSUME NEW c \in Clients, CountPending(c) PROVE FoundAll'
  <2>1. CASE Return(c)
      BY <1>14, <2>1 DEF CountPending
  <2>2. CASE ~ Return(c)
      BY <1>14, <2>2 DEF CountPending, Continue
  <2> QED BY <2>1, <2>2
<1>15. ASSUME NEW c \in Clients, CountReferences(c) PROVE FoundAll'
  <2>1. CASE Return(c)
      BY <1>15, <2>1 DEF CountReferences
  <2>2. CASE ~ Return(c)
      BY <1>15, <2>2 DEF CountReferences, Continue
  <2> QED BY <2>1, <2>2
<1>16. ASSUME NEW c \in Clients, WriteTool(c) PROVE FoundAll'
    BY <1>16 DEF WriteTool
<1>17. ASSUME NEW c \in Clients, CountUsed(c) PROVE FoundAll'
  <2>1. CASE Return(c)
      BY <1>17, <2>1 DEF CountUsed
  <2>2. CASE ~ Return(c)
      BY <1>17, <2>2 DEF CountUsed, Continue
  <2> QED BY <2>1, <2>2
<1>18. ASSUME NEW c \in Clients, DeleteTool(c) PROVE FoundAll'
    BY <1>18 DEF DeleteTool
<1>19. ASSUME NEW t \in Tools, AskApproval(t) PROVE FoundAll'
    BY <1>19 DEF AskApproval
<1>20. ASSUME NEW t \in Tools, Decide(t) PROVE FoundAll'
    BY <1>20 DEF Decide
<1>21. CASE UNCHANGED vars
    BY <1>21 DEF vars
<1> QED BY <1>1, <1>2, <1>3, <1>4, <1>5, <1>6, <1>7, <1>8, <1>9, <1>10, <1>11, <1>12, <1>13, <1>14, <1>15, <1>16, <1>17, <1>18, <1>19, <1>20, <1>21 DEF Next

\* An activation that met no other retires every other PUBLISHED version.
LEMMA HealedStep == TypeOK /\ Targets /\ FoundAll /\ HealedByNextPublish /\ [Next]_vars => HealedByNextPublish'
<1> SUFFICES ASSUME TypeOK, Targets, FoundAll, HealedByNextPublish, [Next]_vars PROVE HealedByNextPublish'
    OBVIOUS
<1> USE VersionConstants DEF Goto, At, Return, Continue, local, agentRow, versionRow, toolRow,
           TypeOK, RowTypes, RequestTypes, Targets, Versions, HealedByNextPublish, PublishedIsCurrent
<1>1. ASSUME NEW c \in Clients, FindOwned(c) PROVE HealedByNextPublish'
    BY <1>1 DEF FindOwned
<1>2. ASSUME NEW c \in Clients, Latest(c) PROVE HealedByNextPublish'
    BY <1>2 DEF Latest
<1>3. ASSUME NEW c \in Clients, ValidateTools(c) PROVE HealedByNextPublish'
    BY <1>3 DEF ValidateTools
<1>4. ASSUME NEW c \in Clients, Insert(c) PROVE HealedByNextPublish'
    BY <1>4 DEF Insert
<1>5. ASSUME NEW c \in Clients, PickTarget(c) PROVE HealedByNextPublish'
    BY <1>5 DEF PickTarget
<1>6. ASSUME NEW c \in Clients, FindPublished(c) PROVE HealedByNextPublish'
    BY <1>6 DEF FindPublished
<1>7. ASSUME NEW c \in Clients, Retire(c) PROVE HealedByNextPublish'
    BY <1>7 DEF Retire
<1>8. ASSUME NEW c \in Clients, Mark(c) PROVE HealedByNextPublish'
    BY <1>8 DEF Mark
<1>9. ASSUME NEW c \in Clients, Point(c) PROVE HealedByNextPublish'
  <2>1. ASSUME ~ doubtful', NEW n \in Versions, n <= last, vstatus'[n] = "PUBLISHED",
               n # target[c]
        PROVE  FALSE
    <3>1. c \in Activating /\ pc[c] = "point" /\ ~ overlap[c]
        BY <1>9, <2>1 DEF Point, Activating
    <3>2. n \notin holds[c] /\ vstatus[n] = "PUBLISHED"
        BY <1>9, <2>1 DEF Point
    <3> QED BY <2>1, <3>1, <3>2 DEF FoundAll, Others
  <2>2. last' = last /\ published' = target[c]
      BY <1>9 DEF Point
  <2>3. \A n \in 1 .. last : n \in Versions /\ n <= last
      OBVIOUS
  <2> QED BY <2>1, <2>2, <2>3
<1>10. ASSUME NEW c \in Clients, Abort(c) PROVE HealedByNextPublish'
    BY <1>10 DEF Abort
<1>11. ASSUME NEW c \in Clients, SetStatus(c) PROVE HealedByNextPublish'
    BY <1>11 DEF SetStatus
<1>12. ASSUME NEW c \in Clients, Remove(c) PROVE HealedByNextPublish'
    BY <1>12 DEF Remove
<1>13. ASSUME NEW c \in Clients, FindTool(c) PROVE HealedByNextPublish'
    BY <1>13 DEF FindTool
<1>14. ASSUME NEW c \in Clients, CountPending(c) PROVE HealedByNextPublish'
    BY <1>14 DEF CountPending
<1>15. ASSUME NEW c \in Clients, CountReferences(c) PROVE HealedByNextPublish'
    BY <1>15 DEF CountReferences
<1>16. ASSUME NEW c \in Clients, WriteTool(c) PROVE HealedByNextPublish'
    BY <1>16 DEF WriteTool
<1>17. ASSUME NEW c \in Clients, CountUsed(c) PROVE HealedByNextPublish'
    BY <1>17 DEF CountUsed
<1>18. ASSUME NEW c \in Clients, DeleteTool(c) PROVE HealedByNextPublish'
    BY <1>18 DEF DeleteTool
<1>19. ASSUME NEW t \in Tools, AskApproval(t) PROVE HealedByNextPublish'
    BY <1>19 DEF AskApproval
<1>20. ASSUME NEW t \in Tools, Decide(t) PROVE HealedByNextPublish'
    BY <1>20 DEF Decide
<1>21. CASE UNCHANGED vars
    BY <1>21 DEF vars
<1> QED BY <1>1, <1>2, <1>3, <1>4, <1>5, <1>6, <1>7, <1>8, <1>9, <1>10, <1>11, <1>12, <1>13, <1>14, <1>15, <1>16, <1>17, <1>18, <1>19, <1>20, <1>21 DEF Next

\* Versions keep their tools, and the foreign key keeps those.
LEMMA ToolsStep == TypeOK /\ Targets /\ UsedToolsStay /\ WaitingIsUsed /\ [Next]_vars => (UsedToolsStay /\ WaitingIsUsed)'
<1> SUFFICES ASSUME TypeOK, Targets, UsedToolsStay, WaitingIsUsed, [Next]_vars PROVE (UsedToolsStay /\ WaitingIsUsed)'
    OBVIOUS
<1> USE VersionConstants DEF Goto, At, Return, Continue, local, agentRow, versionRow, toolRow,
           TypeOK, RowTypes, RequestTypes, Targets, Versions, Used, UsedToolsStay, WaitingIsUsed
<1>1. ASSUME NEW c \in Clients, FindOwned(c) PROVE (UsedToolsStay /\ WaitingIsUsed)'
    BY <1>1 DEF FindOwned
<1>2. ASSUME NEW c \in Clients, Latest(c) PROVE (UsedToolsStay /\ WaitingIsUsed)'
    BY <1>2 DEF Latest
<1>3. ASSUME NEW c \in Clients, ValidateTools(c) PROVE (UsedToolsStay /\ WaitingIsUsed)'
    BY <1>3 DEF ValidateTools
<1>4. ASSUME NEW c \in Clients, Insert(c) PROVE (UsedToolsStay /\ WaitingIsUsed)'
  <2>1. CASE UNCHANGED versionRow
      BY <1>4, <2>1 DEF Insert
  <2>2. CASE ~ UNCHANGED versionRow
    <3>1. last < last' /\ last' = target[c] + 1 /\ last' \in Versions /\ wanted[c] \subseteq present
          /\ uses' = [uses EXCEPT ![last'] = wanted[c]] /\ UNCHANGED toolRow
        BY <1>4, <2>2 DEF Insert
    <3>2. \A n \in 1 .. last : n \in 1 .. last' /\ n \in Versions /\ uses'[n] = uses[n]
        BY <3>1
    <3>3. \A n \in 1 .. last' : n \in Versions /\ (uses'[n] = wanted[c] \/ uses'[n] = uses[n])
        BY <3>1
    <3>4. \A n \in 1 .. last' : n = last' \/ n \in 1 .. last
        BY <3>1
    <3> HIDE DEF Return, Goto
    <3>5. \A t \in Tools : Used(t)' => t \in present'
        BY <3>1, <3>2, <3>3, <3>4
    <3>6. \A t \in waiting : Used(t)'
        BY <3>2
    <3> QED BY <3>1, <3>5, <3>6
  <2> QED BY <2>1, <2>2
<1>5. ASSUME NEW c \in Clients, PickTarget(c) PROVE (UsedToolsStay /\ WaitingIsUsed)'
    BY <1>5 DEF PickTarget
<1>6. ASSUME NEW c \in Clients, FindPublished(c) PROVE (UsedToolsStay /\ WaitingIsUsed)'
    BY <1>6 DEF FindPublished
<1>7. ASSUME NEW c \in Clients, Retire(c) PROVE (UsedToolsStay /\ WaitingIsUsed)'
    BY <1>7 DEF Retire
<1>8. ASSUME NEW c \in Clients, Mark(c) PROVE (UsedToolsStay /\ WaitingIsUsed)'
    BY <1>8 DEF Mark
<1>9. ASSUME NEW c \in Clients, Point(c) PROVE (UsedToolsStay /\ WaitingIsUsed)'
    BY <1>9 DEF Point
<1>10. ASSUME NEW c \in Clients, Abort(c) PROVE (UsedToolsStay /\ WaitingIsUsed)'
    BY <1>10 DEF Abort
<1>11. ASSUME NEW c \in Clients, SetStatus(c) PROVE (UsedToolsStay /\ WaitingIsUsed)'
    BY <1>11 DEF SetStatus
<1>12. ASSUME NEW c \in Clients, Remove(c) PROVE (UsedToolsStay /\ WaitingIsUsed)'
    BY <1>12 DEF Remove
<1>13. ASSUME NEW c \in Clients, FindTool(c) PROVE (UsedToolsStay /\ WaitingIsUsed)'
    BY <1>13 DEF FindTool
<1>14. ASSUME NEW c \in Clients, CountPending(c) PROVE (UsedToolsStay /\ WaitingIsUsed)'
    BY <1>14 DEF CountPending
<1>15. ASSUME NEW c \in Clients, CountReferences(c) PROVE (UsedToolsStay /\ WaitingIsUsed)'
    BY <1>15 DEF CountReferences
<1>16. ASSUME NEW c \in Clients, WriteTool(c) PROVE (UsedToolsStay /\ WaitingIsUsed)'
    BY <1>16 DEF WriteTool
<1>17. ASSUME NEW c \in Clients, CountUsed(c) PROVE (UsedToolsStay /\ WaitingIsUsed)'
    BY <1>17 DEF CountUsed
<1>18. ASSUME NEW c \in Clients, DeleteTool(c) PROVE (UsedToolsStay /\ WaitingIsUsed)'
  <2>1. UNCHANGED <<uses, last, waiting>> /\ present' \subseteq present
      BY <1>18 DEF DeleteTool
  <2>2. \A t \in present : Used(t) => t \in present'
      BY <1>18 DEF DeleteTool
  <2> QED BY <2>1, <2>2
<1>19. ASSUME NEW t \in Tools, AskApproval(t) PROVE (UsedToolsStay /\ WaitingIsUsed)'
    BY <1>19 DEF AskApproval
<1>20. ASSUME NEW t \in Tools, Decide(t) PROVE (UsedToolsStay /\ WaitingIsUsed)'
    BY <1>20 DEF Decide
<1>21. CASE UNCHANGED vars
    BY <1>21 DEF vars
<1> QED BY <1>1, <1>2, <1>3, <1>4, <1>5, <1>6, <1>7, <1>8, <1>9, <1>10, <1>11, <1>12, <1>13, <1>14, <1>15, <1>16, <1>17, <1>18, <1>19, <1>20, <1>21 DEF Next

-----------------------------------------------------------------------------
\* However drafts, activations, status changes and tool changes of the clients interleave,
\* every variable keeps its type (agents.service.ts, tools.service.ts).
THEOREM Typing == Spec => []TypeOK
BY InitHolds, TypeStep, TargetsStep, PTL DEF Spec

\* The version that an activation, or a draft, starts from exists.
LEMMA TargetsHold == Spec => []Targets
BY InitHolds, TypeStep, TargetsStep, PTL DEF Spec

\* However many activations overlap, the version the agent points to is PUBLISHED, and a
\* PUBLISHED agent points to one (activateVersion, update).
THEOREM PointerHolds == Spec => []PointerIsPublished
BY InitHolds, Typing, TargetsHold, PointerStep, PTL DEF Spec

\* Versions are numbered without gaps, and each starts from the one before it
\* (createVersion, whose first read is outside its transaction).
THEOREM DraftsInSequence == Spec => []EachVersionBuildsOnTheLast
BY InitHolds, Typing, TargetsHold, DraftsStep, PTL DEF Spec

\* Open activations never hold the same version row (activateVersion).
THEOREM LocksExclude == Spec => []RowsHeldOnce
BY InitHolds, Typing, LocksStep, PTL DEF Spec

\* An activation that met no other leaves the version it published as the only PUBLISHED
\* one, even if an earlier overlap had left several (activateVersion).
THEOREM Healing == Spec => []HealedByNextPublish
BY InitHolds, Typing, TargetsHold, OverlapsStep, FoundStep, HealedStep, PTL DEF Spec

\* No tool that a version uses, or whose approval is pending, is ever deleted (remove of
\* tools.service.ts, whose count may be stale when it deletes).
THEOREM ToolsStay == Spec => []UsedToolsStay
BY InitHolds, Typing, TargetsHold, ToolsStep, PTL DEF Spec
=============================================================================
