---------------------------- MODULE AgentEditor ----------------------------
(***************************************************************************)
(* The console's agent editor (components/agent-editor.tsx): one form over *)
(* an agent's metadata and the settings of a version.  Saving an agent     *)
(* that exists takes two requests, one for each; publishing names the      *)
(* version that was the latest when the page loaded the agent.  A form is  *)
(* a record of one field of each kind: what is always sent and may not be  *)
(* blank, what is always sent, and what is not sent when it is blank.  No  *)
(* other tab edits the agent meanwhile.                                    *)
(***************************************************************************)
EXTENDS Naturals, Sequences

CONSTANTS Texts,       \* what a field may be filled in with
          Connections, \* provider connections; a model is named by its own
          Blank,
          New,         \* the agent of a form that is not saved yet
          Missing,     \* no agent, no work, nothing loaded
          MaxEdits     \* bounds edits and clicks on one page

VARIABLES
    agent,       \* the agent shown: Missing on another screen, New, or the
                 \* number of the version that was the latest when it was loaded
    form, section,
    models,      \* the connection whose models are loaded
    editing,     \* the handlers under way: save, publish, rollback, remove
    problem,     \* whether an error is shown
    said,        \* not in the code: the form the last toast said to be saved
    meta, versions, active,  \* the server's Agent, its versions, the active one
    edits

editorVars == <<agent, form, section, models, editing, problem, said, meta, versions, active, edits>>

Meta == {"name", "description"}
Config == {"connection", "model", "tools", "schema"}
OmittedIfBlank == {"description", "schema"}
Part(f, fields) == [x \in fields |-> f[x]]
Handlers == {"save", "publish", "rollback", "remove"}

ASSUME EditorConstants == MaxEdits \in Nat /\ {Missing, New} \cap Nat = {} /\ Missing # New

emptyForm == [name |-> Blank, description |-> Blank, connection |-> Blank, model |-> Blank,
              tools |-> Blank, schema |-> Blank]
\* The form of an agent is its metadata and its latest version.
formFromAgent(m, v) == [x \in Meta \cup Config |-> IF x \in Meta THEN m[x] ELSE v[x]]

Idle(a, f) ==
    /\ agent = a /\ form = f /\ section = "identity" /\ models = Missing
    /\ editing = [h \in Handlers |-> Missing] /\ problem = FALSE /\ said = Missing /\ edits = 0
NoEditor ==
    Idle(Missing, emptyForm) /\ meta = Missing /\ versions = <<>> /\ active = 0
Opened(a, f) ==
    /\ agent' = a /\ form' = f /\ section' = "identity" /\ models' = Missing
    /\ editing' = [h \in Handlers |-> Missing] /\ problem' = FALSE /\ said' = Missing /\ edits' = 0

\* /agents/new, and /agents/[id] with an agent of one version.
NewAgent == Opened(New, emptyForm) /\ meta' = Missing /\ versions' = <<>> /\ active' = 0
EditAgent ==
    \E t \in Texts, c \in Connections, s \in Texts \cup {Blank} :
        LET m == [name |-> t, description |-> s]
            v == [connection |-> c, model |-> c, tools |-> Blank, schema |-> s]
        IN /\ Opened(1, formFromAgent(m, v))
           /\ meta' = m /\ versions' = <<v>> /\ active' \in {0, 1}
CloseEditor ==
    /\ agent # Missing
    /\ Opened(Missing, emptyForm) /\ meta' = Missing /\ versions' = <<>> /\ active' = 0
---------------------------------------------------------------------------
(* The effects that run after a render: without a connection the first one  *)
(* is chosen, without a model the first of those that are held, which until *)
(* the next list arrives are those of the connection before.                *)
FillConnection(f, c) == IF f.connection = Blank THEN [f EXCEPT !.connection = c] ELSE f
FillModel(f, held) == IF f.model = Blank /\ held # Missing THEN [f EXCEPT !.model = held] ELSE f

ServerKept == UNCHANGED <<meta, versions, active>>
Edit(s, f) ==
    /\ agent # Missing /\ section = s /\ edits < MaxEdits
    /\ edits' = edits + 1 /\ form' = f
    /\ ServerKept /\ UNCHANGED <<agent, section, models, editing, problem, said>>

ConnectionsArrive ==
    /\ agent # Missing
    /\ \E c \in Connections : form.connection = Blank /\ form' = FillConnection(form, c)
    /\ ServerKept /\ UNCHANGED <<agent, section, models, editing, problem, said, edits>>
ModelsArrive ==
    /\ agent # Missing /\ form.connection # Blank /\ models # form.connection
    /\ models' = form.connection /\ form' = FillModel(form, form.connection)
    /\ ServerKept /\ UNCHANGED <<agent, section, editing, problem, said, edits>>

Turn ==
    /\ agent # Missing /\ edits < MaxEdits
    /\ section' \in {"identity", "prompt", "tools", "advanced", "versions"} \ {section}
    /\ section' = "versions" => agent # New
    /\ edits' = edits + 1
    /\ ServerKept /\ UNCHANGED <<agent, form, models, editing, problem, said>>

IdentitySection ==
    \E x \in Meta, t \in Texts \cup {Blank} : Edit("identity", [form EXCEPT ![x] = t])
PromptSection ==
    \/ \E c \in Connections :   \* the blank option is filled in again at once
          Edit("prompt", FillModel([form EXCEPT !.connection = c, !.model = Blank], models))
    \/ \E m \in Connections \cup {Blank} :
          Edit("prompt", FillModel([form EXCEPT !.model = m], models))
ToolsSection == \E t \in Texts \cup {Blank} : Edit("tools", [form EXCEPT !.tools = t])
AdvancedSection == \E t \in Texts \cup {Blank} : Edit("advanced", [form EXCEPT !.schema = t])
---------------------------------------------------------------------------
(* Saving.  validate() and the bodies are of the form as it was clicked.    *)
Complete(f) == f.name # Blank /\ f.connection # Blank /\ f.model # Blank

\* A field that is not sent keeps the value of the latest version, or the
\* default of a new one.
Sent(fields, f, before) ==
    [x \in fields |-> IF x \in OmittedIfBlank /\ f[x] = Blank THEN before[x] ELSE f[x]]
Latest == versions[Len(versions)]

ClickSave ==
    /\ agent # Missing /\ editing.save = Missing /\ edits < MaxEdits
    /\ edits' = edits + 1 /\ said' = Missing
    /\ problem' = ~Complete(form)
    /\ editing' = IF Complete(form)
                  THEN [editing EXCEPT !.save = [step |-> IF agent = New THEN "post" ELSE "patch",
                                                 sent |-> form]]
                  ELSE editing
    /\ ServerKept /\ UNCHANGED <<agent, form, section, models>>

\* catch and finally of a request that is refused, or done with its answer lost.
GiveUp ==
    /\ editing' = [editing EXCEPT !.save = Missing] /\ problem' = TRUE
    /\ UNCHANGED <<agent, form, section, models, said, edits>>

Patch ==
    /\ editing.save # Missing /\ editing.save.step = "patch"
    /\ \/ /\ meta' = Sent(Meta, editing.save.sent, meta)
          /\ \/ /\ editing' = [editing EXCEPT !.save.step = "version"]
                /\ UNCHANGED <<agent, form, section, models, problem, said, edits>>
             \/ GiveUp
       \/ GiveUp /\ UNCHANGED meta
    /\ UNCHANGED <<versions, active>>

\* Mutant of VersionBody: the body is made after the first await, of the form by then.
VersionBodyByNow == Sent(Config, form, Latest)
VersionBody == Sent(Config, editing.save.sent, Latest)
PostVersion ==
    /\ editing.save # Missing /\ editing.save.step = "version"
    /\ \/ /\ versions' = Append(versions, VersionBody)
          /\ \/ /\ said' = editing.save.sent
                /\ editing' = [editing EXCEPT !.save.step = "refetch"]
                /\ UNCHANGED <<agent, form, section, models, problem, edits>>
             \/ GiveUp
       \/ GiveUp /\ UNCHANGED versions
    /\ UNCHANGED <<meta, active>>

\* The versions were asked for again: the answer, or its failure.
Refetched ==
    /\ editing.save # Missing /\ editing.save.step = "refetch"
    /\ editing' = [editing EXCEPT !.save = Missing]
    /\ ServerKept /\ UNCHANGED <<agent, form, section, models, problem, said, edits>>

\* A new agent is posted at once; the page of the agent then comes up.
Post ==
    /\ editing.save # Missing /\ editing.save.step = "post"
    /\ LET m == Sent(Meta, editing.save.sent, emptyForm)
           v == Sent(Config, editing.save.sent, emptyForm)
       IN \/ /\ meta' = m /\ versions' = <<v>> /\ active' = 0
             /\ agent' = 1 /\ form' = formFromAgent(m, v) /\ said' = editing.save.sent
             /\ section' = "identity" /\ models' = Missing /\ problem' = FALSE
             /\ editing' = [h \in Handlers |-> Missing]
             /\ UNCHANGED edits
          \/ GiveUp /\ ServerKept
---------------------------------------------------------------------------
(* The other handlers.                                                     *)
ClickPublish ==
    /\ agent \notin {Missing, New} /\ editing.publish = Missing /\ edits < MaxEdits
    /\ edits' = edits + 1 /\ problem' = FALSE
    /\ editing' = [editing EXCEPT !.publish = agent]
    /\ ServerKept /\ UNCHANGED <<agent, form, section, models, said>>
Publish ==
    /\ editing.publish # Missing
    /\ \/ active' = editing.publish /\ UNCHANGED problem
       \/ active' \in {active, editing.publish} /\ problem' = TRUE
    /\ editing' = [editing EXCEPT !.publish = Missing]
    /\ UNCHANGED <<agent, form, section, models, said, meta, versions, edits>>

\* The button of a version has no flag: one click of it is followed here.
ClickRollback ==
    /\ agent \notin {Missing, New} /\ section = "versions" /\ editing.rollback = Missing
    /\ edits < MaxEdits /\ edits' = edits + 1
    /\ \E n \in DOMAIN versions : editing' = [editing EXCEPT !.rollback = n]
    /\ ServerKept /\ UNCHANGED <<agent, form, section, models, problem, said>>
Rollback ==
    /\ editing.rollback # Missing
    /\ active' \in {active, editing.rollback}
    /\ editing' = [editing EXCEPT !.rollback = Missing]
    /\ UNCHANGED <<agent, form, section, models, problem, said, meta, versions, edits>>

ClickRemove ==
    /\ agent \notin {Missing, New} /\ section = "identity" /\ editing.remove = Missing
    /\ edits < MaxEdits /\ edits' = edits + 1
    /\ editing' = [editing EXCEPT !.remove = agent]
    /\ ServerKept /\ UNCHANGED <<agent, form, section, models, problem, said>>
Remove ==
    /\ editing.remove # Missing
    /\ \/ CloseEditor
       \/ /\ editing' = [editing EXCEPT !.remove = Missing]
          /\ ServerKept /\ UNCHANGED <<agent, form, section, models, problem, said, edits>>

EditorStep ==
    \/ ConnectionsArrive \/ ModelsArrive \/ Turn
    \/ IdentitySection \/ PromptSection \/ ToolsSection \/ AdvancedSection
    \/ ClickSave \/ Patch \/ PostVersion \/ Refetched \/ Post
    \/ ClickPublish \/ Publish \/ ClickRollback \/ Rollback \/ ClickRemove \/ Remove
---------------------------------------------------------------------------
(* A form that was said to be saved is stored whole, as it was when it was  *)
(* clicked: the metadata, and one version with all the settings, in every   *)
(* field that the form fills in.  (A blank field that is not sent keeps     *)
(* what the latest version had.)                                            *)
Keeps(stored, f, fields) ==
    \A x \in fields : stored[x] = f[x] \/ (x \in OmittedIfBlank /\ f[x] = Blank)
SavedAsClicked ==
    said # Missing =>
        /\ Complete(said)
        /\ Keeps(meta, said, Meta)
        /\ \E n \in DOMAIN versions : Keeps(versions[n], said, Config)

Fields == Texts \cup Connections \cup {Blank}
Forms == [Meta \cup Config -> Fields]
Saves == [step : {"post", "patch", "version", "refetch"}, sent : Forms]

EditorTypeOK ==
    /\ agent \in Nat \cup {Missing, New} /\ form \in Forms /\ models \in Fields \cup {Missing}
    /\ editing \in [save : Saves \cup {Missing}, publish : Nat \cup {Missing},
                   rollback : Nat \cup {Missing}, remove : Nat \cup {Missing}]
    /\ said \in Forms \cup {Missing}
    /\ meta \in [Meta -> Fields] \cup {Missing} /\ versions \in Seq([Config -> Fields])

\* The agent is one that is saved.
Exists == agent \notin {Missing, New}

\* A save under way has said nothing yet, and is of an agent that exists unless it posts one;
\* once its first request is answered, the metadata is stored as it was clicked.
SaveSound ==
    editing.save # Missing =>
        LET s == editing.save IN
        /\ s.step \in {"post", "patch", "version"} => said = Missing /\ Complete(s.sent)
        /\ s.step \in {"patch", "version"} => Exists
        /\ s.step = "version" => Keeps(meta, s.sent, Meta)

EditorInv ==
    /\ EditorTypeOK /\ SaveSound /\ SavedAsClicked
    /\ Exists => meta \in [Meta -> Fields] /\ versions # <<>>
=============================================================================
