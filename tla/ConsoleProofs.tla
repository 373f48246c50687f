--------------------------- MODULE ConsoleProofs ---------------------------
(***************************************************************************)
(* Proofs about Console, for every number of rows, texts, connections and  *)
(* clicks.  Each screen has an invariant of its own (PlayInv, EditorInv,   *)
(* PageInv), which its steps keep; the others leave its variables alone.   *)
(***************************************************************************)
EXTENDS Console, TLAPS

(***************************************************************************)
(* The playground.                                                         *)
(***************************************************************************)
Answers == [turn : Nat, pending : BOOLEAN, text : BOOLEAN]
Named == Nat \cup {Nobody}

LEMMA EmptiedSound == ASSUME NEW shown \in BOOLEAN, Emptied(shown) PROVE PlayInv'
<1>1. /\ open' = shown /\ messages' = <<>> /\ streaming' = FALSE /\ failure' = FALSE
      /\ conversation' = Nobody /\ stream' = Nobody /\ made' = 0 /\ turns' = 0 /\ cleared' = FALSE
      /\ run' = Nobody /\ usage' = FALSE /\ trace' = {}
    BY DEF Emptied
<1>2. DOMAIN messages' = {} /\ messages' \in Seq(Answers)
    BY <1>1
<1>3. PlayTypeOK'
    BY <1>1, <1>2 DEF PlayTypeOK, Answers
<1> QED BY <1>1, <1>2, <1>3 DEF PlayInv, ClearedStaysCleared, PlaygroundWaits

\* updateAssistant leaves the answers of other turns as they are, and no answer appears.
OneUpdated(turn, pending) ==
    /\ messages' \in Seq(Answers) /\ DOMAIN messages' = DOMAIN messages
    /\ messages = <<>> => messages' = <<>>
    /\ \A n \in DOMAIN messages :
          /\ messages'[n].turn = messages[n].turn
          /\ messages'[n].pending = IF messages[n].turn = turn THEN pending ELSE messages[n].pending
LEMMA Updated ==
    ASSUME messages \in Seq(Answers), NEW turn, NEW text \in BOOLEAN, NEW pending \in BOOLEAN,
           messages' = UpdateAssistant(turn, text, pending)
    PROVE  OneUpdated(turn, pending)
<1>0. \A n \in DOMAIN messages : messages[n] \in Answers
    OBVIOUS
<1> DEFINE After(n) == IF messages[n].turn = turn
                       THEN [messages[n] EXCEPT !.text = messages[n].text \/ text, !.pending = pending]
                       ELSE messages[n]
<1>1. messages' = [n \in DOMAIN messages |-> After(n)]
    BY DEF UpdateAssistant
<1>2. \A n \in DOMAIN messages :
         /\ After(n) \in Answers /\ After(n).turn = messages[n].turn
         /\ After(n).pending = IF messages[n].turn = turn THEN pending ELSE messages[n].pending
    BY <1>0 DEF Answers
<1> HIDE DEF After
<1>3. /\ DOMAIN messages' = DOMAIN messages
      /\ \A n \in DOMAIN messages : messages'[n] = After(n)
    BY <1>1
<1>4. messages' \in Seq(Answers)
  <2>1. Len(messages) \in Nat /\ DOMAIN messages = 1..Len(messages)
      OBVIOUS
  <2>2. messages' \in [1..Len(messages) -> Answers]
      BY <1>1, <1>2, <2>1
  <2> QED BY <2>1, <2>2
<1>5. messages = <<>> => messages' = <<>>
    BY <1>1
<1> QED BY <1>2, <1>3, <1>4, <1>5 DEF OneUpdated

LEMMA PlayKept == PlayInv /\ UNCHANGED playVars => PlayInv'
BY DEF PlayInv, playVars, panels, PlayTypeOK, ClearedStaysCleared, PlaygroundWaits

LEMMA PlayStepKeeps == ASSUME PlayInv, PlayStep PROVE PlayInv'
<1>0. /\ open \in BOOLEAN /\ streaming \in BOOLEAN /\ failure \in BOOLEAN /\ cleared \in BOOLEAN
      /\ messages \in Seq(Answers)
      /\ conversation \in Named /\ stream \in Streams(Named) \cup {Nobody}
      /\ run \in Named /\ usage \in BOOLEAN /\ trace \subseteq Entries
      /\ made \in Nat /\ turns \in Nat
    BY DEF PlayInv, PlayTypeOK, Answers, Named
<1>1. /\ cleared => messages = <<>> /\ conversation = Nobody /\ ~failure
      /\ cleared => run = Nobody /\ ~usage /\ trace \subseteq {"cancelled"}
      /\ streaming => stream # Nobody
      /\ \A n \in DOMAIN messages :
            messages[n].pending => stream # Nobody /\ stream.turn = messages[n].turn
      /\ stream # Nobody => streaming
      /\ cleared /\ stream # Nobody => stream.aborted
    BY DEF PlayInv, ClearedStaysCleared, PlaygroundWaits
<1>2. Nobody \notin Streams(Named)
    BY PlaygroundConstants DEF Named
<1>3. CASE Send
  <2> DEFINE m == [turn |-> turns + 1, pending |-> TRUE, text |-> FALSE]
             s == [turn |-> turns + 1, in |-> conversation, step |-> "fetch", aborted |-> FALSE]
  <2>1. /\ turns' = turns + 1 /\ messages' = Append(messages, m) /\ failure' = FALSE
        /\ streaming' = TRUE /\ cleared' = FALSE /\ stream' = s /\ ~streaming
        /\ usage' = FALSE /\ trace' = {}
        /\ UNCHANGED <<open, conversation, run, made>>
      BY <1>3 DEF Send
  <2>2. m \in Answers /\ m.turn = turns + 1 /\ s \in Streams(Named) /\ s.turn = turns + 1
      BY <1>0 DEF Answers, Streams
  <2> HIDE DEF m, s
  <2>3. /\ messages' \in Seq(Answers) /\ stream' # Nobody /\ stream'.turn = turns + 1
        /\ \A n \in DOMAIN messages' : messages'[n] = m \/ (n \in DOMAIN messages /\ messages'[n] = messages[n])
      BY <1>0, <1>2, <2>1, <2>2
  <2>4. \A n \in DOMAIN messages' : messages'[n].pending => messages'[n].turn = turns + 1
      BY <1>1, <2>1, <2>2, <2>3
  <2>5. PlayTypeOK'
      BY <1>0, <2>1, <2>2, <2>3 DEF PlayTypeOK, Answers, Named
  <2> QED BY <2>1, <2>3, <2>4, <2>5 DEF PlayInv, ClearedStaysCleared, PlaygroundWaits
\* The stream goes on, under another step: nothing is shown of it.
<1>4. CASE Fetched \/ Refreshed
  <2>0. /\ stream # Nobody /\ stream \in Streams(Named) /\ stream.in \in Named
        /\ UNCHANGED <<open, messages, streaming, failure, conversation, run, usage, trace, turns, cleared>>
      BY <1>0, <1>4 DEF Fetched, Refreshed, Streams, panels
  <2>1. PICK step \in {"again", "refresh", "meta", "failed"}, c \in Named :
           stream' = [stream EXCEPT !.step = step] \/ stream' = [stream EXCEPT !.step = step, !.in = c]
    <3>1. CASE Refreshed
        BY <1>0, <3>1 DEF Refreshed, Named
    <3>2. CASE stream' = [stream EXCEPT !.step = "refresh"] \/ stream' = [stream EXCEPT !.step = "failed"]
        BY <1>0, <3>2
    <3>3. CASE stream' = [stream EXCEPT !.step = "meta", !.in = IF stream.in = Nobody THEN made + 1 ELSE stream.in]
      <4>1. (IF stream.in = Nobody THEN made + 1 ELSE stream.in) \in Named
          BY <1>0, <2>0 DEF Named
      <4> QED BY <3>3, <4>1
    <3> QED BY <1>4, <3>1, <3>2, <3>3 DEF Fetched
  <2>6. made' \in Nat
      BY <1>0, <1>4 DEF Fetched, Refreshed
  <2>2. stream' \in Streams(Named) /\ stream'.turn = stream.turn /\ stream'.aborted = stream.aborted
      BY <2>0, <2>1 DEF Streams
  <2>3. PlayTypeOK'
      BY <1>0, <2>0, <2>2, <2>6 DEF PlayTypeOK, Answers, Named
  <2> QED BY <1>1, <1>2, <2>0, <2>2, <2>3 DEF PlayInv, ClearedStaysCleared, PlaygroundWaits
<1>5. CASE HandleEvent
  <2>1. /\ stream # Nobody /\ ~stream.aborted /\ ~cleared
        /\ UNCHANGED <<open, streaming, failure, made, turns, cleared>>
      BY <1>1, <1>5 DEF HandleEvent
  <2>2. stream \in Streams(Named) /\ stream.turn \in Nat /\ stream.in \in Named
      BY <1>0, <2>1 DEF Streams
  <2>3. /\ conversation' \in Named /\ run' \in Named /\ usage' \in BOOLEAN /\ trace' \subseteq Entries
        /\ stream' = stream \/ \E step \in {"events", "ended", "failed"} : stream' = [stream EXCEPT !.step = step]
        /\ \/ messages' = messages
           \/ \E more \in BOOLEAN : messages' = UpdateAssistant(stream.turn, more, more)
      BY <1>0, <1>5, <2>2 DEF HandleEvent, panels, Named, Entries
  <2>4. stream' \in Streams(Named) /\ stream'.turn = stream.turn /\ stream' # Nobody
      BY <1>2, <2>2, <2>3 DEF Streams
  <2> DEFINE Follows ==
        /\ messages' \in Seq(Answers) /\ DOMAIN messages' = DOMAIN messages
        /\ \A n \in DOMAIN messages :
              /\ messages'[n].turn = messages[n].turn
              /\ messages'[n].pending => messages[n].pending \/ messages[n].turn = stream.turn
  <2>5. Follows
    <3>1. CASE messages' = messages
        BY <1>0, <3>1
    <3>2. ASSUME NEW more \in BOOLEAN, messages' = UpdateAssistant(stream.turn, more, more)
          PROVE  Follows
      <4>0. /\ messages \in Seq(Answers) /\ more \in BOOLEAN
            /\ messages' = UpdateAssistant(stream.turn, more, more)
          BY <1>0, <3>2
      <4>1. OneUpdated(stream.turn, more)
          BY ONLY <4>0, Updated, Zenon
      <4> QED BY <4>1, Zenon DEF OneUpdated
    <3> QED BY <2>3, <3>1, <3>2
  <2>6. PlayTypeOK'
      BY <1>0, <2>1, <2>3, <2>4, <2>5 DEF PlayTypeOK, Answers, Named
  <2> QED BY <1>1, <2>1, <2>4, <2>5, <2>6 DEF PlayInv, ClearedStaysCleared, PlaygroundWaits
<1>6. CASE Settled
  <2>1. /\ stream # Nobody /\ messages' = UpdateAssistant(stream.turn, FALSE, FALSE)
        /\ failure' = (stream.step = "failed" /\ ~stream.aborted)
        /\ streaming' = FALSE /\ stream' = Nobody
        /\ UNCHANGED <<open, conversation, run, usage, made, turns, cleared>>
      BY <1>6 DEF Settled, Ends
  <2>4. /\ trace' \subseteq trace \cup {"cancelled", "failed"}
        /\ stream.aborted => trace' \subseteq trace \cup {"cancelled"}
      BY <1>0, <1>6 DEF Settled, Streams
  <2>2. /\ messages' \in Seq(Answers) /\ DOMAIN messages' = DOMAIN messages
        /\ messages = <<>> => messages' = <<>>
        /\ \A n \in DOMAIN messages :
              messages'[n].pending = IF messages[n].turn = stream.turn THEN FALSE ELSE messages[n].pending
    <3>1. FALSE \in BOOLEAN
        OBVIOUS
    <3>2. messages \in Seq(Answers) /\ messages' = UpdateAssistant(stream.turn, FALSE, FALSE)
        BY <1>0, <2>1
    <3>3. OneUpdated(stream.turn, FALSE)
        BY ONLY <3>1, <3>2, Updated, Zenon
    <3> QED BY <3>3 DEF OneUpdated
  <2>3. PlayTypeOK'
      BY <1>0, <2>1, <2>2, <2>4 DEF PlayTypeOK, Answers, Named, Entries
  <2> QED BY <1>1, <2>1, <2>2, <2>3, <2>4 DEF PlayInv, ClearedStaysCleared, PlaygroundWaits
<1>7. CASE Stop \/ Clear
  <2>1. /\ stream' = stream \/ (stream # Nobody /\ stream' = [stream EXCEPT !.aborted = TRUE])
        /\ stream # Nobody => stream' = [stream EXCEPT !.aborted = TRUE]
        /\ UNCHANGED <<open, streaming, made, turns>>
        /\ \/ UNCHANGED <<messages, failure, conversation, run, usage, trace, cleared>>
           \/ /\ messages' = <<>> /\ conversation' = Nobody /\ failure' = FALSE /\ cleared' = TRUE
              /\ run' = Nobody /\ usage' = FALSE /\ trace' = {}
      BY <1>1, <1>7 DEF Stop, Clear, Blanked, Abort, panels
  <2>2. /\ stream = Nobody => stream' = Nobody
        /\ stream # Nobody => stream' \in Streams(Named) /\ stream'.turn = stream.turn /\ stream'.aborted
      BY <1>0, <2>1 DEF Streams
  <2>3. DOMAIN <<>> = {} /\ <<>> \in Seq(Answers)
      OBVIOUS
  <2>4. PlayTypeOK'
      BY <1>0, <2>1, <2>2, <2>3 DEF PlayTypeOK, Answers, Named
  <2> QED BY <1>1, <1>2, <2>1, <2>2, <2>3, <2>4 DEF PlayInv, ClearedStaysCleared, PlaygroundWaits
<1> QED BY <1>3, <1>4, <1>5, <1>6, <1>7 DEF PlayStep

-----------------------------------------------------------------------------
(***************************************************************************)
(* The agent editor.                                                       *)
(***************************************************************************)
Editing == [save : Saves \cup {Missing}, publish : Nat \cup {Missing},
          rollback : Nat \cup {Missing}, remove : Nat \cup {Missing}]

LEMMA EmptyFormTyped == emptyForm \in Forms
BY DEF emptyForm, Forms, Fields, Meta, Config

LEMMA NothingUnderWay ==
    /\ [h \in Handlers |-> Missing] \in Editing
    /\ [h \in Handlers |-> Missing].save = Missing
BY DEF Handlers, Editing

\* What is sent of a form keeps it, but for the fields that are not sent when they are blank.
LEMMA SentKeeps ==
    ASSUME NEW fields \in {Meta, Config}, NEW f \in Forms, NEW before,
           \A x \in fields : before[x] \in Fields
    PROVE  /\ Sent(fields, f, before) \in [fields -> Fields]
           /\ Keeps(Sent(fields, f, before), f, fields)
<1>1. \A x \in fields : f[x] \in Fields
    BY DEF Forms
<1> QED BY <1>1 DEF Sent, Keeps

LEMMA FormOfAgent ==
    ASSUME NEW m \in [Meta -> Fields], NEW v \in [Config -> Fields]
    PROVE  formFromAgent(m, v) \in Forms
BY DEF formFromAgent, Forms

LEMMA OpenedSound ==
    ASSUME NEW a \in Nat \cup {Missing, New}, NEW f \in Forms, Opened(a, f),
           \/ a \in {Missing, New} /\ meta' = Missing /\ versions' = <<>>
           \/ \E m \in [Meta -> Fields], v \in [Config -> Fields] : meta' = m /\ versions' = <<v>>
    PROVE  EditorInv'
<1>1. /\ agent' = a /\ form' = f /\ models' = Missing /\ said' = Missing
      /\ editing' = [h \in Handlers |-> Missing]
    BY DEF Opened
<1>2. editing' \in Editing /\ editing'.save = Missing
    BY <1>1, NothingUnderWay
<1>3. /\ meta' \in [Meta -> Fields] \cup {Missing} /\ versions' \in Seq([Config -> Fields])
      /\ Exists' => meta' \in [Meta -> Fields] /\ versions' # <<>>
  <2>1. CASE a \in {Missing, New} /\ meta' = Missing /\ versions' = <<>>
      BY <1>1, <2>1 DEF Exists
  <2>2. ASSUME NEW m \in [Meta -> Fields], NEW v \in [Config -> Fields], meta' = m, versions' = <<v>>
        PROVE  /\ meta' \in [Meta -> Fields] /\ versions' \in Seq([Config -> Fields])
               /\ versions' # <<>>
      BY <2>2
  <2> QED BY <2>1, <2>2
<1>4. EditorTypeOK'
    BY <1>1, <1>2, <1>3 DEF EditorTypeOK, Editing
<1> QED BY <1>1, <1>2, <1>3, <1>4 DEF EditorInv, SaveSound, SavedAsClicked

LEMMA EditorKept == EditorInv /\ UNCHANGED editorVars => EditorInv'
BY DEF EditorInv, editorVars, EditorTypeOK, Exists, SaveSound, SavedAsClicked

\* Filling in the form, or another handler's work, leaves the save and what is stored alone.
LEMMA SaveAlone ==
    ASSUME EditorInv, UNCHANGED <<agent, said, meta, versions>>, form' \in Forms,
           models' \in Fields \cup {Missing}, editing' \in Editing, editing'.save = editing.save
    PROVE  EditorInv'
<1>1. EditorTypeOK'
    BY DEF EditorInv, EditorTypeOK, Editing
<1> QED BY <1>1 DEF EditorInv, Exists, SaveSound, SavedAsClicked

LEMMA FillsIn ==
    ASSUME NEW f \in Forms
    PROVE  /\ \A c \in Connections : FillConnection(f, c) \in Forms
           /\ \A held \in Fields \cup {Missing} : FillModel(f, held) \in Forms
           /\ \A x \in Meta \cup Config, t \in Fields : [f EXCEPT ![x] = t] \in Forms
<1>1. \A x \in Meta \cup Config, t \in Fields : [f EXCEPT ![x] = t] \in Forms
    BY DEF Forms
<1>2. {"connection", "model"} \subseteq Meta \cup Config /\ Connections \subseteq Fields
    BY DEF Config, Fields
<1> QED BY <1>1, <1>2 DEF FillConnection, FillModel

LEMMA FormStepKeeps ==
    ASSUME EditorInv,
           \/ ConnectionsArrive \/ ModelsArrive \/ Turn
           \/ IdentitySection \/ PromptSection \/ ToolsSection \/ AdvancedSection
    PROVE  EditorInv'
<1>1. form \in Forms /\ models \in Fields \cup {Missing} /\ editing \in Editing
    BY DEF EditorInv, EditorTypeOK, Editing
<1>2. /\ Texts \subseteq Fields /\ Connections \subseteq Fields /\ Blank \in Fields
      /\ {"connection", "model", "tools", "schema"} \subseteq Meta \cup Config /\ Meta \subseteq Meta \cup Config
    BY DEF Fields, Config
<1>3. CASE ConnectionsArrive
    BY <1>1, <1>3, FillsIn, SaveAlone DEF ConnectionsArrive, ServerKept
<1>4. CASE ModelsArrive
  <2>1. form.connection \in Fields
      BY <1>1, <1>2 DEF Forms
  <2> QED BY <1>1, <1>4, <2>1, FillsIn, SaveAlone DEF ModelsArrive, ServerKept
<1>5. CASE Turn
    BY <1>1, <1>5, SaveAlone DEF Turn, ServerKept
<1>6. ASSUME NEW s, NEW f \in Forms, Edit(s, f) PROVE EditorInv'
    BY <1>1, <1>6, SaveAlone DEF Edit, ServerKept
<1>7. CASE IdentitySection
    BY <1>1, <1>2, <1>6, <1>7, FillsIn DEF IdentitySection
<1>8. CASE PromptSection
  <2>1. \A c \in Connections \cup {Blank} :
           /\ [form EXCEPT !.model = c] \in Forms
           /\ [form EXCEPT !.connection = c, !.model = Blank] \in Forms
      BY <1>1, <1>2 DEF Forms
  <2> QED BY <1>1, <1>6, <1>8, <2>1, FillsIn DEF PromptSection
<1>9. CASE ToolsSection
    BY <1>1, <1>2, <1>6, <1>9, FillsIn DEF ToolsSection
<1>10. CASE AdvancedSection
    BY <1>1, <1>2, <1>6, <1>10, FillsIn DEF AdvancedSection
<1> QED BY <1>3, <1>4, <1>5, <1>7, <1>8, <1>9, <1>10

\* Publishing, rolling back and a removal that is refused; one that is done leaves the page.
LEMMA OtherWorkKeeps ==
    ASSUME EditorInv,
           ClickPublish \/ Publish \/ ClickRollback \/ Rollback \/ ClickRemove \/ Remove
    PROVE  EditorInv'
<1>1. form \in Forms /\ models \in Fields \cup {Missing} /\ editing \in Editing
    BY DEF EditorInv, EditorTypeOK, Editing
<1>2. \A n \in Nat \cup {Missing} :
         /\ [editing EXCEPT !.publish = n] \in Editing /\ [editing EXCEPT !.publish = n].save = editing.save
         /\ [editing EXCEPT !.rollback = n] \in Editing /\ [editing EXCEPT !.rollback = n].save = editing.save
         /\ [editing EXCEPT !.remove = n] \in Editing /\ [editing EXCEPT !.remove = n].save = editing.save
    BY <1>1 DEF Editing
<1>3. agent \notin {Missing, New} => agent \in Nat
    BY DEF EditorInv, EditorTypeOK
<1>4. DOMAIN versions \subseteq Nat
    BY DEF EditorInv, EditorTypeOK
<1>5. CASE ClickPublish \/ Publish
    BY <1>1, <1>2, <1>3, <1>5, SaveAlone DEF ClickPublish, Publish, ServerKept
<1>6. CASE ClickRollback \/ Rollback
    BY <1>1, <1>2, <1>4, <1>6, SaveAlone DEF ClickRollback, Rollback, ServerKept
<1>7. CASE ClickRemove
    BY <1>1, <1>2, <1>3, <1>7, SaveAlone DEF ClickRemove, ServerKept
<1>8. CASE Remove
  <2>1. CASE CloseEditor
      BY <2>1, EmptyFormTyped, OpenedSound DEF CloseEditor
  <2>2. CASE editing' = [editing EXCEPT !.remove = Missing] /\ ServerKept
             /\ UNCHANGED <<agent, form, section, models, problem, said, edits>>
      BY <1>1, <1>2, <2>2, SaveAlone DEF ServerKept
  <2> QED BY <1>8, <2>1, <2>2 DEF Remove
<1> QED BY <1>5, <1>6, <1>7, <1>8

-----------------------------------------------------------------------------
(* Saving: its requests, one after the other.                              *)
\* A save that gives up has said nothing; what it stored stays.
LEMMA GaveUp ==
    ASSUME EditorInv, GiveUp, said = Missing, meta' \in [Meta -> Fields] \cup {Missing},
           versions' \in Seq([Config -> Fields]),
           Exists => meta' \in [Meta -> Fields] /\ versions' # <<>>
    PROVE  EditorInv'
<1>1. editing' \in Editing /\ editing'.save = Missing
    BY DEF EditorInv, EditorTypeOK, Editing, GiveUp
<1>2. EditorTypeOK'
    BY <1>1 DEF EditorInv, EditorTypeOK, Editing, GiveUp
<1> QED BY <1>1, <1>2 DEF EditorInv, GiveUp, Exists, SaveSound, SavedAsClicked

LEMMA ClickSaveKeeps == ASSUME EditorInv, ClickSave PROVE EditorInv'
<1>1. form \in Forms /\ models \in Fields \cup {Missing} /\ editing \in Editing
    BY DEF EditorInv, EditorTypeOK, Editing
<1>2. CASE ~Complete(form)
  <2>1. editing' = editing /\ said' = Missing /\ UNCHANGED <<agent, form, models, meta, versions>>
      BY <1>2 DEF ClickSave, ServerKept
  <2>2. EditorTypeOK'
      BY <2>1 DEF EditorInv, EditorTypeOK
  <2> QED BY <2>1, <2>2 DEF EditorInv, ClickSave, Exists, SaveSound, SavedAsClicked
<1>3. CASE Complete(form)
  <2> DEFINE s == [step |-> IF agent = New THEN "post" ELSE "patch", sent |-> form]
  <2>1. /\ s \in Saves /\ s.sent = form /\ s.step \in {"post", "patch"}
        /\ s.step = "patch" => Exists
      BY <1>1, EditorConstants DEF Saves, ClickSave, Exists
  <2>2. editing' = [editing EXCEPT !.save = s] /\ said' = Missing
        /\ UNCHANGED <<agent, form, models, meta, versions>>
      BY <1>3 DEF ClickSave, ServerKept
  <2> HIDE DEF s
  <2>3. editing' \in Editing /\ editing'.save = s
      BY <1>1, <2>1, <2>2 DEF Editing
  <2>4. EditorTypeOK'
      BY <2>2, <2>3 DEF EditorInv, EditorTypeOK, Editing
  <2> QED BY <1>3, <2>1, <2>2, <2>3, <2>4 DEF EditorInv, Exists, SaveSound, SavedAsClicked
<1> QED BY <1>2, <1>3
LEMMA PatchKeeps == ASSUME EditorInv, Patch PROVE EditorInv'
<1>1. /\ editing \in Editing /\ editing.save \in Saves /\ editing.save.step = "patch"
      /\ said = Missing /\ Complete(editing.save.sent) /\ Exists
      /\ meta \in [Meta -> Fields] /\ versions # <<>> /\ versions' = versions
      /\ versions \in Seq([Config -> Fields])
    BY DEF EditorInv, EditorTypeOK, Editing, SaveSound, Patch
<1>2. editing.save.sent \in Forms
    BY <1>1 DEF Saves
<1>3. /\ Sent(Meta, editing.save.sent, meta) \in [Meta -> Fields]
      /\ Keeps(Sent(Meta, editing.save.sent, meta), editing.save.sent, Meta)
    BY <1>1, <1>2, SentKeeps
<1>4. CASE GiveUp
    BY <1>1, <1>3, <1>4, GaveUp DEF Patch
<1>5. CASE ~GiveUp
  <2>1. /\ meta' = Sent(Meta, editing.save.sent, meta)
        /\ editing' = [editing EXCEPT !.save.step = "version"]
        /\ UNCHANGED <<agent, form, models, said>>
      BY <1>5 DEF Patch
  <2>2. /\ editing' \in Editing /\ editing'.save \in Saves
        /\ editing'.save.step = "version" /\ editing'.save.sent = editing.save.sent
      BY <1>1, <2>1 DEF Editing, Saves
  <2>3. EditorTypeOK'
      BY <1>1, <1>3, <2>1, <2>2 DEF EditorInv, EditorTypeOK, Editing
  <2> QED BY <1>1, <1>3, <2>1, <2>2, <2>3 DEF EditorInv, Exists, SaveSound, SavedAsClicked
<1> QED BY <1>4, <1>5

LEMMA PostVersionKeeps == ASSUME EditorInv, PostVersion PROVE EditorInv'
<1> DEFINE sent == editing.save.sent
<1>1. /\ editing \in Editing /\ editing.save \in Saves /\ editing.save.step = "version"
      /\ said = Missing /\ Complete(sent) /\ Exists /\ Keeps(meta, sent, Meta)
      /\ meta \in [Meta -> Fields] /\ versions # <<>> /\ versions \in Seq([Config -> Fields])
    BY DEF EditorInv, EditorTypeOK, Editing, SaveSound, PostVersion
<1>2. sent \in Forms
    BY <1>1 DEF Saves
<1>3. Latest \in [Config -> Fields]
    BY <1>1 DEF Latest
<1>4. VersionBody \in [Config -> Fields] /\ Keeps(VersionBody, sent, Config)
    BY <1>2, <1>3, SentKeeps DEF VersionBody
<1>5. \/ versions' = versions
      \/ versions' = Append(versions, VersionBody)
    BY DEF PostVersion
<1>6. versions' \in Seq([Config -> Fields]) /\ versions' # <<>>
    BY <1>1, <1>4, <1>5
<1>7. meta' = meta
    BY DEF PostVersion
<1>8. CASE GiveUp
    BY <1>1, <1>6, <1>7, <1>8, GaveUp
<1>9. CASE ~GiveUp
  <2>1. /\ versions' = Append(versions, VersionBody) /\ said' = sent
        /\ editing' = [editing EXCEPT !.save.step = "refetch"] /\ UNCHANGED <<agent, form, models>>
      BY <1>9 DEF PostVersion
  <2>2. editing' \in Editing /\ editing'.save \in Saves /\ editing'.save.step = "refetch"
      BY <1>1, <2>1 DEF Editing, Saves
  <2>3. EditorTypeOK'
      BY <1>1, <1>2, <1>6, <1>7, <2>1, <2>2 DEF EditorInv, EditorTypeOK, Editing
  <2>4. Len(versions) + 1 \in DOMAIN versions' /\ versions'[Len(versions) + 1] = VersionBody
      BY <1>1, <1>4, <2>1
  <2>5. \E n \in DOMAIN versions' : Keeps(versions'[n], sent, Config)
      BY <1>4, <2>4
  <2> HIDE DEF sent
  <2>6. SavedAsClicked'
      BY <1>1, <1>7, <2>1, <2>5 DEF SavedAsClicked
  <2> QED BY <1>1, <1>6, <1>7, <2>1, <2>2, <2>3, <2>6 DEF EditorInv, Exists, SaveSound
<1> QED BY <1>8, <1>9

LEMMA RefetchedKeeps == ASSUME EditorInv, Refetched PROVE EditorInv'
<1>1. /\ editing \in Editing /\ editing' = [editing EXCEPT !.save = Missing]
      /\ UNCHANGED <<agent, form, models, said, meta, versions>>
    BY DEF EditorInv, EditorTypeOK, Editing, Refetched, ServerKept
<1>2. editing' \in Editing /\ editing'.save = Missing
    BY <1>1 DEF Editing
<1>3. EditorTypeOK'
    BY <1>1, <1>2 DEF EditorInv, EditorTypeOK, Editing
<1> QED BY <1>1, <1>2, <1>3 DEF EditorInv, Exists, SaveSound, SavedAsClicked

LEMMA PostKeeps == ASSUME EditorInv, Post PROVE EditorInv'
<1> DEFINE sent == editing.save.sent
           m == Sent(Meta, sent, emptyForm)
           v == Sent(Config, sent, emptyForm)
<1>1. /\ editing \in Editing /\ editing.save \in Saves
      /\ said = Missing /\ Complete(sent)
      /\ meta \in [Meta -> Fields] \cup {Missing} /\ versions \in Seq([Config -> Fields])
      /\ Exists => meta \in [Meta -> Fields] /\ versions # <<>>
    BY DEF EditorInv, EditorTypeOK, Editing, SaveSound, Post
<1>2. sent \in Forms
    BY <1>1 DEF Saves
<1>3. \A x \in Meta \cup Config : emptyForm[x] \in Fields
    BY EmptyFormTyped DEF Forms
<1>4. /\ m \in [Meta -> Fields] /\ Keeps(m, sent, Meta)
      /\ v \in [Config -> Fields] /\ Keeps(v, sent, Config)
    BY <1>2, <1>3, SentKeeps
<1>5. CASE GiveUp /\ ServerKept
    BY <1>1, <1>5, GaveUp DEF ServerKept
<1>6. CASE ~(GiveUp /\ ServerKept)
  <2>1. /\ meta' = m /\ versions' = <<v>> /\ agent' = 1 /\ form' = formFromAgent(m, v)
        /\ said' = sent /\ models' = Missing /\ editing' = [h \in Handlers |-> Missing]
      BY <1>6 DEF Post
  <2> HIDE DEF sent, m, v
  <2>2. formFromAgent(m, v) \in Forms
      BY <1>4, FormOfAgent
  <2>3. editing' \in Editing /\ editing'.save = Missing
      BY <2>1, NothingUnderWay
  <2>4. /\ versions' \in Seq([Config -> Fields]) /\ versions' # <<>>
        /\ 1 \in DOMAIN versions' /\ versions'[1] = v
      BY <1>4, <2>1
  <2>5. EditorTypeOK'
      BY <1>2, <1>4, <2>1, <2>2, <2>3, <2>4 DEF EditorTypeOK, Editing
  <2>6. SavedAsClicked'
      BY <1>1, <1>4, <2>1, <2>4 DEF SavedAsClicked
  <2> QED BY <1>4, <2>1, <2>3, <2>4, <2>5, <2>6 DEF EditorInv, SaveSound
<1> QED BY <1>5, <1>6

LEMMA EditorStepKeeps == ASSUME EditorInv, EditorStep PROVE EditorInv'
BY FormStepKeeps, OtherWorkKeeps, ClickSaveKeeps, PatchKeeps, PostVersionKeeps, RefetchedKeeps, PostKeeps
   DEF EditorStep

LEMMA EditorShown == ASSUME NewAgent \/ EditAgent PROVE EditorInv'
<1>1. CASE NewAgent
    BY <1>1, EmptyFormTyped, OpenedSound DEF NewAgent
<1>2. CASE EditAgent
  <2>1. PICK t \in Texts, c \in Connections, x \in Texts \cup {Blank} :
           LET m == [name |-> t, description |-> x]
               v == [connection |-> c, model |-> c, tools |-> Blank, schema |-> x]
           IN Opened(1, formFromAgent(m, v)) /\ meta' = m /\ versions' = <<v>>
      BY <1>2 DEF EditAgent
  <2> DEFINE m == [name |-> t, description |-> x]
             v == [connection |-> c, model |-> c, tools |-> Blank, schema |-> x]
  <2>2. m \in [Meta -> Fields] /\ v \in [Config -> Fields]
      BY DEF Meta, Config, Fields
  <2>3. Opened(1, formFromAgent(m, v)) /\ meta' = m /\ versions' = <<v>>
      BY <2>1
  <2> HIDE DEF m, v
  <2> QED BY <2>2, <2>3, FormOfAgent, OpenedSound
<1> QED BY <1>1, <1>2

-----------------------------------------------------------------------------
(***************************************************************************)
(* The pages of lists.  PageInv falls into what is loaded and what is      *)
(* clicked.                                                                *)
(***************************************************************************)
LoadingWaits == \A q \in DOMAIN query : query[q].loading =>
    \E g \in gets : g.query = q /\ g.id = query[q].id
FlagsWait == \A f \in Flags : flag[f] # None =>
    \E w \in works : w.handler.flag = f /\ (flag[f] = "on" \/ flag[f] = w.row)

ListsSound ==
    /\ query \in [QueriesOf(page) -> Held(page)] /\ gets \subseteq Gets(page)
    /\ server \in [PathsOf(page) -> Nat] /\ told \in [PathsOf(page) -> Nat]
    /\ ToldSound /\ (\A g \in gets : GetSound(g)) /\ (\A q \in QueriesOf(page) : QuerySound(q))
    /\ ReadsItsWrites /\ LoadingWaits
ButtonsSound ==
    /\ works \subseteq Works(page) /\ flag \in [Flags -> Rows \cup {"on", None}]
    /\ \A w \in works : WorkSound(w)
    /\ FlagsWait

LEMMA PageInvIs ==
    PageInv <=> /\ page \in Pages \cup {None} /\ selected \in Rows \cup {None} /\ clicks \in Nat
                /\ ListsSound /\ ButtonsSound
BY DEF PageInv, PageTypeOK, ListsSound, ButtonsSound, PageWaits, LoadingWaits, FlagsWait

LEMMA PageInvNext ==
    ASSUME page' \in Pages \cup {None}, selected' \in Rows \cup {None}, clicks' \in Nat,
           ListsSound', ButtonsSound'
    PROVE  PageInv'
BY DEF PageInv, PageTypeOK, ListsSound, ButtonsSound, PageWaits, LoadingWaits, FlagsWait

LEMMA HandlerOf ==
    ASSUME NEW p \in Pages, NEW h \in HandlersOf(p)
    PROVE  /\ h.reloads \subseteq QueriesOf(p) /\ h.changes \in h.reloads
           /\ "detail" \in h.reloads => h.changes = "detail"
           /\ h.flag \in Flags \cup {None}
           /\ h.changes = "detail" \/ h = RemoveBase => h.flag \in OfDetail \cup {None}
           /\ h.then = "select" => p = "knowledge" /\ h.changes = "bases"
           /\ h.then = "leave" => p = "knowledge" /\ h.changes = "bases"
BY DEF Pages, HandlersOf, QueriesOf, Flags, OfDetail, Handler, DuplicateAgent, ValidateProvider,
       RemoveProvider, CreateProvider, RemoveTool, CreateTool, RevokeKey, CreateKey, UpdateRole,
       RemoveMember, RevokeInvitation, Invite, CreateRole, Upload, RemoveDocument, RemoveBase,
       CreateBase, Decide, SaveSettings

LEMMA PathOfQuery ==
    ASSUME NEW p \in Pages, NEW q \in QueriesOf(p), NEW x, PathOf(q, x)
    PROVE  /\ x \in PathsOf(p)
           /\ \A c \in QueriesOf(p) : PathOf(c, x) => c = q
<1>1. q = "detail" => p = "knowledge"
    BY DEF Pages, QueriesOf
<1>2. QueriesOf(p) \subseteq Queries
    BY DEF Queries
<1> QED BY <1>1, <1>2, ListConstants DEF PathOf, PathsOf
LEMMA ListsKept == ListsSound /\ UNCHANGED <<page, query, gets, server, told>> => ListsSound'
BY DEF ListsSound, ToldSound, GetSound, QuerySound, ReadsItsWrites, RowsShown, LoadingWaits

\* The server's lists only grow; what is known of them stays true.
Grown == /\ server' \in [PathsOf(page) -> Nat]
         /\ \A x \in PathsOf(page) : server[x] <= server'[x]
LEMMA ListsGrow ==
    ASSUME ListsSound, Grown, UNCHANGED <<page, query, gets, told>>
    PROVE  ListsSound'
<1>1. ToldSound'
    BY DEF ListsSound, Grown, ToldSound
<1> QED BY <1>1 DEF ListsSound, Grown, GetSound, QuerySound, ReadsItsWrites, RowsShown, LoadingWaits

LEMMA ButtonsKept ==
    ASSUME ButtonsSound, UNCHANGED <<page, works, flag>>, Grown, ListsSound, page \in Pages
    PROVE  ButtonsSound'
<1>1. ASSUME NEW w \in works PROVE WorkSound(w)'
  <2>1. /\ w.handler \in HandlersOf(page) /\ w.rev \in Nat /\ PathOf(w.handler.changes, w.path)
        /\ w.rev <= server[w.path]
      BY DEF ButtonsSound, Works, WorkSound
  <2>2. w.path \in PathsOf(page)
      BY <2>1, HandlerOf, PathOfQuery
  <2> QED BY <2>1, <2>2 DEF WorkSound, Grown, ListsSound
<1> QED BY <1>1 DEF ButtonsSound, FlagsWait

HeldOf(D) == [id : Nat, loading : BOOLEAN, failed : BOOLEAN, data : D]
LEMMA AskedOf ==
    ASSUME NEW D, NEW s \in HeldOf(D)
    PROVE  /\ Asked(s) \in HeldOf(D) /\ Asked(s).id = s.id + 1
           /\ Asked(s).loading /\ Asked(s).data = s.data
<1>1. s.id + 1 \in Nat /\ TRUE \in BOOLEAN /\ FALSE \in BOOLEAN
    BY DEF HeldOf
<1>2. Asked(s) \in HeldOf(D)
    BY <1>1 DEF Asked, HeldOf
<1>3. Asked(s).loading
    BY DEF Asked, HeldOf
<1>4. Asked(s).id = s.id + 1 /\ Asked(s).data = s.data
    BY DEF Asked, HeldOf
<1> QED BY <1>2, <1>3, <1>4
LEMMA AskedHolds ==
    ASSUME NEW p, NEW s \in Held(p)
    PROVE  /\ Asked(s) \in Held(p) /\ Asked(s).id = s.id + 1
           /\ Asked(s).loading /\ Asked(s).data = s.data
<1>1. Held(p) = HeldOf({None} \cup [path : PathsOf(p), rev : Nat])
    BY DEF Held, HeldOf
<1> QED BY <1>1, AskedOf

\* Asking for some lists again, once it is heard that one of them has changed.
LEMMA ReloadKeeps ==
    ASSUME ListsSound, page \in Pages, NEW R \in SUBSET QueriesOf(page), NEW x,
           "detail" \in R => x \in Rows,
           Reload(R, x), UNCHANGED <<page, server>>,
           \/ told' = told
           \/ \E c \in R, y \in PathsOf(page) :
                 /\ PathOf(c, y)
                 /\ told' \in [PathsOf(page) -> Nat] /\ told'[y] <= server[y]
                 /\ \A z \in PathsOf(page) \ {y} : told'[z] = told[z]
    PROVE  ListsSound'
<1>0. /\ query \in [QueriesOf(page) -> Held(page)] /\ gets \subseteq Gets(page)
      /\ server \in [PathsOf(page) -> Nat] /\ told \in [PathsOf(page) -> Nat]
      /\ ToldSound /\ (\A g \in gets : GetSound(g)) /\ (\A q \in QueriesOf(page) : QuerySound(q))
      /\ ReadsItsWrites /\ LoadingWaits
    BY DEF ListsSound
<1> DEFINE Request(q) == [query |-> q, id |-> query[q].id + 1, seen |-> None,
                       path |-> IF q = "detail" THEN x ELSE q]
<1>1. /\ query' = [q \in QueriesOf(page) |-> IF q \in R THEN Asked(query[q]) ELSE query[q]]
      /\ gets' = gets \cup {Request(q) : q \in R}
    BY <1>0 DEF Reload
<1>2. ASSUME NEW q \in R
      PROVE  /\ Request(q) \in Gets(page) /\ PathOf(q, Request(q).path)
             /\ Request(q).query = q /\ Request(q).id = query[q].id + 1 /\ Request(q).seen = None
             /\ Asked(query[q]) \in Held(page) /\ Asked(query[q]).id = query[q].id + 1
             /\ Asked(query[q]).loading /\ Asked(query[q]).data = query[q].data
  <2>1. query[q] \in Held(page)
      BY <1>0
  <2>2. Asked(query[q]) \in Held(page) /\ Asked(query[q]).id = query[q].id + 1
        /\ Asked(query[q]).loading /\ Asked(query[q]).data = query[q].data
      BY <2>1, AskedHolds
  <2>3. PathOf(q, Request(q).path)
      BY DEF PathOf
  <2>4. Request(q).path \in PathsOf(page)
      BY <2>3, PathOfQuery
  <2>5. Request(q) \in Gets(page)
      BY <2>1, <2>4 DEF Gets, Held
  <2> QED BY <2>2, <2>3, <2>5
<1> HIDE DEF Request
<1>3. /\ query' \in [QueriesOf(page) -> Held(page)] /\ gets' \subseteq Gets(page)
      /\ told' \in [PathsOf(page) -> Nat]
    BY <1>0, <1>1, <1>2
<1>4. ToldSound'
    BY <1>0 DEF ToldSound
\* What is not asked for again has not been heard of.
<1>5. ASSUME NEW q \in QueriesOf(page) \ R, NEW y, PathOf(q, y) PROVE told'[y] = told[y] /\ y \in PathsOf(page)
    BY <1>5, PathOfQuery
<1>6. ASSUME NEW g \in gets' PROVE GetSound(g)'
  <2>1. CASE g \in gets
    <3>1. /\ g.query \in QueriesOf(page) /\ g.id \in Nat
          /\ PathOf(g.query, g.path) /\ g.id <= query[g.query].id
          /\ g.id = query[g.query].id /\ g.seen # None => told[g.path] <= g.seen
        BY <1>0, <2>1 DEF Gets, GetSound
    <3>2. query[g.query].id \in Nat
        BY <1>0, <3>1 DEF Held
    <3>3. CASE g.query \in R
        BY <1>1, <1>2, <3>1, <3>2, <3>3 DEF GetSound
    <3>4. CASE g.query \notin R
        BY <1>1, <1>5, <3>1, <3>2, <3>4 DEF GetSound
    <3> QED BY <3>3, <3>4
  <2>2. ASSUME NEW q \in R, g = Request(q) PROVE GetSound(g)'
    <3>1. query'[q].id = query[q].id + 1 /\ query[q].id \in Nat
        BY <1>0, <1>1, <1>2 DEF Held
    <3> QED BY <1>2, <2>2, <3>1 DEF GetSound
  <2> QED BY <1>1, <2>1, <2>2
<1>7. \A q \in QueriesOf(page) : QuerySound(q)'
    BY <1>0, <1>1, <1>2 DEF QuerySound
<1>8. ReadsItsWrites'
  <2> SUFFICES ASSUME NEW q \in QueriesOf(page), RowsShown(q)'
               PROVE  (query[q].data.rev >= told[query[q].data.path])'
      BY <1>3 DEF ReadsItsWrites
  <2>1. q \notin R /\ query'[q] = query[q]
      BY <1>1, <1>2 DEF RowsShown
  <2>2. RowsShown(q) /\ PathOf(q, query[q].data.path) /\ query[q].data.rev >= told[query[q].data.path]
      BY <1>0, <2>1 DEF RowsShown, QuerySound, ReadsItsWrites
  <2> QED BY <1>5, <2>1, <2>2
<1>9. LoadingWaits'
  <2> SUFFICES ASSUME NEW q \in QueriesOf(page), query'[q].loading
               PROVE  \E g \in gets' : g.query = q /\ g.id = query'[q].id
      BY <1>3 DEF LoadingWaits
  <2>1. CASE q \in R
    <3>1. Request(q) \in gets' /\ Request(q).query = q /\ Request(q).id = query'[q].id
        BY <1>1, <1>2, <2>1
    <3> QED BY <3>1
  <2>2. CASE q \notin R
      BY <1>0, <1>1, <2>2 DEF LoadingWaits
  <2> QED BY <2>1, <2>2
<1> QED BY <1>0, <1>3, <1>4, <1>6, <1>7, <1>8, <1>9 DEF ListsSound
-----------------------------------------------------------------------------
(* Requests: the server reads, and the answer arrives.                     *)
LEMMA ReadKeeps == ASSUME ListsSound, NEW g \in gets, Read(g) PROVE ListsSound'
<1>0. PICK r : r = [g EXCEPT !.seen = server[g.path]]
    OBVIOUS
<1>1. /\ g \in Gets(page) /\ GetSound(g) /\ told[g.path] <= server[g.path] /\ server[g.path] \in Nat
    BY DEF ListsSound, Gets, ToldSound
<1>2. /\ r \in Gets(page) /\ r.query = g.query /\ r.id = g.id /\ r.path = g.path
      /\ r.seen = server[g.path]
    BY <1>0, <1>1 DEF Gets
<1>3. gets' = (gets \ {g}) \cup {r} /\ UNCHANGED <<page, query, server, told>>
    BY <1>0 DEF Read
<1>4. GetSound(r)'
    BY <1>1, <1>2, <1>3 DEF GetSound
<1>5. \A h \in gets : GetSound(h)'
    BY <1>3 DEF ListsSound, GetSound
<1>6. LoadingWaits'
    BY <1>2, <1>3 DEF ListsSound, LoadingWaits
<1> QED BY <1>2, <1>3, <1>4, <1>5, <1>6 DEF ListsSound, ToldSound, QuerySound, ReadsItsWrites, RowsShown

\* What an answer leaves of a query.
LEMMA AnswerTaken ==
    ASSUME NEW p, NEW s \in Held(p), NEW g \in Gets(p), NEW failed \in BOOLEAN,
           g.seen = None => failed
    PROVE  /\ Settle(s, g, failed) \in Held(p) /\ Settle(s, g, failed).id = s.id
           /\ g.id # s.id => Settle(s, g, failed) = s
           /\ g.id = s.id => /\ ~Settle(s, g, failed).loading
                             /\ \/ Settle(s, g, failed).data = None
                                \/ /\ Settle(s, g, failed).data = [path |-> g.path, rev |-> g.seen]
                                   /\ g.seen \in Nat /\ g.seen # None
<1> DEFINE D == {None} \cup [path : PathsOf(p), rev : Nat]
           data == IF failed THEN None ELSE [path |-> g.path, rev |-> g.seen]
           t == [s EXCEPT !.loading = FALSE, !.failed = failed, !.data = data]
<1>1. /\ data \in D
      /\ \/ data = None
         \/ data = [path |-> g.path, rev |-> g.seen] /\ g.seen \in Nat /\ g.seen # None
    BY DEF Gets
<1>2. Settle(s, g, failed) = IF g.id # s.id THEN s ELSE t
    BY DEF Settle
<1>3. Held(p) = HeldOf(D)
    BY DEF Held, HeldOf
<1> HIDE DEF data, D
<1>4. s \in HeldOf(D)
    BY <1>3
<1>5. t \in HeldOf(D)
    BY <1>1, <1>4 DEF HeldOf
<1>6. t.id = s.id /\ t.data = data
    BY <1>4 DEF HeldOf
<1>7. ~t.loading
    BY <1>4 DEF HeldOf
<1> HIDE DEF t
<1> QED BY <1>1, <1>2, <1>3, <1>5, <1>6, <1>7

LEMMA ArriveKeeps == ASSUME ListsSound, NEW g \in gets, Arrive(g) PROVE ListsSound'
<1> DEFINE k == g.query
<1>1. /\ gets' = gets \ {g} /\ UNCHANGED <<page, server, told>>
    BY DEF Arrive
<1>2. PICK failed \in BOOLEAN :
         (g.seen = None => failed) /\ query' = [query EXCEPT ![k] = Settle(query[k], g, failed)]
    BY DEF Arrive
<1>3. /\ query \in [QueriesOf(page) -> Held(page)] /\ g \in Gets(page) /\ k \in QueriesOf(page)
      /\ query[k] \in Held(page) /\ GetSound(g)
    BY DEF ListsSound, Gets
<1> DEFINE s == Settle(query[k], g, failed)
<1>4. /\ s \in Held(page) /\ s.id = query[k].id
      /\ g.id # query[k].id => s = query[k]
      /\ g.id = query[k].id => /\ ~s.loading
                               /\ \/ s.data = None
                                  \/ /\ s.data = [path |-> g.path, rev |-> g.seen]
                                     /\ g.seen \in Nat /\ g.seen # None
    BY <1>2, <1>3, AnswerTaken
<1> HIDE DEF s
<1>5. query' = [query EXCEPT ![k] = s]
    BY <1>2 DEF s
<1>6. /\ query' \in [QueriesOf(page) -> Held(page)]
      /\ \A q \in QueriesOf(page) : query'[q].id = query[q].id /\ (q = k \/ query'[q] = query[q])
      /\ query'[k] = s
    BY <1>3, <1>4, <1>5
<1> HIDE DEF k
<1>7. ASSUME NEW h \in gets PROVE GetSound(h)'
  <2>1. h.query \in QueriesOf(page) /\ GetSound(h)
      BY DEF ListsSound, Gets
  <2> QED BY <1>1, <1>6, <2>1 DEF GetSound
<1>8. g.id = query[k].id /\ s.data # None =>
         /\ PathOf(k, s.data.path) /\ s.data.rev >= told[s.data.path]
  <2> SUFFICES ASSUME g.id = query[k].id, s.data # None
               PROVE  PathOf(k, s.data.path) /\ s.data.rev >= told[s.data.path]
      OBVIOUS
  <2>1. s.data.path = g.path /\ s.data.rev = g.seen /\ g.seen \in Nat /\ g.seen # None
      BY <1>4
  <2>2. PathOf(k, g.path) /\ (g.seen # None => told[g.path] <= g.seen)
      BY <1>3 DEF GetSound, k
  <2>3. told[g.path] \in Nat
      BY <1>3 DEF ListsSound, Gets
  <2> QED BY <2>1, <2>2, <2>3
<1>9. \A q \in QueriesOf(page) : QuerySound(q)'
    BY <1>3, <1>4, <1>6, <1>8 DEF ListsSound, QuerySound
<1>10. ReadsItsWrites'
    BY <1>1, <1>3, <1>4, <1>6, <1>8 DEF ListsSound, ReadsItsWrites, RowsShown
<1>11. LoadingWaits'
  <2> SUFFICES ASSUME NEW q \in QueriesOf(page), query'[q].loading
               PROVE  \E h \in gets' : h.query = q /\ h.id = query'[q].id
      BY <1>6 DEF LoadingWaits
  <2>1. query[q].loading /\ query'[q] = query[q] /\ (q = k => g.id # query[k].id)
      BY <1>4, <1>6
  <2>2. PICK h \in gets : h.query = q /\ h.id = query[q].id
      BY <1>3, <2>1 DEF ListsSound, LoadingWaits
  <2>3. h # g
      BY <2>1, <2>2 DEF k
  <2> QED BY <1>1, <2>1, <2>2, <2>3
<1> QED BY <1>1, <1>6, <1>7, <1>9, <1>10, <1>11 DEF ListsSound, ToldSound
-----------------------------------------------------------------------------
(* Clicks and changes.                                                     *)
LEMMA WorkIs ==
    ASSUME ButtonsSound, page \in Pages, NEW w \in works
    PROVE  /\ w \in Works(page) /\ w.handler \in HandlersOf(page) /\ w.row \in Rows \cup {"on"}
           /\ w.path \in PathsOf(page) /\ w.rev \in Nat
           /\ PathOf(w.handler.changes, w.path) /\ w.rev <= server[w.path]
           /\ w.handler.changes \in QueriesOf(page)
<1>1. w \in Works(page) /\ WorkSound(w)
    BY DEF ButtonsSound
<1>2. w.handler \in HandlersOf(page) /\ w.row \in Rows \cup {"on"} /\ w.path \in PathsOf(page) /\ w.rev \in Nat
    BY <1>1 DEF Works
<1> QED BY <1>1, <1>2, HandlerOf DEF WorkSound

Steps == {"sent", "done", "refused", "reloading"}
SameWork(v, w) == v.handler = w.handler /\ v.row = w.row /\ v.path = w.path
Served(w, step, rev) == [w EXCEPT !.step = step, !.rev = rev]
Awaiting(w, step, awaits) == [w EXCEPT !.step = step, !.awaits = awaits]
LEMMA WorkServed ==
    ASSUME NEW p, NEW w \in Works(p), NEW step \in Steps, NEW rev \in Nat
    PROVE  /\ Served(w, step, rev) \in Works(p)
           /\ SameWork(Served(w, step, rev), w) /\ Served(w, step, rev).rev = rev
BY DEF Works, Served, SameWork, Steps
LEMMA WorkRefused ==
    ASSUME NEW p, NEW w \in Works(p)
    PROVE  [w EXCEPT !.step = "refused"] = Served(w, "refused", w.rev)
BY DEF Works, Served
LEMMA WorkReloads ==
    ASSUME NEW p, NEW w \in Works(p), NEW step \in Steps, NEW awaits \in SUBSET (QueriesOf(p) \X Nat)
    PROVE  /\ Awaiting(w, step, awaits) \in Works(p)
           /\ SameWork(Awaiting(w, step, awaits), w) /\ Awaiting(w, step, awaits).rev = w.rev
<1>1. PICK A : A = SUBSET (QueriesOf(p) \X Nat)
    OBVIOUS
<1> QED BY <1>1 DEF Works, Awaiting, SameWork, Steps

LEMMA PressKeeps ==
    ASSUME PageInv, page \in Pages, NEW h \in HandlersOf(page), NEW r \in Rows \cup {"on"},
           h.changes = "detail" => selected \in Rows,
           Press(h, r)
    PROVE  PageInv'
<1>1. /\ page \in Pages \cup {None} /\ selected \in Rows \cup {None} /\ clicks \in Nat
      /\ ListsSound /\ ButtonsSound
    BY PageInvIs
<1>2. PICK path, w :
         /\ path = IF h.changes = "detail" THEN selected ELSE h.changes
         /\ w = [handler |-> h, row |-> r, no |-> clicks, step |-> "sent", awaits |-> {},
                 path |-> path, rev |-> 0]
         /\ works' = works \cup {w}
    BY DEF Press
<1>3. /\ UNCHANGED <<page, query, gets, server, told, selected>> /\ flag' = Raised(h, r)
      /\ clicks' = clicks + 1
    BY DEF Press
<1>4. /\ h.changes \in QueriesOf(page) /\ h.flag \in Flags \cup {None}
      /\ PathOf(h.changes, path) /\ path \in PathsOf(page)
  <2>1. h.changes \in QueriesOf(page) /\ h.flag \in Flags \cup {None}
      BY HandlerOf
  <2>2. PathOf(h.changes, path)
      BY <1>2 DEF PathOf
  <2> QED BY <2>1, <2>2, PathOfQuery
<1>5. /\ w \in Works(page) /\ w.handler = h /\ w.row = r /\ w.path = path /\ w.rev = 0
    BY <1>1, <1>2, <1>4 DEF Works
<1>6. WorkSound(w)'
    BY <1>1, <1>3, <1>4, <1>5 DEF WorkSound, ListsSound
<1>7. \A v \in works : WorkSound(v)'
    BY <1>1, <1>3 DEF ButtonsSound, WorkSound
<1>8. /\ flag' \in [Flags -> Rows \cup {"on", None}]
      /\ \A f \in Flags : \/ flag'[f] = flag[f]
                          \/ f = h.flag /\ (flag'[f] = "on" \/ flag'[f] = r)
    BY <1>1, <1>3, <1>4 DEF Raised, ButtonsSound
<1>9. FlagsWait'
  <2> SUFFICES ASSUME NEW f \in Flags, flag'[f] # None
               PROVE  \E v \in works' : v.handler.flag = f /\ (flag'[f] = "on" \/ flag'[f] = v.row)
      BY DEF FlagsWait
  <2>1. CASE flag'[f] = flag[f]
      BY <1>1, <1>2, <2>1 DEF ButtonsSound, FlagsWait
  <2>2. CASE f = h.flag /\ (flag'[f] = "on" \/ flag'[f] = r)
      BY <1>2, <1>5, <2>2
  <2> QED BY <1>8, <2>1, <2>2
<1>10. ButtonsSound'
    BY <1>1, <1>2, <1>3, <1>5, <1>6, <1>7, <1>8, <1>9 DEF ButtonsSound
<1>11. ListsSound'
    BY <1>1, <1>3, ListsKept
<1> QED BY <1>1, <1>3, <1>10, <1>11, PageInvNext

LEMMA ServeKeeps == ASSUME PageInv, page \in Pages, NEW w \in works, Serve(w) PROVE PageInv'
<1>1. /\ page \in Pages \cup {None} /\ selected \in Rows \cup {None} /\ clicks \in Nat
      /\ ListsSound /\ ButtonsSound
    BY PageInvIs
<1>2. UNCHANGED <<page, query, gets, flag, selected, told, clicks>>
    BY DEF Serve
<1>3. /\ w \in Works(page) /\ w.path \in PathsOf(page) /\ w.rev \in Nat
      /\ PathOf(w.handler.changes, w.path) /\ w.rev <= server[w.path]
    BY <1>1, WorkIs
<1>4. server \in [PathsOf(page) -> Nat]
    BY <1>1 DEF ListsSound
<1>5. PICK v \in Works(page) :
         /\ works' = (works \ {w}) \cup {v} /\ SameWork(v, w) /\ v.rev <= server'[w.path]
         /\ server' = server \/ server' = [server EXCEPT ![w.path] = @ + 1]
  <2>1. CASE /\ works' = (works \ {w}) \cup {[w EXCEPT !.step = "refused"]}
             /\ server' = server
    <3>1. PICK v : v = Served(w, "refused", w.rev) /\ "refused" \in Steps
        BY DEF Steps
    <3>2. v \in Works(page) /\ SameWork(v, w) /\ v.rev = w.rev /\ v = [w EXCEPT !.step = "refused"]
        BY <1>3, <3>1, WorkServed, WorkRefused
    <3> QED BY <1>3, <2>1, <3>2
  <2>2. ASSUME NEW step \in {"done", "refused"}, server' = [server EXCEPT ![w.path] = @ + 1],
               works' = (works \ {w}) \cup {[w EXCEPT !.step = step, !.rev = server[w.path] + 1]}
        PROVE  \E v \in Works(page) :
                  /\ works' = (works \ {w}) \cup {v} /\ SameWork(v, w) /\ v.rev <= server'[w.path]
    <3>1. PICK n \in Nat : n = server[w.path] + 1 /\ server'[w.path] = n
        BY <1>3, <1>4, <2>2
    <3>2. PICK v : v = Served(w, step, n)
        OBVIOUS
    <3>3. step \in Steps
        BY DEF Steps
    <3>4. v \in Works(page) /\ SameWork(v, w) /\ v.rev = n
      <4>1. w \in Works(page)
          BY <1>3
      <4>2. /\ Served(w, step, n) \in Works(page)
            /\ SameWork(Served(w, step, n), w) /\ Served(w, step, n).rev = n
          BY ONLY <3>3, <4>1, n \in Nat, WorkServed, Zenon
      <4> QED BY ONLY <3>2, <4>2
    <3>5. works' = (works \ {w}) \cup {v}
        BY <2>2, <3>1, <3>2 DEF Served
    <3> QED BY <3>1, <3>4, <3>5
  <2> QED BY <2>1, <2>2 DEF Serve
<1>6. Grown
    BY <1>4, <1>5 DEF Grown
<1>7. ListsSound'
    BY <1>1, <1>2, <1>6, ListsGrow
<1>8. \A u \in works' : WorkSound(u)'
  <2>1. ASSUME NEW u \in works PROVE WorkSound(u)'
    <3>1. u.path \in PathsOf(page) /\ u.rev \in Nat /\ PathOf(u.handler.changes, u.path) /\ u.rev <= server[u.path]
        BY <1>1, WorkIs
    <3> QED BY <1>4, <1>6, <3>1 DEF Grown, WorkSound
  <2>2. WorkSound(v)'
      BY <1>3, <1>5 DEF WorkSound, SameWork
  <2> QED BY <1>5, <2>1, <2>2
<1>9. works' \subseteq Works(page)
    BY <1>1, <1>5 DEF ButtonsSound
<1>10. FlagsWait'
    BY <1>1, <1>2, <1>5 DEF ButtonsSound, FlagsWait, SameWork
<1>11. ButtonsSound'
    BY <1>1, <1>2, <1>8, <1>9, <1>10 DEF ButtonsSound
<1> QED BY <1>1, <1>2, <1>7, <1>11, PageInvNext

LEMMA OthersKeeps == ASSUME PageInv, page \in Pages, Others PROVE PageInv'
<1>1. /\ page \in Pages \cup {None} /\ selected \in Rows \cup {None} /\ clicks \in Nat
      /\ ListsSound /\ ButtonsSound
    BY PageInvIs
<1>2. server \in [PathsOf(page) -> Nat]
    BY <1>1 DEF ListsSound
<1>3. Grown
    BY <1>2 DEF Others, Grown
<1>4. UNCHANGED <<page, query, gets, works, flag, selected, told, clicks>>
    BY DEF Others
<1> QED BY <1>1, <1>3, <1>4, ListsGrow, ButtonsKept, PageInvNext
-----------------------------------------------------------------------------
(* A change that is done is heard of, and the handler goes on.             *)
LEMMA Heard ==
    ASSUME PageInv, page \in Pages, NEW w \in works,
           told' = [told EXCEPT ![w.path] = IF @ < w.rev THEN w.rev ELSE @]
    PROVE  /\ told' \in [PathsOf(page) -> Nat] /\ told'[w.path] <= server[w.path]
           /\ \A z \in PathsOf(page) \ {w.path} : told'[z] = told[z]
<1>1. ButtonsSound /\ ListsSound
    BY PageInvIs
<1>2. w.path \in PathsOf(page) /\ w.rev \in Nat /\ w.rev <= server[w.path]
    BY <1>1, WorkIs
<1>3. /\ told \in [PathsOf(page) -> Nat] /\ told[w.path] \in Nat /\ told[w.path] <= server[w.path]
    BY <1>1, <1>2 DEF ListsSound, ToldSound
<1> QED BY <1>2, <1>3

LEMMA GoesOn ==
    ASSUME PageInv, page \in Pages, NEW w \in works, NEW v \in Works(page), SameWork(v, w),
           v.rev = w.rev, works' = (works \ {w}) \cup {v}, UNCHANGED <<page, flag, server>>
    PROVE  ButtonsSound'
<1>1. ButtonsSound
    BY PageInvIs
<1>2. \A u \in works' : WorkSound(u)'
    BY <1>1 DEF ButtonsSound, WorkSound, SameWork
<1>3. FlagsWait'
    BY <1>1 DEF ButtonsSound, FlagsWait, SameWork
<1> QED BY <1>1, <1>2, <1>3 DEF ButtonsSound

LEMMA ReloadingIs ==
    ASSUME PageInv, page \in Pages, NEW w \in works
    PROVE  Reloading(w) \in Works(page) /\ SameWork(Reloading(w), w) /\ Reloading(w).rev = w.rev
<1>1. ButtonsSound /\ ListsSound
    BY PageInvIs
<1>2. w \in Works(page) /\ w.handler.reloads \subseteq QueriesOf(page)
    BY <1>1, WorkIs, HandlerOf
<1>3. \A q \in QueriesOf(page) : query[q].id + 1 \in Nat
    BY <1>1 DEF ListsSound, Held
<1>4. PICK awaits : awaits = {<<q, query[q].id + 1>> : q \in w.handler.reloads}
    OBVIOUS
<1>5. awaits \in SUBSET (QueriesOf(page) \X Nat)
    BY <1>2, <1>3, <1>4
<1>6. Reloading(w) = Awaiting(w, "reloading", awaits) /\ "reloading" \in Steps
    BY <1>4 DEF Reloading, Awaiting, Steps
<1> QED BY <1>2, <1>5, <1>6, WorkReloads

LEMMA DoneKeeps == ASSUME PageInv, page \in Pages, NEW w \in works, Done(w) PROVE PageInv'
<1>1. /\ page \in Pages \cup {None} /\ selected \in Rows \cup {None} /\ clicks \in Nat
      /\ ListsSound /\ ButtonsSound
    BY PageInvIs
<1> DEFINE R == w.handler.reloads
<1>2. /\ Reload(R, w.path) /\ works' = (works \ {w}) \cup {Reloading(w)}
      /\ told' = [told EXCEPT ![w.path] = IF @ < w.rev THEN w.rev ELSE @]
      /\ UNCHANGED <<page, flag, selected, server, clicks>>
    BY DEF Done
<1>3. /\ w.path \in PathsOf(page) /\ PathOf(w.handler.changes, w.path)
      /\ R \subseteq QueriesOf(page) /\ w.handler.changes \in R
      /\ "detail" \in R => w.path \in Rows
  <2>1. w.handler \in HandlersOf(page) /\ w.path \in PathsOf(page) /\ PathOf(w.handler.changes, w.path)
      BY <1>1, WorkIs
  <2>2. R \subseteq QueriesOf(page) /\ w.handler.changes \in R /\ ("detail" \in R => w.handler.changes = "detail")
      BY <2>1, HandlerOf
  <2> QED BY <2>1, <2>2 DEF PathOf
<1>4. /\ told' \in [PathsOf(page) -> Nat] /\ told'[w.path] <= server[w.path]
      /\ \A z \in PathsOf(page) \ {w.path} : told'[z] = told[z]
    BY <1>2, Heard
<1> HIDE DEF R
<1>5. ListsSound'
    BY <1>1, <1>2, <1>3, <1>4, ReloadKeeps
<1>6. ButtonsSound'
    BY <1>2, ReloadingIs, GoesOn
<1> QED BY <1>1, <1>2, <1>5, <1>6, PageInvNext

LEMMA CreatedKeeps == ASSUME PageInv, page \in Pages, NEW w \in works, Created(w) PROVE PageInv'
<1>1. /\ page \in Pages \cup {None} /\ selected \in Rows \cup {None} /\ clicks \in Nat
      /\ ListsSound /\ ButtonsSound
    BY PageInvIs
<1>2. PICK r \in Rows : selected' = r /\ Reload({"bases", "detail"}, r)
    BY DEF Created
<1>3. /\ works' = (works \ {w}) \cup {Reloading(w)}
      /\ told' = [told EXCEPT ![w.path] = IF @ < w.rev THEN w.rev ELSE @]
      /\ UNCHANGED <<page, flag, server, clicks>>
    BY DEF Created
<1>4. page = "knowledge" /\ w.handler.changes = "bases" /\ PathOf("bases", w.path) /\ w.path \in PathsOf(page)
    BY <1>1, WorkIs, HandlerOf DEF Created
<1>5. {"bases", "detail"} \subseteq QueriesOf(page)
    BY <1>4 DEF QueriesOf
<1>6. /\ told' \in [PathsOf(page) -> Nat] /\ told'[w.path] <= server[w.path]
      /\ \A z \in PathsOf(page) \ {w.path} : told'[z] = told[z]
    BY <1>3, Heard
<1>7. PICK R : R = {"bases", "detail"}
    OBVIOUS
<1>8. ListsSound'
    BY <1>1, <1>2, <1>3, <1>4, <1>5, <1>6, <1>7, ReloadKeeps
<1>9. ButtonsSound'
    BY <1>3, ReloadingIs, GoesOn
<1> QED BY <1>1, <1>2, <1>3, <1>8, <1>9, PageInvNext

LEMMA FinishKeeps == ASSUME PageInv, page \in Pages, NEW w \in works, Finish(w) PROVE PageInv'
<1>1. /\ page \in Pages \cup {None} /\ selected \in Rows \cup {None} /\ clicks \in Nat
      /\ ListsSound /\ ButtonsSound
    BY PageInvIs
<1>2. /\ works' = works \ {w} /\ flag' = Lowered(w.handler)
      /\ UNCHANGED <<page, query, gets, selected, server, told, clicks>>
    BY DEF Finish
<1>3. /\ flag' \in [Flags -> Rows \cup {"on", None}]
      /\ \A f \in Flags : flag'[f] = None \/ (flag'[f] = flag[f] /\ f # w.handler.flag)
    BY <1>1, <1>2, ListConstants DEF ButtonsSound, Lowered
<1>4. FlagsWait'
    BY <1>1, <1>2, <1>3 DEF ButtonsSound, FlagsWait
<1>5. \A u \in works' : WorkSound(u)'
    BY <1>1, <1>2 DEF ButtonsSound, WorkSound
<1>6. ButtonsSound'
    BY <1>1, <1>2, <1>3, <1>4, <1>5 DEF ButtonsSound
<1> QED BY <1>1, <1>2, <1>6, ListsKept, PageInvNext
\* With the detail goes all that was under way in it.
LEMMA RemovedKeeps == ASSUME PageInv, page \in Pages, NEW w \in works, Removed(w) PROVE PageInv'
<1>1. /\ page \in Pages \cup {None} /\ selected \in Rows \cup {None} /\ clicks \in Nat
      /\ ListsSound /\ ButtonsSound
    BY PageInvIs
<1>2. /\ query' = [query EXCEPT !["bases"] = Asked(@), !["detail"] = Unasked]
      /\ gets' = {g \in gets : g.query # "detail"} \cup {Asking("bases", query["bases"].id + 1)}
      /\ works' = {v \in works : v.handler.changes # "detail" /\ v.handler # RemoveBase}
      /\ flag' = [f \in Flags |-> IF f \in OfDetail THEN None ELSE flag[f]]
      /\ told' = [told EXCEPT ![w.path] = IF @ < w.rev THEN w.rev ELSE @]
      /\ selected' = None /\ UNCHANGED <<page, server, clicks>>
    BY DEF Removed
<1>3. page = "knowledge" /\ PathOf("bases", w.path) /\ w.path \in PathsOf(page)
    BY <1>1, WorkIs, HandlerOf DEF Removed
<1>4. w.path = "bases" /\ QueriesOf(page) = {"bases", "detail"}
    BY <1>3 DEF PathOf, QueriesOf
<1>5. /\ told' \in [PathsOf(page) -> Nat] /\ told'["bases"] <= server["bases"]
      /\ \A z \in PathsOf(page) \ {"bases"} : told'[z] = told[z]
    BY <1>2, <1>4, Heard
<1>6. ListsSound'
  <2>1. /\ query \in [QueriesOf(page) -> Held(page)] /\ gets \subseteq Gets(page)
        /\ server \in [PathsOf(page) -> Nat] /\ ToldSound /\ (\A g \in gets : GetSound(g))
        /\ (\A q \in QueriesOf(page) : QuerySound(q))
      BY <1>1 DEF ListsSound
  <2>2. PICK b, r : b = Asked(query["bases"]) /\ r = Asking("bases", query["bases"].id + 1)
      OBVIOUS
  <2>3. query["bases"] \in Held(page)
      BY <1>4, <2>1
  <2>4. /\ b \in Held(page) /\ b.id = query["bases"].id + 1 /\ b.loading /\ b.data = query["bases"].data
      BY <2>2, <2>3, AskedHolds
  <2>5. /\ r \in Gets(page) /\ r.query = "bases" /\ r.id = b.id /\ r.path = "bases" /\ r.seen = None
    <3>1. "bases" \in PathsOf(page) /\ query["bases"].id + 1 \in Nat
        BY <1>3, <1>4, <2>3 DEF Held
    <3> QED BY <1>4, <2>2, <2>4, <3>1 DEF Asking, Gets
  <2>6. Unasked \in Held(page) /\ ~Unasked.loading /\ Unasked.data = None
      BY DEF Unasked, Held
  <2>7. query' = [query EXCEPT !["bases"] = b, !["detail"] = Unasked]
      BY <1>2, <2>2
  <2>8. /\ query' \in [QueriesOf(page) -> Held(page)] /\ query'["bases"] = b /\ query'["detail"] = Unasked
      BY <1>4, <2>1, <2>4, <2>6, <2>7
  <2>9. gets' = {g \in gets : g.query # "detail"} \cup {r} /\ gets' \subseteq Gets(page)
      BY <1>2, <2>1, <2>2, <2>5
  <2>10. ToldSound'
      BY <1>2, <1>5, <2>1 DEF ToldSound
  <2>11. ASSUME NEW g \in gets' PROVE GetSound(g)'
    <3>1. CASE g = r
        BY <2>3, <2>4, <2>5, <2>8, <3>1 DEF GetSound, PathOf, Held
    <3>2. CASE g \in gets /\ g.query # "detail"
      <4>1. g.query = "bases" /\ g.id <= query["bases"].id /\ PathOf(g.query, g.path) /\ g.id \in Nat
          BY <1>4, <2>1, <3>2 DEF Gets, GetSound
      <4>2. query'[g.query].id = query["bases"].id + 1 /\ query["bases"].id \in Nat
          BY <2>3, <2>4, <2>8, <4>1 DEF Held
      <4> QED BY <4>1, <4>2 DEF GetSound
    <3> QED BY <2>9, <3>1, <3>2
  <2>12. \A q \in QueriesOf(page) : QuerySound(q)'
      BY <1>4, <2>1, <2>4, <2>6, <2>8 DEF QuerySound
  <2>13. ReadsItsWrites'
      BY <1>4, <2>4, <2>6, <2>8 DEF ReadsItsWrites, RowsShown
  <2>14. LoadingWaits'
      BY <1>4, <2>5, <2>6, <2>8, <2>9 DEF LoadingWaits
  <2> QED BY <1>2, <1>5, <2>1, <2>8, <2>9, <2>10, <2>11, <2>12, <2>13, <2>14 DEF ListsSound
<1>7. ButtonsSound'
  <2>1. flag' \in [Flags -> Rows \cup {"on", None}]
      BY <1>1, <1>2 DEF ButtonsSound
  <2>2. FlagsWait'
    <3> SUFFICES ASSUME NEW f \in Flags, flag'[f] # None
                 PROVE  \E v \in works' : v.handler.flag = f /\ (flag'[f] = "on" \/ flag'[f] = v.row)
        BY DEF FlagsWait
    <3>1. f \notin OfDetail /\ flag'[f] = flag[f] /\ f # None
        BY <1>2, ListConstants
    <3>2. PICK v \in works : v.handler.flag = f /\ (flag[f] = "on" \/ flag[f] = v.row)
        BY <1>1, <3>1 DEF ButtonsSound, FlagsWait
    <3>3. v.handler.changes # "detail" /\ v.handler # RemoveBase
        BY <1>1, <3>1, <3>2, WorkIs, HandlerOf
    <3> QED BY <1>2, <3>1, <3>2, <3>3
  <2>3. \A v \in works' : WorkSound(v)'
      BY <1>1, <1>2 DEF ButtonsSound, WorkSound
  <2> QED BY <1>1, <1>2, <2>1, <2>2, <2>3 DEF ButtonsSound
<1> QED BY <1>1, <1>2, <1>6, <1>7, PageInvNext

LEMMA PageKept == PageInv /\ UNCHANGED pageVars => PageInv'
<1> SUFFICES ASSUME PageInv, UNCHANGED pageVars PROVE PageInv'
    OBVIOUS
<1>1. /\ page \in Pages \cup {None} /\ selected \in Rows \cup {None} /\ clicks \in Nat
      /\ ListsSound /\ ButtonsSound
    BY PageInvIs
<1>2. UNCHANGED <<page, query, gets, works, flag, selected, server, told, clicks>>
    BY DEF pageVars
<1>3. ButtonsSound'
    BY <1>1, <1>2 DEF ButtonsSound, WorkSound, FlagsWait
<1> QED BY <1>1, <1>2, <1>3, ListsKept, PageInvNext

LEMMA ShowPageSound == ASSUME NEW p \in Pages, ShowPage(p) PROVE PageInv'
<1>1. /\ page' = p /\ selected' = None /\ clicks' = 0 /\ works' = {}
      /\ flag' = [f \in Flags |-> None]
      /\ query' = [q \in QueriesOf(p) |-> IF q = "detail" THEN Unasked ELSE Asked(Unasked)]
      /\ gets' = {Asking(q, 1) : q \in QueriesOf(p) \ {"detail"}}
      /\ server' = [x \in PathsOf(p) |-> 0] /\ told' = [x \in PathsOf(p) |-> 0]
    BY DEF ShowPage
<1>2. Unasked \in Held(p) /\ Unasked.id = 0 /\ ~Unasked.loading /\ Unasked.data = None
    BY DEF Unasked, Held
<1>3. Asked(Unasked) \in Held(p) /\ Asked(Unasked).id = 1 /\ Asked(Unasked).data = None
      /\ Asked(Unasked).loading
    BY <1>2, AskedHolds
<1>4. ASSUME NEW q \in QueriesOf(p) \ {"detail"}
      PROVE  /\ Asking(q, 1) \in Gets(p) /\ Asking(q, 1).query = q /\ Asking(q, 1).id = 1
             /\ Asking(q, 1).seen = None /\ PathOf(q, Asking(q, 1).path)
    BY DEF Asking, Gets, PathOf, PathsOf
<1>5. query' \in [QueriesOf(p) -> Held(p)] /\ gets' \subseteq Gets(p)
    BY <1>1, <1>2, <1>3, <1>4
<1>6. \A g \in gets' : GetSound(g)'
    BY <1>1, <1>3, <1>4 DEF GetSound
<1>7. LoadingWaits'
    BY <1>1, <1>2, <1>3, <1>4 DEF LoadingWaits
<1>8. (\A q \in QueriesOf(p) : QuerySound(q)') /\ ReadsItsWrites'
    BY <1>1, <1>2, <1>3 DEF QuerySound, ReadsItsWrites, RowsShown
<1>9. ListsSound'
    BY <1>1, <1>5, <1>6, <1>7, <1>8 DEF ListsSound, ToldSound
<1>10. ButtonsSound'
    BY <1>1 DEF ButtonsSound, FlagsWait
<1> QED BY <1>1, <1>9, <1>10, PageInvNext

LEMMA NoPageSound == LeavePage => PageInv'
<1> SUFFICES ASSUME LeavePage PROVE PageInv'
    OBVIOUS
<1>1. /\ page' = None /\ selected' = None /\ clicks' = 0 /\ works' = {} /\ gets' = {}
      /\ flag' = [f \in Flags |-> None] /\ query' = <<>> /\ server' = <<>> /\ told' = <<>>
    BY DEF LeavePage
<1>2. QueriesOf(None) = {} /\ PathsOf(None) = {}
    BY ListConstants DEF Pages, QueriesOf, PathsOf
<1>3. \A S : <<>> \in [{} -> S]
    OBVIOUS
<1>4. ListsSound'
    BY <1>1, <1>2, <1>3 DEF ListsSound, ToldSound, ReadsItsWrites, LoadingWaits
<1>5. ButtonsSound'
    BY <1>1 DEF ButtonsSound, FlagsWait
<1> QED BY <1>1, <1>4, <1>5, PageInvNext
-----------------------------------------------------------------------------
(* What the buttons of each page do.                                       *)
LEMMA DialogKeeps ==
    ASSUME PageInv, (\E d, r : Open(d, r)) \/ (\E d : Close(d))
    PROVE  PageInv'
<1>1. /\ page \in Pages \cup {None} /\ selected \in Rows \cup {None} /\ clicks \in Nat
      /\ ListsSound /\ ButtonsSound
    BY PageInvIs
<1>2. /\ UNCHANGED <<page, query, gets, works, flag, selected, server, told>>
      /\ clicks' \in {clicks, clicks + 1}
    BY DEF Open, Close
<1>3. ButtonsSound'
    BY <1>1, <1>2 DEF ButtonsSound, WorkSound, FlagsWait
<1> QED BY <1>1, <1>2, <1>3, ListsKept, PageInvNext

\* The lists are asked for again, for a click and not for a change.
LEMMA AgainKeeps ==
    ASSUME PageInv, page \in Pages, NEW R \in SUBSET QueriesOf(page), NEW x,
           "detail" \in R => x \in Rows, Reload(R, x),
           UNCHANGED <<page, works, flag, server, told>>, selected' \in Rows \cup {None}, clicks' \in Nat
    PROVE  PageInv'
<1>1. ListsSound /\ ButtonsSound
    BY PageInvIs
<1>2. ListsSound'
    BY <1>1, ReloadKeeps
<1>3. ButtonsSound'
    BY <1>1 DEF ButtonsSound, WorkSound, FlagsWait
<1> QED BY <1>2, <1>3, PageInvNext

LEMMA SelectKeeps == ASSUME PageInv, page = "knowledge", NEW r \in Rows, Select(r) PROVE PageInv'
<1>1. PICK R : R = {"detail"}
    OBVIOUS
<1>2. page \in Pages /\ R \in SUBSET QueriesOf(page)
    BY <1>1 DEF Pages, QueriesOf
<1>3. clicks' \in Nat /\ selected' \in Rows \cup {None}
    BY PageInvIs DEF Select
<1> QED BY <1>1, <1>2, <1>3, AgainKeeps DEF Select

LEMMA RetryKeeps == ASSUME PageInv, page \in Pages, Retry PROVE PageInv'
<1>1. selected \in Rows \cup {None} /\ clicks \in Nat /\ DOMAIN query = QueriesOf(page)
    BY PageInvIs DEF ListsSound
<1>2. PICK q \in QueriesOf(page) :
         /\ q = "detail" => selected # None
         /\ clicks' = clicks + 1 /\ Reload({q}, selected)
         /\ UNCHANGED <<page, works, flag, dialog, links, selected, server, told>>
    BY <1>1 DEF Retry
<1>3. PICK R : R = {q}
    OBVIOUS
<1>4. R \in SUBSET QueriesOf(page) /\ ("detail" \in R => selected \in Rows)
    BY <1>1, <1>2, <1>3
<1> QED BY <1>1, <1>2, <1>3, <1>4, AgainKeeps

\* A button of the page shown, not of the detail.
LEMMA ButtonKeeps ==
    ASSUME PageInv, NEW p \in Pages, page = p, NEW h \in HandlersOf(p), h.changes # "detail",
           NEW r \in Rows \cup {"on"}, Press(h, r)
    PROVE  PageInv'
BY PressKeeps

LEMMA ShownPageKeeps ==
    ASSUME PageInv,
           \/ AgentsPage \/ ProvidersPage \/ ToolsPage \/ ApiKeysPage \/ MembersPage
           \/ KnowledgePage \/ KnowledgeDetail \/ ConversationPage \/ SettingsPage
    PROVE  PageInv'
<1>1. CASE AgentsPage
  <2>1. DuplicateAgent \in HandlersOf("agents") /\ DuplicateAgent.changes # "detail" /\ "agents" \in Pages
      BY DEF HandlersOf, DuplicateAgent, Handler, Pages
  <2> QED BY <1>1, <2>1, ButtonKeeps DEF AgentsPage
<1>2. CASE ProvidersPage
  <2>1. /\ \A h \in {ValidateProvider, RemoveProvider, CreateProvider} :
              h \in HandlersOf("providers") /\ h.changes # "detail"
        /\ "providers" \in Pages
      BY DEF HandlersOf, ValidateProvider, RemoveProvider, CreateProvider, Handler, Pages
  <2> QED BY <1>2, <2>1, ButtonKeeps, DialogKeeps DEF ProvidersPage, Confirm
<1>3. CASE ToolsPage
  <2>1. /\ \A h \in {RemoveTool, CreateTool} : h \in HandlersOf("tools") /\ h.changes # "detail"
        /\ "tools" \in Pages
      BY DEF HandlersOf, RemoveTool, CreateTool, Handler, Pages
  <2> QED BY <1>3, <2>1, ButtonKeeps, DialogKeeps DEF ToolsPage, Confirm
<1>4. CASE ApiKeysPage
  <2>1. /\ \A h \in {RevokeKey, CreateKey} : h \in HandlersOf("apiKeys") /\ h.changes # "detail"
        /\ "apiKeys" \in Pages
      BY DEF HandlersOf, RevokeKey, CreateKey, Handler, Pages
  <2> QED BY <1>4, <2>1, ButtonKeeps, DialogKeeps DEF ApiKeysPage, Confirm
<1>5. CASE MembersPage
  <2>1. /\ \A h \in {UpdateRole, RemoveMember, RevokeInvitation, Invite, CreateRole} :
              h \in HandlersOf("members") /\ h.changes # "detail"
        /\ "members" \in Pages
      BY DEF HandlersOf, UpdateRole, RemoveMember, RevokeInvitation, Invite, CreateRole, Handler, Pages
  <2> QED BY <1>5, <2>1, ButtonKeeps, DialogKeeps DEF MembersPage, Confirm
<1>6. CASE KnowledgePage
  <2>1. CreateBase \in HandlersOf("knowledge") /\ CreateBase.changes # "detail" /\ "knowledge" \in Pages
      BY DEF HandlersOf, CreateBase, Handler, Pages
  <2> QED BY <1>6, <2>1, ButtonKeeps, DialogKeeps, SelectKeeps DEF KnowledgePage, Confirm
<1>7. CASE KnowledgeDetail
  <2>1. {Upload, RemoveDocument, RemoveBase} \subseteq HandlersOf("knowledge") /\ "knowledge" \in Pages
      BY DEF HandlersOf, Pages
  <2>2. selected \in Rows
      BY <1>7, PageInvIs DEF KnowledgeDetail
  <2> QED BY <1>7, <2>1, <2>2, PressKeeps DEF KnowledgeDetail
<1>8. CASE ConversationPage
  <2>1. Decide \in HandlersOf("conversation") /\ Decide.changes # "detail" /\ "conversation" \in Pages
      BY DEF HandlersOf, Decide, Handler, Pages
  <2> QED BY <1>8, <2>1, ButtonKeeps, DialogKeeps DEF ConversationPage, Confirm
<1>9. CASE SettingsPage
  <2>1. SaveSettings \in HandlersOf("settings") /\ SaveSettings.changes # "detail" /\ "settings" \in Pages
      BY DEF HandlersOf, SaveSettings, Handler, Pages
  <2> QED BY <1>9, <2>1, ButtonKeeps DEF SettingsPage
<1> QED BY <1>1, <1>2, <1>3, <1>4, <1>5, <1>6, <1>7, <1>8, <1>9

LEMMA PageStepKeeps == ASSUME PageInv, page # None, PageStep PROVE PageInv'
<1>1. /\ page \in Pages /\ selected \in Rows \cup {None} /\ clicks \in Nat
      /\ ListsSound /\ ButtonsSound
    BY PageInvIs
<1>2. CASE \E g \in gets : Read(g) \/ Arrive(g)
  <2>1. ListsSound'
      BY <1>1, <1>2, ReadKeeps, ArriveKeeps
  <2>2. UNCHANGED <<page, works, flag, selected, server, clicks>>
      BY <1>2 DEF Read, Arrive
  <2>3. ButtonsSound'
      BY <1>1, <2>2 DEF ButtonsSound, WorkSound, FlagsWait
  <2> QED BY <1>1, <2>1, <2>2, <2>3, PageInvNext
<1>3. CASE \E w \in works : Serve(w) \/ Done(w) \/ Created(w) \/ Removed(w) \/ Finish(w)
    BY <1>1, <1>3, ServeKeeps, DoneKeeps, CreatedKeeps, RemovedKeeps, FinishKeeps
<1>4. CASE Others
    BY <1>1, <1>4, OthersKeeps
<1>5. CASE Retry \/ \E d \in Dialogs : Close(d)
    BY <1>1, <1>5, RetryKeeps, DialogKeeps
<1>6. CASE \/ AgentsPage \/ ProvidersPage \/ ToolsPage \/ ApiKeysPage \/ MembersPage
           \/ KnowledgePage \/ KnowledgeDetail \/ ConversationPage \/ SettingsPage
    BY <1>6, ShownPageKeeps
<1> QED BY <1>2, <1>3, <1>4, <1>5, <1>6 DEF PageStep
-----------------------------------------------------------------------------
(***************************************************************************)
(* The console.                                                            *)
(***************************************************************************)
LEMMA InitHolds == Init => IInv
<1> SUFFICES ASSUME Init PROVE IInv
    OBVIOUS
<1>1. PageInv
  <2>1. /\ page = None /\ selected = None /\ clicks = 0 /\ works = {} /\ gets = {}
        /\ flag = [f \in Flags |-> None] /\ query = <<>> /\ server = <<>> /\ told = <<>>
      BY DEF Init, NoPage
  <2>2. QueriesOf(None) = {} /\ PathsOf(None) = {}
      BY ListConstants DEF Pages, QueriesOf, PathsOf
  <2>3. \A S : <<>> \in [{} -> S]
      OBVIOUS
  <2>4. ListsSound
      BY <2>1, <2>2, <2>3 DEF ListsSound, ToldSound, ReadsItsWrites, LoadingWaits
  <2>5. ButtonsSound
      BY <2>1 DEF ButtonsSound, FlagsWait
  <2> QED BY <2>1, <2>4, <2>5, PageInvIs
<1>2. EditorInv
  <2>1. /\ agent = Missing /\ form = emptyForm /\ models = Missing /\ said = Missing
        /\ editing = [h \in Handlers |-> Missing] /\ meta = Missing /\ versions = <<>>
      BY DEF Init, NoEditor, Idle
  <2>2. EditorTypeOK
      BY <2>1, EmptyFormTyped, NothingUnderWay DEF EditorTypeOK, Editing
  <2> QED BY <2>1, <2>2, NothingUnderWay DEF EditorInv, SaveSound, SavedAsClicked, Exists
<1>3. PlayInv
  <2>1. /\ open = FALSE /\ messages = <<>> /\ streaming = FALSE /\ failure = FALSE /\ cleared = FALSE
        /\ conversation = Nobody /\ stream = Nobody /\ made = 0 /\ turns = 0
        /\ run = Nobody /\ usage = FALSE /\ trace = {}
      BY DEF Init, NoPlayground
  <2>2. DOMAIN messages = {} /\ messages \in Seq(Answers)
      BY <2>1
  <2>3. PlayTypeOK
      BY <2>1, <2>2 DEF PlayTypeOK, Answers
  <2> QED BY <2>1, <2>2, <2>3 DEF PlayInv, ClearedStaysCleared, PlaygroundWaits
<1> QED BY <1>1, <1>2, <1>3 DEF IInv

LEMMA NextKeeps == IInv /\ [Next]_consoleVars => IInv'
<1> SUFFICES ASSUME IInv, [Next]_consoleVars PROVE IInv'
    OBVIOUS
<1>0. PageInv /\ EditorInv /\ PlayInv
    BY DEF IInv
<1>1. PageInv'
  <2>1. CASE UNCHANGED pageVars
      BY <1>0, <2>1, PageKept
  <2>2. CASE ~UNCHANGED pageVars
    <3>1. \/ \E p \in Pages : ShowPage(p)
          \/ LeavePage
          \/ page # None /\ PageStep
        BY <2>2 DEF consoleVars, Next, ShowList, ShowEditor, ShowPlayground, Leave
    <3> QED BY <1>0, <3>1, ShowPageSound, NoPageSound, PageStepKeeps
  <2> QED BY <2>1, <2>2
<1>2. EditorInv'
  <2>1. CASE UNCHANGED editorVars
      BY <1>0, <2>1, EditorKept
  <2>2. CASE ~UNCHANGED editorVars
    <3>1. NewAgent \/ EditAgent \/ CloseEditor \/ EditorStep
        BY <2>2 DEF consoleVars, Next, ShowList, ShowEditor, ShowPlayground, Leave
    <3>2. CASE CloseEditor
        BY <3>2, EmptyFormTyped, OpenedSound DEF CloseEditor
    <3> QED BY <1>0, <3>1, <3>2, EditorShown, EditorStepKeeps
  <2> QED BY <2>1, <2>2
<1>3. PlayInv'
  <2>1. CASE UNCHANGED playVars
      BY <1>0, <2>1, PlayKept
  <2>2. CASE ~UNCHANGED playVars
    <3>1. Emptied(TRUE) \/ Emptied(FALSE) \/ PlayStep
        BY <2>2 DEF consoleVars, Next, ShowList, ShowEditor, ShowPlayground, Leave
    <3>2. CASE Emptied(TRUE)
        BY <3>2, EmptiedSound
    <3>3. CASE Emptied(FALSE)
        BY <3>3, EmptiedSound
    <3> QED BY <1>0, <3>1, <3>2, <3>3, PlayStepKeeps
  <2> QED BY <2>1, <2>2
<1> QED BY <1>1, <1>2, <1>3 DEF IInv

\* IInv is an invariant of the console, whatever the interleaving of clicks, answers and the
\* changes of others.
THEOREM Inductive == Spec => []IInv
BY InitHolds, NextKeeps, PTL DEF Spec

\* A list that is shown with nothing under way for it is not older than the last change of it
\* that the page was told is done: refetch() and the request ids of useApiQuery.
THEOREM ListsReadTheirWrites == Spec => []ReadsItsWrites
<1>1. IInv => ReadsItsWrites
    BY DEF IInv, PageInv
<1> QED BY <1>1, Inductive, PTL

\* A disabled button, a skeleton or an answer that is pending waits for a handler, a request
\* or a stream under way: every finally lets go of what its handler took, on every page.
THEOREM NothingStaysBusy == Spec => []BusyIsUnderWay
<1>1. IInv => BusyIsUnderWay
    BY DEF IInv, PageInv, PlayInv, BusyIsUnderWay
<1> QED BY <1>1, Inductive, PTL

\* A form that the editor says is saved is stored whole, as it was when it was clicked, though
\* its two requests are sent one after the other and the form is edited meanwhile.
THEOREM FormsSavedAsClicked == Spec => []SavedAsClicked
<1>1. IInv => SavedAsClicked
    BY DEF IInv, EditorInv
<1> QED BY <1>1, Inductive, PTL

\* Of a stream that was under way when the conversation was cleared nothing comes up but the trace's
\* entry that it was cancelled: clear() aborts it, and an aborted stream shows no more events.
THEOREM ClearedPlayground == Spec => []ClearedStaysCleared
<1>1. IInv => ClearedStaysCleared
    BY DEF IInv, PlayInv
<1> QED BY <1>1, Inductive, PTL
=============================================================================
