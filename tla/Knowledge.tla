----------------------------- MODULE Knowledge -----------------------------
(***************************************************************************)
(* Knowledge bases (knowledge.service.ts): documents with their chunks in  *)
(* the database, their files in object storage (storage.service.ts), and   *)
(* what an agent run reads of them (retrieveKnowledge).  Every await is a  *)
(* step: the process may stop before any of them, and every call to the    *)
(* database or to storage may fail, with or without having taken effect.   *)
(***************************************************************************)
EXTENDS Naturals, FiniteSets

CONSTANTS Bases,
          Docs,        \* documents; bounds how many are uploaded
          Lengths,     \* the lengths of texts; a file that is no text has none
          Size,        \* of a chunk: 1600
          Overlap,     \* of neighbours: 200
          MaxChunks,   \* 10 000
          Passages,    \* chunks in a prompt: 6
          MaxFaults,   \* bounds stops of the process and calls that fail
          None

ASSUME KnowledgeConstants ==
    /\ Size \in Nat /\ Overlap \in Nat /\ Overlap < Size
    /\ MaxChunks \in Nat /\ Passages \in Nat /\ MaxFaults \in Nat
    /\ Lengths \subseteq Nat
    /\ Bases \cap Docs = {} /\ None \notin Bases \cup Docs

VARIABLES
    bases,     \* KnowledgeBase: those that exist
    used,      \* bases that an AgentVersion refers to
    doc,       \* Document: base and status, or Unused
    text,      \* how long its text is, None if the file is no text
    chunks,    \* KnowledgeChunk: where the chunks of each document begin
    objects,   \* files in storage, by document
    upload,    \* the upload of each document: which await comes next
    removal,   \* requests that remove a document or a base, by what they remove
    prompt,    \* documents a run has just taken passages from
    faults

vars == <<bases, used, doc, text, chunks, objects, upload, removal, prompt, faults>>

Unused == [base |-> None, status |-> "none"]
\* at: the await that comes next; listed: the documents whose files are to go.
NoRemoval == [at |-> "idle", listed |-> {}]

Init ==
    /\ bases = Bases /\ used \in SUBSET Bases
    /\ doc = [d \in Docs |-> Unused] /\ text = [d \in Docs |-> None]
    /\ chunks = [d \in Docs |-> {}]
    /\ objects = {}
    /\ upload = [d \in Docs |-> "none"]
    /\ removal = [x \in Bases \cup Docs |-> NoRemoval]
    /\ prompt = {} /\ faults = 0

\* An upload waits for a call, or is over: answered with the document, with an error or not at
\* all, or with the error of a creation that has been undone.
UnderWay == {"create", "undo", "park", "index", "fail", "reload"}
Over == {"done", "error", "undone"}

Present(d) == doc[d].status \notin {"none", "removed"}
Contents(b) == {d \in Docs : Present(d) /\ doc[d].base = b}
SetStatus(d, s) == doc' = [doc EXCEPT ![d] = [base |-> @.base, status |-> s]]
Upload(d, next) == upload' = [upload EXCEPT ![d] = next]
Fault == faults < MaxFaults /\ faults' = faults + 1
\* How an upload's call to the database or to storage ends, and what comes next.
Answered(d, next) == Upload(d, next) /\ UNCHANGED faults
Failed(d, next) == Upload(d, next) /\ Fault
\* Storage deletes the file, or fails and keeps it.  What follows is the same if it has failed after
\* deleting: who asked is told, or not even that (upload()).
DeleteObject(d) ==
    \/ objects' = objects \ {d} /\ UNCHANGED faults
    \/ Fault /\ UNCHANGED objects

-----------------------------------------------------------------------------
(* chunkText.                                                              *)

\* A chunk begins Overlap before the last one ended, unless that was the end of the text.
Starts(n) ==
    {s \in 0..n : s % (Size - Overlap) = 0 /\ (s = 0 \/ s + Overlap < n)}

ChunkText(n) ==
    IF n = 0 THEN {}
    ELSE {s \in Starts(n) : Cardinality({r \in Starts(n) : r < s}) < MaxChunks}

-----------------------------------------------------------------------------
(* upload().                                                               *)

\* The base has been found: the file is stored first.
Put(d, b) ==
    /\ b \in bases /\ upload[d] = "none"
    /\ \/ /\ objects' = objects \cup {d} /\ Answered(d, "create")
          /\ \E n \in Lengths \cup {None} : text' = [text EXCEPT ![d] = n]
          /\ doc' = [doc EXCEPT ![d] = [base |-> b, status |-> "none"]]
       \/ /\ objects' \in {objects, objects \cup {d}} /\ Failed(d, "error")
          /\ UNCHANGED <<doc, text>>
    /\ UNCHANGED <<bases, used, chunks, removal, prompt>>

\* The base may be gone, and the row be refused by its foreign key.
CreateDocument(d) ==
    /\ upload[d] = "create"
    /\ \/ /\ doc[d].base \in bases /\ SetStatus(d, "PROCESSING")
          /\ \/ Answered(d, IF text[d] = None THEN "park" ELSE "index")
             \/ Failed(d, "undo")
       \/ /\ UNCHANGED doc
          /\ \/ doc[d].base \notin bases /\ Answered(d, "undo")
             \/ Failed(d, "undo")
    /\ UNCHANGED <<bases, used, text, chunks, objects, removal, prompt>>

\* The file is deleted whatever the error was, also that of a row that has been created.
Undo(d) ==
    /\ upload[d] = "undo"
    /\ DeleteObject(d)
    /\ Upload(d, "undone")
    /\ UNCHANGED <<bases, used, doc, text, chunks, removal, prompt>>

\* A row that has been removed cannot be updated: the upload ends with an error.
UpdateStatus(d, s, next) ==
    \/ /\ Present(d) /\ SetStatus(d, s)
       /\ Answered(d, next) \/ Failed(d, "error")
    \/ /\ UNCHANGED doc
       /\ \/ ~Present(d) /\ Answered(d, "error")
          \/ Failed(d, "error")

Park(d) ==
    /\ upload[d] = "park"
    /\ UpdateStatus(d, "PENDING", "done")
    /\ UNCHANGED <<bases, used, text, chunks, objects, removal, prompt>>

\* The chunks and the status are written by one transaction; no text at all is an error.
Indexable(d) == Present(d) /\ ChunkText(text[d]) # {}
Transaction(d) ==
    /\ Indexable(d) /\ SetStatus(d, "READY")
    /\ chunks' = [chunks EXCEPT ![d] = ChunkText(text[d])]

\* Mutants of Index: the chunks are written before the status, by a statement of
\* their own; or what goes wrong is not noted.
IndexThenReady(d) ==
    /\ upload[d] = "index"
    /\ IF Indexable(d)
       THEN IF chunks[d] = {}
            THEN chunks' = [chunks EXCEPT ![d] = ChunkText(text[d])] /\ UNCHANGED <<doc, upload>>
            ELSE SetStatus(d, "READY") /\ Upload(d, "reload") /\ UNCHANGED chunks
       ELSE Upload(d, "fail") /\ UNCHANGED <<doc, chunks>>
    /\ UNCHANGED <<bases, used, text, objects, removal, prompt, faults>>

IndexUnnoted(d) ==
    /\ upload[d] = "index"
    /\ \/ Transaction(d)
       \/ ~Indexable(d) /\ UNCHANGED <<doc, chunks>>
    /\ Answered(d, "reload")
    /\ UNCHANGED <<bases, used, text, objects, removal, prompt>>

Index(d) ==
    /\ upload[d] = "index"
    /\ \/ Transaction(d) /\ Answered(d, "reload")
       \/ ~Indexable(d) /\ Answered(d, "fail") /\ UNCHANGED <<doc, chunks>>
    /\ UNCHANGED <<bases, used, text, objects, removal, prompt>>

\* The transaction is lost, or is committed and its answer is.
FailToIndex(d) ==
    /\ upload[d] = "index"
    /\ Transaction(d) \/ UNCHANGED <<doc, chunks>>
    /\ Failed(d, "fail")
    /\ UNCHANGED <<bases, used, text, objects, removal, prompt>>

\* Whatever the transaction has done.
NoteFailure(d) ==
    /\ upload[d] = "fail"
    /\ UpdateStatus(d, "FAILED", "reload")
    /\ UNCHANGED <<bases, used, text, chunks, objects, removal, prompt>>

\* findUniqueOrThrow(): the upload is answered with the document, or with an error.
Reload(d) ==
    /\ upload[d] = "reload"
    /\ \/ Answered(d, IF Present(d) THEN "done" ELSE "error")
       \/ Failed(d, "error")
    /\ UNCHANGED <<bases, used, doc, text, chunks, objects, removal, prompt>>

-----------------------------------------------------------------------------
(* removeDocument() and remove().                                          *)

Remove(x, next) == removal' = [removal EXCEPT ![x] = next]
Drop(ds) ==
    /\ doc' = [d \in Docs |-> IF d \in ds THEN [doc[d] EXCEPT !.status = "removed"] ELSE doc[d]]
    /\ chunks' = [d \in Docs |-> IF d \in ds THEN {} ELSE chunks[d]]

FindDocument(d) ==
    /\ removal[d].at = "idle" /\ Present(d)
    /\ Remove(d, [at |-> "delete", listed |-> {d}])
    /\ UNCHANGED <<bases, used, doc, text, chunks, objects, upload, prompt, faults>>

\* Mutant of DeleteDocument: the file goes first.
DeleteFileFirst(d) ==
    /\ removal[d].at = "delete"
    /\ IF d \in objects
       THEN objects' = objects \ {d} /\ UNCHANGED <<doc, chunks, removal>>
       ELSE Drop({d}) /\ Remove(d, NoRemoval) /\ UNCHANGED objects
    /\ UNCHANGED <<bases, used, text, upload, prompt, faults>>

\* What a removal does about the files: once it has an error it leaves them.
ToFiles(x) == Remove(x, [removal[x] EXCEPT !.at = "files"]) /\ UNCHANGED faults
GiveUp(x) == Remove(x, NoRemoval)

\* A row that is gone already is an error.
DeleteDocument(d) ==
    /\ removal[d].at = "delete"
    /\ \/ /\ Present(d) /\ Drop({d})
          /\ ToFiles(d) \/ (GiveUp(d) /\ Fault)
       \/ /\ GiveUp(d) /\ UNCHANGED <<doc, chunks>>
          /\ (~Present(d) /\ UNCHANGED faults) \/ Fault
    /\ UNCHANGED <<bases, used, text, objects, upload, prompt>>

\* get() lists the documents; a base that a version refers to is kept.
FindBase(b) ==
    /\ b \in bases \ used /\ removal[b].at = "idle"
    /\ Remove(b, [at |-> "delete", listed |-> Contents(b)])
    /\ UNCHANGED <<bases, used, doc, text, chunks, objects, upload, prompt, faults>>

\* Its documents and chunks go with it, unless a version refers to it by now.
DeleteBase(b) ==
    /\ removal[b].at = "delete"
    /\ \/ /\ b \in bases \ used /\ bases' = bases \ {b} /\ Drop(Contents(b))
          /\ ToFiles(b) \/ (GiveUp(b) /\ Fault)
       \/ /\ GiveUp(b) /\ UNCHANGED <<bases, doc, chunks>>
          /\ (b \notin bases \ used /\ UNCHANGED faults) \/ Fault
    /\ UNCHANGED <<used, text, objects, upload, prompt>>

\* Files go one by one; one that fails is left behind.
DeleteFile(x) ==
    /\ removal[x].at = "files"
    /\ IF removal[x].listed = {}
       THEN Remove(x, NoRemoval) /\ UNCHANGED <<objects, faults>>
       ELSE \E d \in removal[x].listed :
              /\ Remove(x, [at |-> "files", listed |-> removal[x].listed \ {d}])
              /\ DeleteObject(d)
    /\ UNCHANGED <<bases, used, doc, text, chunks, upload, prompt>>

-----------------------------------------------------------------------------
(* The rest of the application.                                            *)

\* An agent version is created that refers to the base.
Use(b) ==
    /\ b \in bases \ used
    /\ used' = used \cup {b}
    /\ UNCHANGED <<bases, doc, text, chunks, objects, upload, removal, prompt, faults>>

\* Mutant of Candidates: documents are looked up by their base alone.
CandidatesByBase(bs) == {d \in Docs : Present(d) /\ doc[d].base \in bs}

Candidates(bs) == {d \in Docs : doc[d].status = "READY" /\ doc[d].base \in bs}

\* A run whose version refers to bs takes the best passages; which ones is not modelled.
Retrieve(bs) ==
    /\ bs # {} /\ bs \subseteq used
    /\ \E ds \in SUBSET Candidates(bs) : Cardinality(ds) <= Passages /\ prompt' = ds
    /\ UNCHANGED <<bases, used, doc, text, chunks, objects, upload, removal, faults>>

\* The process stops: what it was about to do is not done.
Stop ==
    /\ Fault
    /\ upload' = [d \in Docs |-> IF upload[d] \in {"none"} \cup Over THEN upload[d] ELSE "error"]
    /\ removal' = [x \in Bases \cup Docs |-> NoRemoval]
    /\ UNCHANGED <<bases, used, doc, text, chunks, objects, prompt>>

Next ==
    \/ \E d \in Docs :
         \/ \E b \in Bases : Put(d, b)
         \/ CreateDocument(d) \/ Undo(d) \/ Park(d)
         \/ Index(d) \/ FailToIndex(d) \/ NoteFailure(d) \/ Reload(d)
         \/ FindDocument(d) \/ DeleteDocument(d)
    \/ \E b \in Bases : FindBase(b) \/ DeleteBase(b) \/ Use(b)
    \/ \E x \in Bases \cup Docs : DeleteFile(x)
    \/ \E bs \in SUBSET Bases : Retrieve(bs)
    \/ Stop

Spec == Init /\ [][Next]_vars

-----------------------------------------------------------------------------
(* Properties.                                                             *)

TypeOK ==
    /\ bases \subseteq Bases /\ used \subseteq bases
    /\ doc \in [Docs -> [base : Bases \cup {None},
                         status : {"none", "PROCESSING", "PENDING", "READY", "FAILED", "removed"}]]
    /\ text \in [Docs -> Lengths \cup {None}]
    /\ chunks \in [Docs -> SUBSET Nat]
    /\ objects \subseteq Docs
    /\ upload \in [Docs -> {"none"} \cup UnderWay \cup Over]
    /\ removal \in [Bases \cup Docs -> [at : {"idle", "delete", "files"}, listed : SUBSET Docs]]
    /\ prompt \subseteq Docs
    /\ faults \in 0..MaxFaults

\* Before its row is created a document is only a file, and none yet if it is not uploaded; a
\* creation that is undone may have left a row.
UploadSound(d) ==
    /\ upload[d] \in {"none", "create"} => doc[d].status = "none"
    /\ upload[d] = "create" => d \in objects
    /\ upload[d] \in {"index", "fail"} => text[d] # None
    /\ upload[d] \in {"park", "index"} => doc[d].status \in {"PROCESSING", "removed"}
    /\ upload[d] = "fail" => doc[d].status \in {"PROCESSING", "READY", "removed"}
    /\ upload[d] \in {"undo", "undone"} => doc[d].status \in {"none", "PROCESSING", "removed"}
    /\ upload[d] = "reload" => doc[d].status \in {"READY", "FAILED", "removed"}

\* A READY document has the chunks of its text, and there are some; a FAILED one has all of
\* them too, if its transaction was committed, or none; no other has any.
IndexSound(d) ==
    /\ chunks[d] # {} => text[d] # None /\ chunks[d] = ChunkText(text[d])
    /\ doc[d].status = "READY" => chunks[d] # {}
    /\ doc[d].status \notin {"READY", "FAILED"} => chunks[d] = {}

\* A removal lists documents that have been created, of its base or the one it is for; when
\* their files go, their rows are gone.
RemovalSound(x) ==
    /\ removal[x].at = "delete" =>
         \A d \in removal[x].listed : doc[d].status # "none" /\ (x = d \/ x = doc[d].base)
    /\ removal[x].at = "files" => \A d \in removal[x].listed : doc[d].status = "removed"

\* Every document has its file, whichever call fails and wherever the process stops, but for
\* one whose creation was committed, answered with an error and undone: it stays PROCESSING, and
\* is never read.  Files are stored before, and removed after, the rows that name them.
FilesStay ==
    \A d \in Docs : Present(d) =>
        d \in objects \/ (upload[d] = "undone" /\ doc[d].status = "PROCESSING")

Covered(d) == UNION {s..(IF s + Size < text[d] THEN s + Size - 1 ELSE text[d] - 1) : s \in chunks[d]}

\* A document has its chunks as a whole, up to MaxChunks of them, or none: a READY one has them;
\* a FAILED one may, if its transaction was committed and its answer lost; no other does, so that
\* there are no chunks that a run could read once it became READY.
ReadyIsWhole ==
    \A d \in Docs :
        /\ doc[d].status = "READY" => chunks[d] # {}
        /\ chunks[d] # {} =>
             /\ doc[d].status \in {"READY", "FAILED"}
             /\ Covered(d) = 0..text[d] - 1 \/ Cardinality(chunks[d]) = MaxChunks

\* A document is PROCESSING only while its upload is under way, or if a call failed or the
\* process stopped, and then its upload was not answered with success: what went wrong is noted
\* on the document or told to who uploaded it.
ProcessingEnds ==
    \A d \in Docs : doc[d].status = "PROCESSING" =>
        \/ upload[d] \in {"park", "index", "fail"}
        \/ upload[d] \in {"undo", "undone", "error"} /\ faults > 0

Ready(b) == {d \in Contents(b) : doc[d].status = "READY"}

IInv ==
    /\ FilesStay /\ ProcessingEnds
    /\ \A d \in Docs : UploadSound(d) /\ IndexSound(d)
    /\ \A x \in Bases \cup Docs : RemovalSound(x)

\* A run reads of documents that are READY at that moment, in bases its version refers to,
\* and those still exist.
ReadsWhatIsReady ==
    [][prompt' # prompt => prompt' \subseteq UNION {Ready(b) : b \in used \cap bases}]_vars
=============================================================================
