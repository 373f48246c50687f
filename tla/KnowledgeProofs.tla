-------------------------- MODULE KnowledgeProofs --------------------------
(***************************************************************************)
(* Proofs about Knowledge, for every number of bases, documents, lengths   *)
(* and faults.  Files and rows are kept together without a transaction: a  *)
(* file is there before its row, and goes after it, but where a creation   *)
(* was answered with an error.  The invariant says of every upload and     *)
(* removal under way what it may still do; a document that has been        *)
(* removed never comes back.                                               *)
(***************************************************************************)
EXTENDS Knowledge, FiniteSetTheorems, TLAPS

Statuses == {"none", "PROCESSING", "PENDING", "READY", "FAILED", "removed"}
Documents == [base : Bases \cup {None}, status : Statuses]
Removals == [at : {"idle", "delete", "files"}, listed : SUBSET Docs]

-----------------------------------------------------------------------------
(* What the steps do to the documents.                                     *)

\* A document goes its way: created once, and not after it has been removed.
DocStays(d) ==
    /\ doc[d].status # "none" => doc'[d].status # "none" /\ doc'[d].base = doc[d].base
    /\ doc[d].status = "removed" => doc'[d].status = "removed"

LEMMA SetStatusTyped ==
    ASSUME TypeOK, NEW d \in Docs, NEW s \in Statuses, SetStatus(d, s)
    PROVE  /\ doc' \in [Docs -> Documents]
           /\ doc'[d].base = doc[d].base /\ doc'[d].status = s
           /\ \A e \in Docs \ {d} : doc'[e] = doc[e]
<1>1. doc \in [Docs -> Documents]
    BY DEF TypeOK, Documents, Statuses
<1>2. doc' = [doc EXCEPT ![d] = [base |-> doc[d].base, status |-> s]]
    BY DEF SetStatus
<1>3. [base |-> doc[d].base, status |-> s] \in Documents
    BY <1>1 DEF Documents
<1> QED BY <1>1, <1>2, <1>3

LEMMA DropTyped ==
    ASSUME TypeOK, NEW ds \in SUBSET Docs, Drop(ds)
    PROVE  /\ doc' \in [Docs -> Documents] /\ chunks' \in [Docs -> SUBSET Nat]
           /\ \A d \in ds : /\ doc'[d].base = doc[d].base /\ doc'[d].status = "removed"
                            /\ chunks'[d] = {}
           /\ \A d \in Docs \ ds : doc'[d] = doc[d] /\ chunks'[d] = chunks[d]
<1>1. doc \in [Docs -> Documents] /\ chunks \in [Docs -> SUBSET Nat]
    BY DEF TypeOK, Documents, Statuses
<1>2. \A d \in Docs : /\ [doc[d] EXCEPT !.status = "removed"] \in Documents
                      /\ [doc[d] EXCEPT !.status = "removed"].base = doc[d].base
                      /\ [doc[d] EXCEPT !.status = "removed"].status = "removed"
    BY <1>1 DEF Documents, Statuses
<1>3. doc' = [d \in Docs |-> IF d \in ds THEN [doc[d] EXCEPT !.status = "removed"] ELSE doc[d]]
    BY DEF Drop
<1>4. chunks' = [d \in Docs |-> IF d \in ds THEN {} ELSE chunks[d]]
    BY DEF Drop
<1>5. chunks' \in [Docs -> SUBSET Nat]
    BY <1>1, <1>4
<1> HIDE DEF Documents
<1> QED BY <1>1, <1>2, <1>3, <1>4, <1>5

LEMMA ChunksTyped ==
    ASSUME NEW n \in Nat
    PROVE  ChunkText(n) \subseteq Nat
BY DEF ChunkText, Starts

-----------------------------------------------------------------------------
(* How a text is cut (chunkText): chunks begin at the multiples of Step,   *)
(* the last of them before the text has ended but for an overlap.          *)

Step == Size - Overlap

LEMMA StepIs == Step \in Nat \ {0} /\ Size = Step + Overlap
BY KnowledgeConstants DEF Step

\* Arithmetic, apart from any text.
LEMMA Division ==
    ASSUME NEW x \in Nat, NEW k \in Nat \ {0}
    PROVE  /\ x \div k \in Nat /\ (x \div k) * k \in Nat
           /\ (x \div k) * k <= x /\ x < (x \div k) * k + k
           /\ x % k = 0 => x = (x \div k) * k
OBVIOUS

LEMMA Multiples ==
    ASSUME NEW k \in Nat \ {0}, NEW i \in Nat, NEW j \in Nat
    PROVE  /\ i * k \in Nat /\ (i * k) % k = 0
           /\ i * k = 0 <=> i = 0
           /\ i < j => i * k + k <= j * k
           /\ (i + 1) * k = i * k + k
OBVIOUS

\* The multiples of Step that are starts.
LEMMA StartsAre ==
    ASSUME NEW n \in Nat \ {0}
    PROVE  /\ \A i \in Nat : i * Step \in Starts(n) <=> i = 0 \/ i * Step + Overlap < n
           /\ \A s \in Starts(n) : \E i \in Nat : s = i * Step
<1>0. Step \in Nat \ {0} /\ Overlap \in Nat
    BY StepIs, KnowledgeConstants
<1>1. Starts(n) = {s \in 0..n : s % Step = 0 /\ (s = 0 \/ s + Overlap < n)}
    BY DEF Starts, Step
<1>2. ASSUME NEW i \in Nat PROVE i * Step \in Starts(n) <=> i = 0 \/ i * Step + Overlap < n
  <2>1. i * Step \in Nat /\ (i * Step) % Step = 0 /\ (i * Step = 0 <=> i = 0)
      BY <1>0, Multiples
  <2> QED BY <1>0, <1>1, <2>1
<1>3. ASSUME NEW s \in Starts(n) PROVE \E i \in Nat : s = i * Step
  <2>1. s \in Nat /\ s % Step = 0
      BY <1>1
  <2>2. s \div Step \in Nat /\ s = (s \div Step) * Step
      BY <1>0, <2>1, Division
  <2> QED BY <2>2
<1> QED BY <1>2, <1>3

\* The i-th start has i starts before it.
LEMMA StartsBefore ==
    ASSUME NEW n \in Nat \ {0}, NEW i \in Nat, i * Step \in Starts(n)
    PROVE  Cardinality({r \in Starts(n) : r < i * Step}) = i
<1>0. Step \in Nat \ {0} /\ Overlap \in Nat
    BY StepIs, KnowledgeConstants
<1> DEFINE Before == {r \in Starts(n) : r < i * Step}
           f == [j \in 0..i-1 |-> j * Step]
<1>1. ASSUME NEW j \in 0..i-1 PROVE j * Step \in Before
  <2>1. j * Step \in Nat /\ i * Step \in Nat /\ j * Step + Step <= i * Step /\ j # i
      BY <1>0, Multiples
  <2>2. i * Step + Overlap < n
      BY <1>1, StartsAre
  <2>3. j * Step \in Starts(n)
      BY <1>0, <2>1, <2>2, StartsAre
  <2> QED BY <1>0, <2>1, <2>3
<1>2. ASSUME NEW r \in Before PROVE \E j \in 0..i-1 : r = j * Step
  <2>1. PICK j \in Nat : r = j * Step
      BY StartsAre
  <2>2. i * Step \in Nat /\ j * Step \in Nat /\ (i < j => i * Step + Step <= j * Step)
      BY <1>0, Multiples
  <2>3. j < i
      BY <1>0, <2>1, <2>2
  <2> QED BY <2>1, <2>3
<1>3. ASSUME NEW j \in 0..i-1, NEW l \in 0..i-1, j * Step = l * Step PROVE j = l
  <2>1. /\ j * Step \in Nat /\ l * Step \in Nat
        /\ j < l => j * Step + Step <= l * Step
        /\ l < j => l * Step + Step <= j * Step
      BY <1>0, Multiples
  <2> QED BY <1>0, <1>3, <2>1
<1>4. f \in Bijection(0..i-1, Before)
    BY <1>1, <1>2, <1>3 DEF Bijection, Injection, Surjection, IsInjective
<1>5. IsFiniteSet(0..i-1) /\ Cardinality(0..i-1) = i
  <2>1. 0 \in Int /\ i-1 \in Int
      OBVIOUS
  <2>2. IsFiniteSet(0..i-1) /\ Cardinality(0..i-1) = IF 0 > i-1 THEN 0 ELSE (i-1) - 0 + 1
      BY ONLY <2>1, FS_Interval
  <2> QED BY <2>2
<1>6. Cardinality(Before) = Cardinality(0..i-1)
    BY <1>4, <1>5, FS_Bijection DEF ExistsBijection
<1> QED BY <1>5, <1>6

\* Cut short, a text has MaxChunks chunks; otherwise all of its starts.
LEMMA CutShort ==
    ASSUME NEW n \in Nat \ {0}
    PROVE  ChunkText(n) = Starts(n) \/ Cardinality(ChunkText(n)) = MaxChunks
<1>0. Step \in Nat \ {0} /\ Overlap \in Nat /\ MaxChunks \in Nat
    BY StepIs, KnowledgeConstants
<1> DEFINE Before(s) == {r \in Starts(n) : r < s}
<1>1. ChunkText(n) = {s \in Starts(n) : Cardinality(Before(s)) < MaxChunks}
    BY DEF ChunkText
<1>2. ASSUME NEW i \in Nat, i * Step \in Starts(n) PROVE Cardinality(Before(i * Step)) = i
    BY <1>2, StartsBefore
<1> HIDE DEF Before
<1>3. CASE MaxChunks * Step \notin Starts(n)
  <2> SUFFICES ASSUME NEW s \in Starts(n) PROVE Cardinality(Before(s)) < MaxChunks
      BY <1>1
  <2>1. PICK i \in Nat : s = i * Step
      BY StartsAre
  <2>2. i < MaxChunks
    <3>1. i # 0 => i * Step + Overlap < n
        BY <2>1, StartsAre
    <3>2. MaxChunks # 0 /\ ~(MaxChunks * Step + Overlap < n)
        BY <1>0, <1>3, StartsAre
    <3>3. /\ i * Step \in Nat /\ MaxChunks * Step \in Nat
          /\ MaxChunks < i => MaxChunks * Step + Step <= i * Step
        BY <1>0, Multiples
    <3> QED BY <1>0, <1>3, <2>1, <3>1, <3>2, <3>3
  <2> QED BY <1>2, <2>1, <2>2
<1>4. CASE MaxChunks * Step \in Starts(n)
  <2>1. ASSUME NEW i \in Nat, i * Step \in Starts(n)
        PROVE  i < MaxChunks <=> i * Step < MaxChunks * Step
    <3>1. /\ i * Step \in Nat /\ MaxChunks * Step \in Nat
          /\ i < MaxChunks => i * Step + Step <= MaxChunks * Step
          /\ MaxChunks < i => MaxChunks * Step + Step <= i * Step
        BY <1>0, Multiples
    <3> QED BY <1>0, <3>1
  <2>2. ChunkText(n) = {r \in Starts(n) : r < MaxChunks * Step}
    <3>1. ASSUME NEW s \in Starts(n)
          PROVE  Cardinality(Before(s)) < MaxChunks <=> s < MaxChunks * Step
      <4>1. PICK i \in Nat : s = i * Step
          BY StartsAre
      <4> QED BY <1>2, <2>1, <4>1
    <3> QED BY <1>1, <3>1
  <2> QED BY <1>0, <1>4, <2>2, StartsBefore
<1> QED BY <1>3, <1>4

\* The chunks that begin at all of its starts cover a text, to its last character.
LEMMA StartsCover ==
    ASSUME NEW n \in Nat \ {0}
    PROVE  UNION {s..(IF s + Size < n THEN s + Size - 1 ELSE n - 1) : s \in Starts(n)} = 0..n - 1
<1>0. Step \in Nat \ {0} /\ Overlap \in Nat /\ Size = Step + Overlap
    BY StepIs, KnowledgeConstants
<1> DEFINE Last(s) == IF s + Size < n THEN s + Size - 1 ELSE n - 1
<1>1. ASSUME NEW s \in Starts(n) PROVE s..Last(s) \subseteq 0..n - 1
  <2>1. s \in Nat
      BY DEF Starts
  <2> QED BY <1>0, <2>1
<1>2. ASSUME NEW x \in 0..n - 1 PROVE \E s \in Starts(n) : x \in s..Last(s)
  <2> DEFINE q == x \div Step
             e == IF n <= Overlap THEN 0 ELSE (n - Overlap - 1) \div Step
  <2>1. q \in Nat /\ q * Step \in Nat /\ q * Step <= x /\ x < q * Step + Step
      BY <1>0, Division
  <2>2. CASE q * Step \in Starts(n)
    <3>1. x \in q * Step..Last(q * Step)
        BY <1>0, <2>1
    <3> QED BY <2>2, <3>1
  <2>3. CASE q * Step \notin Starts(n)   \* the chunk that reaches the end
    <3>1. n <= q * Step + Overlap
      <4> HIDE DEF q
      <4>1. ~(q * Step + Overlap < n)
          BY <2>1, <2>3, StartsAre
      <4> QED BY <1>0, <2>1, <4>1
    <3>2. e \in Nat /\ e * Step \in Nat /\ n <= e * Step + Size
          /\ (e = 0 \/ e * Step + Overlap < n)
      <4>1. CASE n <= Overlap
          BY <1>0, <4>1
      <4>2. CASE ~(n <= Overlap)
        <5>1. n - Overlap - 1 \in Nat
            BY <1>0, <4>2
        <5> HIDE DEF e
        <5>2. e = (n - Overlap - 1) \div Step
            BY <4>2 DEF e
        <5>3. /\ e \in Nat /\ e * Step \in Nat /\ e * Step <= n - Overlap - 1
              /\ n - Overlap - 1 < e * Step + Step
            BY <1>0, <5>1, <5>2, Division
        <5> QED BY <1>0, <5>3
      <4> QED BY <4>1, <4>2
    <3>3. e * Step \in Starts(n)
        BY <3>2, StartsAre
    <3>4. e * Step <= x
      <4>1. /\ e < q => e * Step + Step <= q * Step
            /\ q < e => q * Step + Step <= e * Step
          BY <1>0, <2>1, <3>2, Multiples
      <4> HIDE DEF e, q
      <4> QED BY <1>0, <2>1, <2>3, <3>1, <3>2, <3>3, <4>1
    <3>5. x \in e * Step..Last(e * Step)
      <4> HIDE DEF e, q
      <4> QED BY <1>0, <3>2, <3>4
    <3> QED BY <3>3, <3>5
  <2> QED BY <2>2, <2>3
<1> QED BY <1>1, <1>2

-----------------------------------------------------------------------------
\* The steps of an upload, of a removal, and of the rest of the application.
UploadStep(d) ==
    \/ \E b \in Bases : Put(d, b)
    \/ CreateDocument(d) \/ Undo(d) \/ Park(d) \/ Index(d) \/ FailToIndex(d)
    \/ NoteFailure(d) \/ Reload(d)
RemovalStep(x) ==
    \/ x \in Docs /\ (FindDocument(x) \/ DeleteDocument(x))
    \/ x \in Bases /\ (FindBase(x) \/ DeleteBase(x))
    \/ DeleteFile(x)

LEMMA InitHolds == Init => TypeOK /\ IInv
<1> SUFFICES ASSUME Init PROVE TypeOK /\ IInv
    OBVIOUS
<1>1. TypeOK
    BY KnowledgeConstants DEF Init, TypeOK, Unused, NoRemoval
<1>2. IInv
    BY DEF Init, IInv, FilesStay, ProcessingEnds, UploadSound, IndexSound, RemovalSound, Present, Unused, NoRemoval
<1> QED BY <1>1, <1>2

-----------------------------------------------------------------------------
(* Uploads.                                                                *)

Waits == {"none"} \cup UnderWay \cup Over

\* What FilesStay and ProcessingEnds say of one document.
Kept(d) ==
    /\ Present(d) => d \in objects \/ (upload[d] = "undone" /\ doc[d].status = "PROCESSING")
    /\ doc[d].status = "PROCESSING" =>
         \/ upload[d] \in {"park", "index", "fail"}
         \/ upload[d] \in {"undo", "undone", "error"} /\ faults > 0

LEMMA CallEnds ==
    ASSUME TypeOK, NEW d \in Docs, NEW next \in Waits, Answered(d, next) \/ Failed(d, next)
    PROVE  /\ upload' \in [Docs -> Waits] /\ upload'[d] = next
           /\ \A e \in Docs \ {d} : upload'[e] = upload[e]
           /\ faults' \in 0..MaxFaults /\ faults' >= faults
           /\ Failed(d, next) => faults' > 0
<1>1. upload \in [Docs -> Waits] /\ faults \in 0..MaxFaults
    BY DEF TypeOK, Waits
<1>2. upload' = [upload EXCEPT ![d] = next]
    BY DEF Answered, Failed, Upload
<1>3. faults' \in 0..MaxFaults /\ faults' >= faults /\ (Failed(d, next) => faults' > 0)
    BY <1>1, KnowledgeConstants DEF Answered, Failed, Fault
<1> HIDE DEF Waits
<1> QED BY <1>1, <1>2, <1>3

\* The transaction of an upload that was about to take place.
LEMMA TransactionKeeps ==
    ASSUME TypeOK, NEW d \in Docs, UploadSound(d), upload[d] = "index", Transaction(d), UNCHANGED text
    PROVE  /\ doc' \in [Docs -> Documents] /\ chunks' \in [Docs -> SUBSET Nat]
           /\ doc[d].status = "PROCESSING" /\ doc'[d].status = "READY" /\ doc'[d].base = doc[d].base
           /\ IndexSound(d)'
           /\ \A e \in Docs \ {d} : doc'[e] = doc[e] /\ chunks'[e] = chunks[e]
<1>1. /\ doc' \in [Docs -> Documents] /\ doc'[d].status = "READY" /\ doc'[d].base = doc[d].base
      /\ \A e \in Docs \ {d} : doc'[e] = doc[e]
    BY SetStatusTyped DEF Transaction, Statuses
<1>2. /\ chunks' = [chunks EXCEPT ![d] = ChunkText(text[d])] /\ ChunkText(text[d]) # {}
      /\ doc[d].status = "PROCESSING" /\ text[d] # None
    BY DEF Transaction, Indexable, Present, UploadSound
<1>3. text[d] \in Nat /\ chunks \in [Docs -> SUBSET Nat]
    BY <1>2, KnowledgeConstants DEF TypeOK
<1>4. /\ chunks' \in [Docs -> SUBSET Nat] /\ chunks'[d] = ChunkText(text[d])
      /\ \A e \in Docs \ {d} : chunks'[e] = chunks[e]
    BY <1>2, <1>3, ChunksTyped
<1>5. IndexSound(d)'
    BY <1>1, <1>2, <1>4 DEF IndexSound
<1> QED BY <1>1, <1>2, <1>4, <1>5

LEMMA UploadKeeps ==
    ASSUME TypeOK, IInv, NEW d \in Docs, UploadStep(d)
    PROVE  /\ doc' \in [Docs -> Documents] /\ text' \in [Docs -> Lengths \cup {None}]
           /\ chunks' \in [Docs -> SUBSET Nat] /\ objects' \subseteq Docs
           /\ faults' \in 0..MaxFaults /\ faults' >= faults
           /\ upload' \in [Docs -> Waits]
           /\ UNCHANGED <<bases, used, removal, prompt>>
           /\ DocStays(d) /\ UploadSound(d)' /\ IndexSound(d)' /\ Kept(d)'
           /\ \A e \in Docs \ {d} : /\ doc'[e] = doc[e] /\ upload'[e] = upload[e] /\ text'[e] = text[e]
                                    /\ chunks'[e] = chunks[e] /\ (e \in objects' <=> e \in objects)
<1>0. /\ doc \in [Docs -> Documents] /\ text \in [Docs -> Lengths \cup {None}]
      /\ chunks \in [Docs -> SUBSET Nat] /\ objects \subseteq Docs /\ faults \in 0..MaxFaults
      /\ upload \in [Docs -> Waits]
    BY DEF TypeOK, Documents, Statuses, Waits
<1>1. UploadSound(d) /\ IndexSound(d) /\ Kept(d)
    BY DEF IInv, FilesStay, ProcessingEnds, Kept
<1>2. CASE \E b \in Bases : Put(d, b)
  <2>1. upload[d] = "none" /\ doc[d].status = "none" /\ UNCHANGED <<bases, used, chunks, removal, prompt>>
      BY <1>1, <1>2 DEF Put, UploadSound
  <2>2. CASE \E b \in Bases :
               /\ objects' = objects \cup {d} /\ Answered(d, "create")
               /\ \E n \in Lengths \cup {None} : text' = [text EXCEPT ![d] = n]
               /\ doc' = [doc EXCEPT ![d] = [base |-> b, status |-> "none"]]
    <3>1. PICK b \in Bases, n \in Lengths \cup {None} :
            /\ objects' = objects \cup {d} /\ Answered(d, "create") /\ text' = [text EXCEPT ![d] = n]
            /\ doc' = [doc EXCEPT ![d] = [base |-> b, status |-> "none"]]
        BY <2>2
    <3>2. [base |-> b, status |-> "none"] \in Documents
        BY DEF Documents, Statuses
    <3>3. doc' \in [Docs -> Documents] /\ doc'[d].status = "none"
        BY <1>0, <3>1, <3>2
    <3>4. /\ upload' \in [Docs -> Waits] /\ upload'[d] = "create"
          /\ \A e \in Docs \ {d} : upload'[e] = upload[e]
          /\ faults' \in 0..MaxFaults /\ faults' >= faults
        BY <3>1, CallEnds DEF Waits, UnderWay
    <3>5. IndexSound(d)'
        BY <1>1, <2>1, <3>3 DEF IndexSound
    <3> QED BY <1>0, <2>1, <3>1, <3>3, <3>4, <3>5 DEF DocStays, UploadSound, Kept, Present
  <2>3. CASE /\ objects' \in {objects, objects \cup {d}} /\ Failed(d, "error")
             /\ UNCHANGED <<doc, text>>
    <3>1. /\ upload' \in [Docs -> Waits] /\ upload'[d] = "error"
          /\ \A e \in Docs \ {d} : upload'[e] = upload[e]
          /\ faults' \in 0..MaxFaults /\ faults' >= faults
        BY <2>3, CallEnds DEF Waits, Over
    <3>2. IndexSound(d)'
        BY <1>1, <2>1, <2>3 DEF IndexSound
    <3> QED BY <1>0, <2>1, <2>3, <3>1, <3>2 DEF DocStays, UploadSound, Kept, Present
  <2> QED BY <1>2, <2>2, <2>3 DEF Put
<1>3. CASE CreateDocument(d)
  <2>1. /\ upload[d] = "create" /\ doc[d].status = "none" /\ d \in objects /\ chunks[d] = {}
        /\ UNCHANGED <<bases, used, text, chunks, objects, removal, prompt>>
      BY <1>1, <1>3 DEF CreateDocument, UploadSound, IndexSound
  <2>2. CASE /\ SetStatus(d, "PROCESSING")
             /\ \/ Answered(d, IF text[d] = None THEN "park" ELSE "index")
                \/ Failed(d, "undo")
    <3>1. PICK next \in {"park", "index", "undo"} :
            /\ Answered(d, next) \/ Failed(d, next)
            /\ next = "index" => text[d] # None
            /\ next = "undo" => Failed(d, next)
        BY <2>2
    <3>2. /\ upload' \in [Docs -> Waits] /\ upload'[d] = next
          /\ \A e \in Docs \ {d} : upload'[e] = upload[e]
          /\ faults' \in 0..MaxFaults /\ faults' >= faults /\ (next = "undo" => faults' > 0)
        BY <3>1, CallEnds DEF Waits, UnderWay
    <3>3. /\ doc' \in [Docs -> Documents] /\ doc'[d].status = "PROCESSING"
          /\ \A e \in Docs \ {d} : doc'[e] = doc[e]
        BY <2>2, SetStatusTyped DEF Statuses
    <3>4. IndexSound(d)'
        BY <2>1, <3>3 DEF IndexSound
    <3> QED BY <1>0, <2>1, <3>1, <3>2, <3>3, <3>4 DEF DocStays, UploadSound, Kept, Present
  <2>3. CASE UNCHANGED doc /\ (Answered(d, "undo") \/ Failed(d, "undo"))
    <3>1. /\ upload' \in [Docs -> Waits] /\ upload'[d] = "undo"
          /\ \A e \in Docs \ {d} : upload'[e] = upload[e]
          /\ faults' \in 0..MaxFaults /\ faults' >= faults
        BY <2>3, CallEnds DEF Waits, UnderWay
    <3>2. IndexSound(d)'
        BY <1>1, <2>1, <2>3 DEF IndexSound
    <3> QED BY <1>0, <2>1, <2>3, <3>1, <3>2 DEF DocStays, UploadSound, Kept, Present
  <2> QED BY <1>3, <2>2, <2>3 DEF CreateDocument
<1>4. CASE Undo(d)
  <2>1. /\ upload[d] = "undo" /\ upload' = [upload EXCEPT ![d] = "undone"]
        /\ objects' \in {objects, objects \ {d}} /\ doc[d].status \in {"none", "PROCESSING", "removed"}
        /\ UNCHANGED <<bases, used, doc, text, chunks, removal, prompt>>
      BY <1>1, <1>4 DEF Undo, Upload, DeleteObject, UploadSound
  <2>2. faults' \in 0..MaxFaults /\ faults' >= faults
      BY <1>0, <1>4, KnowledgeConstants DEF Undo, DeleteObject, Fault
  <2>3. /\ upload' \in [Docs -> Waits] /\ upload'[d] = "undone"
        /\ \A e \in Docs \ {d} : upload'[e] = upload[e]
      <3>1. "undone" \in Waits
          BY DEF Waits, Over
      <3> HIDE DEF Waits
      <3> QED BY <1>0, <2>1, <3>1
  <2>4. IndexSound(d)'
      BY <1>1, <2>1 DEF IndexSound
  <2>5. doc[d].status = "PROCESSING" => faults' > 0
      BY <1>0, <1>1, <2>1, <2>2, KnowledgeConstants DEF Kept
  <2> QED BY <1>0, <2>1, <2>2, <2>3, <2>4, <2>5 DEF DocStays, UploadSound, Kept, Present
<1>5. CASE Park(d) \/ NoteFailure(d)
  <2>1. PICK s \in {"PENDING", "FAILED"}, next \in {"done", "reload"} :
          /\ UpdateStatus(d, s, next)
          /\ s = "PENDING" => next = "done" /\ upload[d] = "park"
          /\ s = "FAILED" => next = "reload" /\ upload[d] = "fail"
      BY <1>5 DEF Park, NoteFailure
  <2>2. UNCHANGED <<bases, used, text, chunks, objects, removal, prompt>>
      BY <1>5 DEF Park, NoteFailure
  <2>3. CASE Present(d) /\ SetStatus(d, s) /\ (Answered(d, next) \/ Failed(d, "error"))
    <3>1. /\ doc' \in [Docs -> Documents] /\ doc'[d].status = s /\ doc'[d].base = doc[d].base
          /\ \A e \in Docs \ {d} : doc'[e] = doc[e]
        BY <2>3, SetStatusTyped DEF Statuses
    <3>2. /\ upload' \in [Docs -> Waits] /\ upload'[d] \in {next, "error"}
          /\ \A e \in Docs \ {d} : upload'[e] = upload[e]
          /\ faults' \in 0..MaxFaults /\ faults' >= faults
        BY <2>3, CallEnds DEF Waits, UnderWay, Over
    <3>3. d \in objects
        BY <1>1, <2>1, <2>3 DEF Kept
    <3>4. IndexSound(d)'
        BY <1>1, <2>1, <2>2, <2>3, <3>1 DEF IndexSound, UploadSound, Present
    <3> QED BY <1>0, <2>1, <2>2, <2>3, <3>1, <3>2, <3>3, <3>4 DEF DocStays, UploadSound, Kept, Present
  <2>4. CASE UNCHANGED doc /\ ((~Present(d) /\ Answered(d, "error")) \/ Failed(d, "error"))
    <3>1. /\ upload' \in [Docs -> Waits] /\ upload'[d] = "error"
          /\ \A e \in Docs \ {d} : upload'[e] = upload[e]
          /\ faults' \in 0..MaxFaults /\ faults' >= faults
          /\ Present(d) => faults' > 0
        BY <2>4, CallEnds DEF Waits, Over
    <3>2. IndexSound(d)'
        BY <1>1, <2>2, <2>4 DEF IndexSound
    <3>3. Present(d) => d \in objects
        BY <1>1, <2>1 DEF Kept
    <3> QED BY <1>0, <2>2, <2>4, <3>1, <3>2, <3>3 DEF DocStays, UploadSound, Kept, Present
  <2> QED BY <2>1, <2>3, <2>4 DEF UpdateStatus
<1>6. CASE Index(d) \/ FailToIndex(d)
  <2>1. /\ upload[d] = "index" /\ doc[d].status \in {"PROCESSING", "removed"} /\ text[d] # None
        /\ UNCHANGED <<bases, used, text, objects, removal, prompt>>
      BY <1>1, <1>6 DEF Index, FailToIndex, UploadSound
  <2>2. Present(d) => d \in objects
      BY <1>1, <2>1 DEF Kept
  <2>3. CASE Transaction(d) /\ (Answered(d, "reload") \/ Failed(d, "fail"))
    <3>1. /\ doc' \in [Docs -> Documents] /\ chunks' \in [Docs -> SUBSET Nat]
          /\ doc[d].status = "PROCESSING" /\ doc'[d].status = "READY" /\ doc'[d].base = doc[d].base
          /\ IndexSound(d)'
          /\ \A e \in Docs \ {d} : doc'[e] = doc[e] /\ chunks'[e] = chunks[e]
        BY <1>1, <2>1, <2>3, TransactionKeeps
    <3>2. /\ upload' \in [Docs -> Waits] /\ upload'[d] \in {"reload", "fail"}
          /\ \A e \in Docs \ {d} : upload'[e] = upload[e]
          /\ faults' \in 0..MaxFaults /\ faults' >= faults
        BY <2>3, CallEnds DEF Waits, UnderWay
    <3> QED BY <1>0, <2>1, <2>2, <3>1, <3>2 DEF DocStays, UploadSound, Kept, Present
  <2>4. CASE UNCHANGED <<doc, chunks>> /\ (Answered(d, "fail") \/ Failed(d, "fail"))
    <3>1. /\ upload' \in [Docs -> Waits] /\ upload'[d] = "fail"
          /\ \A e \in Docs \ {d} : upload'[e] = upload[e]
          /\ faults' \in 0..MaxFaults /\ faults' >= faults
        BY <2>4, CallEnds DEF Waits, UnderWay
    <3>2. IndexSound(d)'
        BY <1>1, <2>1, <2>4 DEF IndexSound
    <3> QED BY <1>0, <2>1, <2>2, <2>4, <3>1, <3>2 DEF DocStays, UploadSound, Kept, Present
  <2> QED BY <1>6, <2>3, <2>4 DEF Index, FailToIndex
<1>7. CASE Reload(d)
  <2>1. /\ upload[d] = "reload" /\ doc[d].status \in {"READY", "FAILED", "removed"}
        /\ UNCHANGED <<bases, used, doc, text, chunks, objects, removal, prompt>>
      BY <1>1, <1>7 DEF Reload, UploadSound
  <2>2. PICK next \in {"done", "error"} : Answered(d, next) \/ Failed(d, next)
      BY <1>7 DEF Reload
  <2>3. /\ upload' \in [Docs -> Waits] /\ upload'[d] = next
        /\ \A e \in Docs \ {d} : upload'[e] = upload[e]
        /\ faults' \in 0..MaxFaults /\ faults' >= faults
      BY <2>2, CallEnds DEF Waits, Over
  <2>4. IndexSound(d)'
      BY <1>1, <2>1 DEF IndexSound
  <2> QED BY <1>0, <1>1, <2>1, <2>2, <2>3, <2>4 DEF DocStays, UploadSound, Kept, Present
<1> QED BY <1>2, <1>3, <1>4, <1>5, <1>6, <1>7 DEF UploadStep

-----------------------------------------------------------------------------
(* Removals.                                                               *)

\* Files go only of documents that have been removed.
OnlyRemoved ==
    /\ objects' \subseteq objects
    /\ \A d \in objects \ objects' : doc'[d].status = "removed"

LEMMA RemovalKeeps ==
    ASSUME TypeOK, IInv, NEW x \in Bases \cup Docs, RemovalStep(x)
    PROVE  /\ doc' \in [Docs -> Documents] /\ chunks' \in [Docs -> SUBSET Nat]
           /\ removal' \in [Bases \cup Docs -> Removals]
           /\ bases' \subseteq Bases /\ used' \subseteq bases'
           /\ faults' \in 0..MaxFaults /\ faults' >= faults
           /\ UNCHANGED <<text, upload, prompt>>
           /\ \A y \in (Bases \cup Docs) \ {x} : removal'[y] = removal[y]
           /\ \A d \in Docs : /\ DocStays(d)
                              /\ \/ doc'[d] = doc[d] /\ chunks'[d] = chunks[d]
                                 \/ doc'[d].status = "removed" /\ chunks'[d] = {}
                              /\ doc[d].status = "none" => doc'[d] = doc[d]
           /\ RemovalSound(x)'
           /\ OnlyRemoved
<1>0. /\ doc \in [Docs -> Documents] /\ chunks \in [Docs -> SUBSET Nat]
      /\ removal \in [Bases \cup Docs -> Removals]
      /\ bases \subseteq Bases /\ used \subseteq bases /\ faults \in 0..MaxFaults
    BY DEF TypeOK, Documents, Statuses, Removals
<1>1. RemovalSound(x)
    BY DEF IInv
<1>2. NoRemoval \in Removals /\ NoRemoval.at = "idle"
    BY DEF NoRemoval, Removals
<1>3. ASSUME NEW r \in Removals, removal' = [removal EXCEPT ![x] = r]
      PROVE  /\ removal' \in [Bases \cup Docs -> Removals] /\ removal'[x] = r
             /\ \A y \in (Bases \cup Docs) \ {x} : removal'[y] = removal[y]
    BY <1>0, <1>3
<1>4. CASE \/ x \in Docs /\ FindDocument(x)
           \/ x \in Bases /\ FindBase(x)
  <2>1. PICK ds \in SUBSET Docs :
          /\ removal' = [removal EXCEPT ![x] = [at |-> "delete", listed |-> ds]]
          /\ \A d \in ds : doc[d].status # "none" /\ (x = d \/ x = doc[d].base)
    <3>1. CASE x \in Docs /\ FindDocument(x)
      <4>1. doc[x].status # "none" /\ removal' = [removal EXCEPT ![x] = [at |-> "delete", listed |-> {x}]]
          BY <3>1 DEF FindDocument, Remove, Present
      <4>2. {x} \in SUBSET Docs /\ \A d \in {x} : doc[d].status # "none" /\ (x = d \/ x = doc[d].base)
          BY <3>1, <4>1
      <4> QED BY <4>1, <4>2
    <3>2. CASE x \in Bases /\ FindBase(x)
      <4>1. removal' = [removal EXCEPT ![x] = [at |-> "delete", listed |-> Contents(x)]]
          BY <3>2 DEF FindBase, Remove
      <4>2. Contents(x) \in SUBSET Docs /\ \A d \in Contents(x) : doc[d].status # "none" /\ x = doc[d].base
          BY DEF Contents, Present
      <4> QED BY <4>1, <4>2
    <3> QED BY <1>4, <3>1, <3>2
  <2>2. UNCHANGED <<bases, used, doc, text, chunks, objects, upload, prompt, faults>>
      BY <1>4 DEF FindDocument, FindBase
  <2> DEFINE r == [at |-> "delete", listed |-> ds]
  <2>3. r \in Removals /\ r.at = "delete" /\ r.listed = ds
      BY DEF Removals
  <2>4. /\ removal' \in [Bases \cup Docs -> Removals] /\ removal'[x] = r
        /\ \A y \in (Bases \cup Docs) \ {x} : removal'[y] = removal[y]
      BY <1>3, <2>1, <2>3
  <2>5. RemovalSound(x)'
      BY <2>1, <2>2, <2>3, <2>4 DEF RemovalSound
  <2> QED BY <1>0, <2>2, <2>4, <2>5 DEF DocStays, OnlyRemoved
<1>8. Fault \/ UNCHANGED faults => faults' \in 0..MaxFaults /\ faults' >= faults
    BY <1>0, KnowledgeConstants DEF Fault
<1>5. CASE /\ removal' = [removal EXCEPT ![x] = NoRemoval] /\ (Fault \/ UNCHANGED faults)
           /\ UNCHANGED <<bases, used, doc, text, chunks, objects, upload, prompt>>
  <2>1. RemovalSound(x)'
      BY <1>2, <1>3, <1>5 DEF RemovalSound
  <2> QED BY <1>0, <1>2, <1>3, <1>5, <1>8, <2>1 DEF DocStays, OnlyRemoved
<1>6. CASE \/ x \in Docs /\ DeleteDocument(x) /\ ~UNCHANGED <<doc, chunks>>
           \/ x \in Bases /\ DeleteBase(x) /\ ~UNCHANGED <<bases, doc, chunks>>
  <2>0. removal[x].at = "delete" /\ removal[x].listed \in SUBSET Docs
      BY <1>0, <1>6 DEF DeleteDocument, DeleteBase, Removals
  <2> DEFINE listed == removal[x].listed
             f == [at |-> "files", listed |-> listed]
  <2>1. PICK ds \in SUBSET Docs :
          /\ Drop(ds) /\ \A d \in ds : Present(d)
          /\ \A d \in listed : d \in ds \/ doc[d].status = "removed"
          /\ (ToFiles(x) \/ (GiveUp(x) /\ Fault))
    <3>1. CASE x \in Docs /\ DeleteDocument(x) /\ ~UNCHANGED <<doc, chunks>>
      <4>1. Present(x) /\ Drop({x}) /\ (ToFiles(x) \/ (GiveUp(x) /\ Fault))
          BY <3>1 DEF DeleteDocument
      <4>2. \A d \in listed : d = x
          BY <1>1, <2>0, <3>1, KnowledgeConstants, <1>0 DEF RemovalSound, Documents
      <4> QED BY <3>1, <4>1, <4>2
    <3>2. CASE x \in Bases /\ DeleteBase(x) /\ ~UNCHANGED <<bases, doc, chunks>>
      <4>1. Drop(Contents(x)) /\ (ToFiles(x) \/ (GiveUp(x) /\ Fault))
          BY <3>2 DEF DeleteBase
      <4>2. \A d \in listed : doc[d].status # "none" /\ x = doc[d].base
          BY <1>1, <2>0, <3>2, KnowledgeConstants DEF RemovalSound
      <4>3. \A d \in listed : d \in Contents(x) \/ doc[d].status = "removed"
          BY <2>0, <4>2 DEF Contents, Present
      <4>4. Contents(x) \in SUBSET Docs /\ \A d \in Contents(x) : Present(d)
          BY DEF Contents
      <4> QED BY <4>1, <4>3, <4>4
    <3> QED BY <1>6, <3>1, <3>2
  <2>2. /\ UNCHANGED <<used, text, objects, upload, prompt>>
        /\ bases' \subseteq Bases /\ used \subseteq bases'
      BY <1>0, <1>6 DEF DeleteDocument, DeleteBase
  <2>3. /\ doc' \in [Docs -> Documents] /\ chunks' \in [Docs -> SUBSET Nat]
        /\ \A d \in ds : doc'[d].base = doc[d].base /\ doc'[d].status = "removed" /\ chunks'[d] = {}
        /\ \A d \in Docs \ ds : doc'[d] = doc[d] /\ chunks'[d] = chunks[d]
      BY <2>1, DropTyped
  <2>4. f \in Removals /\ f.at = "files" /\ f.listed = listed
      BY <2>0 DEF Removals
  <2>5. PICK r \in {f, NoRemoval} : removal' = [removal EXCEPT ![x] = r] /\ (Fault \/ UNCHANGED faults)
    <3>1. CASE GiveUp(x) /\ Fault
        BY <3>1 DEF GiveUp, Remove
    <3>2. CASE ToFiles(x)
      <4>1. removal[x] \in Removals
          BY <1>0
      <4>2. [removal[x] EXCEPT !.at = "files"] = f
          BY <4>1 DEF Removals
      <4> QED BY <3>2, <4>2 DEF ToFiles, Remove
    <3> QED BY <2>1, <3>1, <3>2
  <2>8. r \in Removals
      BY <1>2, <2>4, <2>5
  <2>9. /\ removal' \in [Bases \cup Docs -> Removals] /\ removal'[x] = r
        /\ \A y \in (Bases \cup Docs) \ {x} : removal'[y] = removal[y]
      BY <1>3, <2>5, <2>8
  <2>6. RemovalSound(x)'
    <3>1. \A d \in listed : doc'[d].status = "removed"
        BY <2>0, <2>1, <2>3
    <3>2. CASE r = f
        BY <2>4, <2>9, <3>1, <3>2 DEF RemovalSound
    <3>3. CASE r = NoRemoval
        BY <1>2, <2>9, <3>3 DEF RemovalSound
    <3> QED BY <3>2, <3>3
  <2>7. \A d \in Docs : /\ DocStays(d)
                        /\ \/ doc'[d] = doc[d] /\ chunks'[d] = chunks[d]
                           \/ doc'[d].status = "removed" /\ chunks'[d] = {}
                        /\ doc[d].status = "none" => doc'[d] = doc[d]
      BY <2>1, <2>3 DEF DocStays, Present
  <2> HIDE DEF f
  <2> QED BY <1>0, <1>8, <2>2, <2>3, <2>5, <2>6, <2>7, <2>9 DEF OnlyRemoved
<1>7. CASE DeleteFile(x) /\ removal[x].listed # {}
  <2>1. PICK d \in removal[x].listed :
          /\ removal[x].at = "files"
          /\ removal' = [removal EXCEPT ![x] = [at |-> "files", listed |-> removal[x].listed \ {d}]]
          /\ DeleteObject(d)
      BY <1>7 DEF DeleteFile, Remove
  <2>2. UNCHANGED <<bases, used, doc, text, chunks, upload, prompt>>
      BY <1>7 DEF DeleteFile
  <2>3. removal[x].listed \subseteq Docs
      BY <1>0 DEF Removals
  <2>4. \A e \in removal[x].listed : doc[e].status = "removed"
      BY <1>1, <2>1 DEF RemovalSound
  <2> DEFINE r == [at |-> "files", listed |-> removal[x].listed \ {d}]
  <2>5. r \in Removals /\ r.at = "files" /\ r.listed = removal[x].listed \ {d}
      BY <2>3 DEF Removals
  <2>6. /\ removal' \in [Bases \cup Docs -> Removals] /\ removal'[x] = r
        /\ \A y \in (Bases \cup Docs) \ {x} : removal'[y] = removal[y]
      BY <1>3, <2>1, <2>5
  <2>7. RemovalSound(x)'
      BY <2>2, <2>4, <2>5, <2>6 DEF RemovalSound
  <2>8. OnlyRemoved
      BY <2>1, <2>2, <2>4 DEF DeleteObject, OnlyRemoved
  <2>9. faults' \in 0..MaxFaults /\ faults' >= faults
      BY <1>8, <2>1 DEF DeleteObject
  <2> QED BY <1>0, <2>2, <2>6, <2>7, <2>8, <2>9 DEF DocStays
<1>9. CASE x \in Docs /\ DeleteDocument(x) /\ UNCHANGED <<doc, chunks>>
  <2>1. ~Drop({x}) \/ ~Present(x)
    <3>1. ASSUME Drop({x}), Present(x) PROVE FALSE
        BY <1>9, <3>1, DropTyped DEF Present
    <3> QED BY <3>1
  <2> QED BY <1>5, <1>9, <2>1 DEF DeleteDocument, GiveUp, Remove
<1>10. CASE x \in Bases /\ DeleteBase(x) /\ UNCHANGED <<bases, doc, chunks>>
  <2> QED BY <1>5, <1>10 DEF DeleteBase, GiveUp, Remove
<1>11. CASE DeleteFile(x) /\ removal[x].listed = {}
    BY <1>0, <1>5, <1>11 DEF DeleteFile, Remove
<1> QED BY <1>4, <1>6, <1>7, <1>9, <1>10, <1>11 DEF RemovalStep

-----------------------------------------------------------------------------
(* The invariant.                                                          *)

\* A removal under way stays sound while documents go their way.
LEMMA RemovalBystander ==
    ASSUME TypeOK, NEW x \in Bases \cup Docs, RemovalSound(x), removal'[x] = removal[x],
           \A d \in Docs : DocStays(d)
    PROVE  RemovalSound(x)'
<1>1. removal[x].listed \subseteq Docs
    BY DEF TypeOK
<1> QED BY <1>1 DEF RemovalSound, DocStays

LEMMA NextKeeps == TypeOK /\ IInv /\ [Next]_vars => TypeOK' /\ IInv'
<1> SUFFICES ASSUME TypeOK, IInv, [Next]_vars PROVE TypeOK' /\ IInv'
    OBVIOUS
<1>0. /\ \A d \in Docs : UploadSound(d) /\ IndexSound(d) /\ Kept(d)
      /\ \A x \in Bases \cup Docs : RemovalSound(x)
    BY DEF IInv, FilesStay, ProcessingEnds, Kept
<1>8. ASSUME /\ \A d \in Docs : UploadSound(d)' /\ IndexSound(d)' /\ Kept(d)'
             /\ \A x \in Bases \cup Docs : RemovalSound(x)'
      PROVE  IInv'
    BY <1>8 DEF IInv, FilesStay, ProcessingEnds, Kept
<1>1. ASSUME NEW d \in Docs, UploadStep(d) PROVE TypeOK' /\ IInv'
  <2>1. /\ doc' \in [Docs -> Documents] /\ text' \in [Docs -> Lengths \cup {None}]
        /\ chunks' \in [Docs -> SUBSET Nat] /\ objects' \subseteq Docs
        /\ faults' \in 0..MaxFaults /\ faults' >= faults
        /\ upload' \in [Docs -> Waits]
        /\ UNCHANGED <<bases, used, removal, prompt>>
        /\ DocStays(d) /\ UploadSound(d)' /\ IndexSound(d)' /\ Kept(d)'
        /\ \A e \in Docs \ {d} : /\ doc'[e] = doc[e] /\ upload'[e] = upload[e] /\ text'[e] = text[e]
                                 /\ chunks'[e] = chunks[e] /\ (e \in objects' <=> e \in objects)
      BY <1>1, UploadKeeps
  <2>2. TypeOK'
      BY <2>1 DEF TypeOK, Documents, Statuses, Waits
  <2>3. \A e \in Docs : DocStays(e)
      BY <2>1 DEF DocStays
  <2>4. \A x \in Bases \cup Docs : RemovalSound(x)'
      BY <1>0, <2>1, <2>3, RemovalBystander
  <2>5. \A e \in Docs : UploadSound(e)' /\ IndexSound(e)'
      BY <1>0, <2>1 DEF UploadSound, IndexSound
  <2>6. \A e \in Docs : Kept(e)'
    <3>1. faults' > 0 \/ ~(faults > 0)
        BY <2>1, KnowledgeConstants DEF TypeOK
    <3> QED BY <1>0, <2>1, <3>1 DEF Kept, Present
  <2> QED BY <1>8, <2>2, <2>4, <2>5, <2>6
<1>2. ASSUME NEW x \in Bases \cup Docs, RemovalStep(x) PROVE TypeOK' /\ IInv'
  <2>1. /\ doc' \in [Docs -> Documents] /\ chunks' \in [Docs -> SUBSET Nat]
        /\ removal' \in [Bases \cup Docs -> Removals]
        /\ bases' \subseteq Bases /\ used' \subseteq bases'
        /\ faults' \in 0..MaxFaults /\ faults' >= faults
        /\ UNCHANGED <<text, upload, prompt>>
        /\ \A y \in (Bases \cup Docs) \ {x} : removal'[y] = removal[y]
        /\ \A d \in Docs : /\ DocStays(d)
                           /\ \/ doc'[d] = doc[d] /\ chunks'[d] = chunks[d]
                              \/ doc'[d].status = "removed" /\ chunks'[d] = {}
                           /\ doc[d].status = "none" => doc'[d] = doc[d]
        /\ RemovalSound(x)'
        /\ OnlyRemoved
      BY <1>2, RemovalKeeps
  <2>2. TypeOK'
      BY <2>1 DEF TypeOK, Documents, Statuses, Removals, OnlyRemoved
  <2>3. \A y \in Bases \cup Docs : RemovalSound(y)'
      BY <1>0, <2>1, RemovalBystander
  <2>4. \A d \in Docs : UploadSound(d)'
    <3> SUFFICES ASSUME NEW d \in Docs PROVE UploadSound(d)'
        OBVIOUS
    <3>1. upload'[d] = upload[d] /\ text'[d] = text[d]
        BY <2>1
    <3>2. upload[d] = "create" => d \in objects'
      <4>1. upload[d] = "create" => doc'[d].status = "none" /\ d \in objects
          BY <1>0, <2>1 DEF UploadSound
      <4> QED BY <2>1, <4>1 DEF OnlyRemoved
    <3> QED BY <1>0, <2>1, <3>1, <3>2 DEF UploadSound
  <2>5. \A d \in Docs : IndexSound(d)'
      BY <1>0, <2>1 DEF IndexSound
  <2>6. \A d \in Docs : Kept(d)'
    <3>1. faults' > 0 \/ ~(faults > 0)
        BY <2>1, KnowledgeConstants DEF TypeOK
    <3> QED BY <1>0, <2>1, <3>1 DEF Kept, Present, OnlyRemoved
  <2> QED BY <1>8, <2>2, <2>3, <2>4, <2>5, <2>6
<1>3. CASE Stop
  <2>1. /\ upload' = [d \in Docs |-> IF upload[d] \in {"none"} \cup Over THEN upload[d] ELSE "error"]
        /\ removal' = [x \in Bases \cup Docs |-> NoRemoval]
        /\ UNCHANGED <<bases, used, doc, text, chunks, objects, prompt>>
      BY <1>3 DEF Stop
  <2>2. /\ upload' \in [Docs -> {"none"} \cup UnderWay \cup Over]
        /\ removal' \in [Bases \cup Docs -> [at : {"idle", "delete", "files"}, listed : SUBSET Docs]]
      BY <2>1 DEF NoRemoval, Over
  <2>3. faults' \in 0..MaxFaults /\ faults' > 0
      BY <1>3, KnowledgeConstants DEF Stop, Fault, TypeOK
  <2>4. TypeOK'
      BY <2>1, <2>2, <2>3 DEF TypeOK
  <2>5. \A d \in Docs : UploadSound(d)' /\ IndexSound(d)' /\ Kept(d)'
      BY <1>0, <2>1, <2>3 DEF UploadSound, IndexSound, Kept, Present, Over
  <2>6. \A x \in Bases \cup Docs : RemovalSound(x)'
      BY <2>1 DEF RemovalSound, NoRemoval
  <2> QED BY <1>8, <2>4, <2>5, <2>6
<1>4. ASSUME NEW b \in Bases, Use(b) PROVE TypeOK' /\ IInv'
  <2>1. TypeOK'
      BY <1>4 DEF Use, TypeOK
  <2>2. IInv'
      BY <1>0, <1>4 DEF Use, IInv, FilesStay, ProcessingEnds, Kept, UploadSound, IndexSound, RemovalSound, Present
  <2> QED BY <2>1, <2>2
<1>5. ASSUME NEW bs \in SUBSET Bases, Retrieve(bs) PROVE TypeOK' /\ IInv'
  <2>1. TypeOK'
      BY <1>5 DEF Retrieve, Candidates, TypeOK
  <2>2. IInv'
      BY <1>0, <1>5 DEF Retrieve, IInv, FilesStay, ProcessingEnds, Kept, UploadSound, IndexSound, RemovalSound, Present
  <2> QED BY <2>1, <2>2
<1>6. CASE UNCHANGED vars
    BY <1>0, <1>6 DEF vars, TypeOK, IInv, FilesStay, ProcessingEnds, Kept, UploadSound, IndexSound, RemovalSound, Present
<1>7. CASE Next
  <2>1. \/ \E d \in Docs : UploadStep(d)
        \/ \E x \in Bases \cup Docs : RemovalStep(x)
        \/ \E b \in Bases : Use(b)
        \/ \E bs \in SUBSET Bases : Retrieve(bs)
        \/ Stop
      BY <1>7 DEF Next, UploadStep, RemovalStep
  <2> QED BY <1>1, <1>2, <1>3, <1>4, <1>5, <2>1
<1> QED BY <1>6, <1>7

\* Whichever calls to the database or to storage fail, before or after they took effect, and
\* wherever the process stops, every variable keeps its type, and uploads and removals under way
\* keep to what they may still do.
THEOREM Inductive == Spec => [](TypeOK /\ IInv)
BY InitHolds, NextKeeps, PTL DEF Spec

\* Every document has its file, but for one whose creation was committed, answered with an error
\* and undone, which stays PROCESSING: files are stored before their rows and go after them
\* (upload(), removeDocument(), remove()).
THEOREM FilesStayed == Spec => []FilesStay
<1>1. IInv => FilesStay
    BY DEF IInv
<1> QED BY <1>1, Inductive, PTL

\* A document has its chunks as a whole, covering its text to the last character or as many as may
\* be, or none: a READY one has them, a FAILED one may, no other does, also when the transaction is
\* committed and its answer lost (chunkText(), upload()).
THEOREM ReadyIndexed == Spec => []ReadyIsWhole
<1>1. ASSUME TypeOK, IInv PROVE ReadyIsWhole
  <2>1. \A d \in Docs : IndexSound(d)
      BY <1>1 DEF IInv
  <2>2. ASSUME NEW d \in Docs, chunks[d] # {}
        PROVE  Covered(d) = 0..text[d] - 1 \/ Cardinality(chunks[d]) = MaxChunks
    <3>1. chunks[d] = ChunkText(text[d]) /\ text[d] # None
        BY <2>1, <2>2 DEF IndexSound
    <3>2. text[d] \in Nat \ {0}
        BY <1>1, <2>2, <3>1, KnowledgeConstants DEF TypeOK, ChunkText
    <3> QED BY <3>1, <3>2, CutShort, StartsCover DEF Covered
  <2> QED BY <2>1, <2>2 DEF ReadyIsWhole, IndexSound
<1> QED BY <1>1, Inductive, PTL

\* A document stays PROCESSING after its upload only if a call failed or the process stopped, and
\* the upload was not answered with success (upload()).
THEOREM ProcessingEnded == Spec => []ProcessingEnds
<1>1. IInv => ProcessingEnds
    BY DEF IInv
<1> QED BY <1>1, Inductive, PTL

\* A run reads only of documents that are READY at that moment, in bases that exist
\* (retrieveKnowledge()).
THEOREM ReadsReady == Spec => ReadsWhatIsReady
<1>1. ASSUME TypeOK, [Next]_vars
      PROVE  [prompt' # prompt => prompt' \subseteq UNION {Ready(b) : b \in used \cap bases}]_vars
  <2>1. ASSUME NEW bs \in SUBSET Bases, Retrieve(bs)
        PROVE  prompt' \subseteq UNION {Ready(b) : b \in used \cap bases}
    <3>1. bs \subseteq used \cap bases /\ prompt' \subseteq Candidates(bs)
        BY <1>1, <2>1 DEF Retrieve, TypeOK
    <3>2. \A d \in Candidates(bs) : d \in Ready(doc[d].base) /\ doc[d].base \in bs
        BY DEF Candidates, Ready, Contents, Present
    <3> QED BY <3>1, <3>2
  <2>2. CASE UNCHANGED prompt
      BY <2>2
  <2>3. CASE \E bs \in SUBSET Bases : Retrieve(bs)
      BY <2>1, <2>3
  <2>4. \/ UNCHANGED prompt
        \/ \E bs \in SUBSET Bases : Retrieve(bs)
      BY <1>1 DEF vars, Next, Put, CreateDocument, Undo, Park, Index, FailToIndex, NoteFailure, Reload,
              FindDocument, DeleteDocument, FindBase, DeleteBase, Use, DeleteFile, Stop
  <2> QED BY <2>2, <2>3, <2>4
<1> QED BY <1>1, Inductive, PTL DEF Spec, ReadsWhatIsReady
=============================================================================
