-------------------------- MODULE ProvidersProofs --------------------------
(***************************************************************************)
(* Proofs about the providers: the connections that are stored             *)
(* (Connections), for every number of connections and requests and         *)
(* whatever the addresses, credentials and configurations are, and the     *)
(* calls a run makes over an adapter (ProviderCalls), for every number of  *)
(* rounds, retries and events and every timeout.                           *)
(***************************************************************************)
EXTENDS Connections, ProviderCalls, FiniteSetTheorems, TLAPS

(***************************************************************************)
(* Connections.  A call is made with the row as one query found it: what   *)
(* was looked at on the way holds of that row however the stored one       *)
(* changes, and the rest holds of every row that can be stored.            *)
(***************************************************************************)
\* A connection does not change its type, and an id is not used again.
Stays(i) ==
    conn[i] # Absent => /\ conn'[i] # Absent
                        /\ Exists(i)' => Exists(i) /\ conn'[i].type = conn[i].type

-----------------------------------------------------------------------------
(* Types.                                                                  *)

LEMMA RowsTyped == Absent \in Rows /\ Removed \in Rows /\ Absent.type = None /\ Removed.type = None
BY DEF Absent, Removed, Rows

LEMMA ConnectionsInitHolds == ConnectionsInit => ConnectionsTypeOK /\ ConnectionsInv
BY RowsTyped DEF ConnectionsInit, ConnectionsTypeOK, ConnectionsInv, Idle, Exists, UpdateSound, CallSound

\* What a step makes of a connection.
LEMMA RowStep ==
    ASSUME ConnectionsTypeOK, ConnectionsInv, ConnectionsNext
    PROVE  \/ UNCHANGED conn
           \/ \E i \in Ids, row \in Rows :
                /\ conn' = [conn EXCEPT ![i] = row]
                /\ \/ row.type \in Types /\ HasKey(row) /\ conn[i] = Absent
                   \/ row.type \in Types /\ HasKey(row) /\ Exists(i) /\ row.type = conn[i].type
                   \/ row = Removed /\ i \notin versions
<1>1. ASSUME NEW i \in Ids, Create(i)
      PROVE  \E row \in Rows : /\ conn' = [conn EXCEPT ![i] = row] /\ conn[i] = Absent
                               /\ row.type \in Types /\ HasKey(row)
  <2>1. PICK type \in Types, u \in Urls \cup {None}, creds \in Credentials,
             config \in Configs \cup {None} :
          /\ ValidConfiguration(type, u, creds, config)
          /\ conn' = [conn EXCEPT ![i] = [type |-> type, url |-> u, creds |-> creds,
                                          config |-> config, enabled |-> TRUE, error |-> FALSE]]
      BY <1>1 DEF Create
  <2> DEFINE row == [type |-> type, url |-> u, creds |-> creds, config |-> config,
                     enabled |-> TRUE, error |-> FALSE]
  <2>2. row \in Rows /\ row.type = type /\ row.creds = creds
      BY DEF Rows
  <2>3. type \in KeyTypes => creds.key
      BY <2>1 DEF ValidConfiguration, KeyTypes
  <2>4. HasKey(row)
      BY <2>2, <2>3, ConnectionConstants DEF HasKey
  <2> QED BY <1>1, <2>1, <2>2, <2>4 DEF Create
<1>2. ASSUME NEW c \in Requests, UpdateWrite(c), Exists(req[c].id)
      PROVE  \E row \in Rows : /\ conn' = [conn EXCEPT ![req[c].id] = row] /\ req[c].id \in Ids
                               /\ row.type \in Types /\ HasKey(row) /\ row.type = conn[req[c].id].type
  <2> DEFINE i == req[c].id
             given == req[c].row
             row == [type |-> conn[i].type, url |-> Or(given.url, conn[i].url),
                     creds |-> Or(given.creds, conn[i].creds),
                     config |-> Or(given.config, conn[i].config),
                     enabled |-> given.enabled, error |-> conn[i].error]
  <2>1. conn' = [conn EXCEPT ![i] = row]
      BY <1>2 DEF UpdateWrite
  <2>2. i \in Ids /\ conn[i] \in Rows /\ given \in Rows
      BY <1>2 DEF UpdateWrite, ConnectionsInv, UpdateSound, ConnectionsTypeOK
  <2>3. row \in Rows
      BY <2>2 DEF Rows, Or
  <2>4. conn[i].type \in Types /\ HasKey(conn[i])
      BY <1>2, <2>2 DEF ConnectionsInv
  <2>5. conn[i].type \in KeyTypes /\ given.creds # None => given.creds.key
      BY <1>2 DEF UpdateWrite, ConnectionsInv, UpdateSound
  <2>6. row.type = conn[i].type /\ row.creds = Or(given.creds, conn[i].creds)
      OBVIOUS
  <2>7. HasKey(row)
      BY <2>4, <2>5, <2>6 DEF HasKey, Or
  <2> QED BY <2>1, <2>2, <2>3, <2>4, <2>6, <2>7
<1>3. ASSUME NEW c \in Requests, Delete(c)
      PROVE  \/ UNCHANGED conn
             \/ \E i \in Ids : conn' = [conn EXCEPT ![i] = Removed] /\ i \notin versions
  <2>1. req[c].id \in Ids \cup {None}
      BY DEF ConnectionsTypeOK
  <2>2. CASE req[c].id \in Ids /\ req[c].id \notin versions
      BY <1>3, <2>2 DEF Delete
  <2>3. CASE req[c].id \notin Ids \/ req[c].id \in versions
      BY <1>3, <2>3 DEF Delete, ConnectionsTypeOK
  <2> QED BY <2>2, <2>3
<1>4. ASSUME NEW c \in Requests, Report(c)
      PROVE  \/ UNCHANGED conn
             \/ \E i \in Ids, row \in Rows :
                  /\ conn' = [conn EXCEPT ![i] = row] /\ Exists(i)
                  /\ row.type \in Types /\ HasKey(row) /\ row.type = conn[i].type
  <2>1. PICK ok \in BOOLEAN : conn' = IF "validate" \in {req[c].at, req[c].to} /\ Exists(req[c].id)
                                      THEN [conn EXCEPT ![req[c].id].error = ~ok] ELSE conn
      BY <1>4 DEF Report
  <2>2. CASE req[c].id \in Ids /\ Exists(req[c].id)
    <3> DEFINE i == req[c].id
               row == [conn[i] EXCEPT !.error = ~ok]
    <3>1. conn[i] \in Rows
        BY <2>2 DEF ConnectionsTypeOK
    <3>2. row \in Rows /\ row.type = conn[i].type /\ row.creds = conn[i].creds
        BY <3>1 DEF Rows
    <3>3. conn[i].type \in Types /\ HasKey(conn[i])
        BY <2>2 DEF ConnectionsInv
    <3>4. HasKey(row)
        BY <3>2, <3>3 DEF HasKey
    <3>5. conn' = conn \/ conn' = [conn EXCEPT ![i] = row]
        BY <2>1
    <3> QED BY <2>2, <3>2, <3>3, <3>4, <3>5
  <2>3. CASE req[c].id \notin Ids
      BY <2>1, <2>3 DEF ConnectionsTypeOK
  <2>4. CASE ~Exists(req[c].id)
      BY <2>1, <2>4
  <2> QED BY <2>2, <2>3, <2>4
<1>5. CASE \E i \in Ids : Create(i)
    BY <1>1, <1>5
<1>6. CASE \E c \in Requests : UpdateWrite(c)
  <2>1. PICK c \in Requests : UpdateWrite(c)
      BY <1>6
  <2>2. CASE Exists(req[c].id)
      BY <1>2, <2>1, <2>2
  <2>3. CASE ~Exists(req[c].id)
      BY <2>1, <2>3 DEF UpdateWrite
  <2> QED BY <2>2, <2>3
<1>7. CASE \E c \in Requests : Delete(c)
    BY <1>3, <1>7, RowsTyped
<1>8. CASE \E c \in Requests : Report(c)
    BY <1>4, <1>8
<1>9. CASE \/ \E c \in Requests : UpdateRead(c) \/ Dispatch(c) \/ CreateVersion(c)
           \/ \E c \in Requests, i \in Ids :
                CountVersions(c, i) \/ Validate(c, i) \/ Models(c, i) \/ RuntimeForWorkspace(c, i)
    BY <1>9 DEF UpdateRead, Dispatch, CreateVersion, CountVersions, Validate, Models,
                RuntimeForWorkspace, Call
<1> QED BY <1>5, <1>6, <1>7, <1>8, <1>9 DEF ConnectionsNext

RowsSound ==
    /\ conn' \in [Ids -> Rows]
    /\ \A i \in Ids : /\ Stays(i)
                      /\ Exists(i)' => conn'[i].type \in Types /\ HasKey(conn'[i])

LEMMA RowsStay ==
    ASSUME ConnectionsTypeOK, ConnectionsInv, ConnectionsNext
    PROVE  RowsSound
<1>1. CASE UNCHANGED conn
    BY <1>1 DEF ConnectionsTypeOK, ConnectionsInv, Stays, Exists, RowsSound
<1>2. ASSUME NEW i \in Ids, NEW row \in Rows,
             /\ conn' = [conn EXCEPT ![i] = row]
             /\ \/ row.type \in Types /\ HasKey(row) /\ conn[i] = Absent
                \/ row.type \in Types /\ HasKey(row) /\ Exists(i) /\ row.type = conn[i].type
                \/ row = Removed /\ i \notin versions
      PROVE  RowsSound
  <2>1. conn' \in [Ids -> Rows] /\ conn'[i] = row /\ \A j \in Ids \ {i} : conn'[j] = conn[j]
      BY <1>2 DEF ConnectionsTypeOK
  <2>2. \A j \in Ids \ {i} : Stays(j) /\ (Exists(j)' => conn'[j].type \in Types /\ HasKey(conn'[j]))
      BY <2>1 DEF Stays, Exists, ConnectionsInv
  <2>3. Exists(i)' => conn'[i].type \in Types /\ HasKey(conn'[i])
      BY <1>2, <2>1 DEF Exists
  <2>4. row # Absent
      BY <1>2, RowsTyped, ConnectionConstants DEF Removed, Absent
  <2>5. Stays(i)
      BY <1>2, <2>1, <2>4 DEF Stays, Exists
  <2> QED BY <2>1, <2>2, <2>3, <2>5 DEF RowsSound
<1> QED BY <1>1, <1>2, RowStep

-----------------------------------------------------------------------------
(* What a request has found.                                               *)

Records == [at : {"idle", "update", "remove", "validate", "models", "run", "sent"},
            id : Ids \cup {None}, row : Rows, to : {"validate", "models", "run", None}]

\* A request that makes no step keeps what it has found.
LEMMA Bystander ==
    ASSUME ConnectionsTypeOK, NEW c \in Requests, UpdateSound(c), CallSound(c),
           \A i \in Ids : Stays(i), req'[c] = req[c]
    PROVE  UpdateSound(c)' /\ CallSound(c)'
<1>1. UpdateSound(c)'
    BY DEF UpdateSound, Stays
<1>2. CallSound(c)'
    BY DEF CallSound
<1> QED BY <1>1, <1>2

\* The beginning of an update, of a removal and of a call.
LEMMA Begins ==
    ASSUME ConnectionsTypeOK, ConnectionsInv, NEW c \in Requests, NEW i \in Ids,
           \/ UpdateRead(c)
           \/ CountVersions(c, i) \/ Validate(c, i) \/ Models(c, i) \/ RuntimeForWorkspace(c, i)
    PROVE  /\ \E r \in Records : req' = [req EXCEPT ![c] = r]
           /\ UpdateSound(c)' /\ CallSound(c)' /\ UNCHANGED <<conn, versions>>
<1>0. UNCHANGED <<conn, versions>>
    BY DEF UpdateRead, CountVersions, Validate, Models, RuntimeForWorkspace, Call
<1>1. CASE UpdateRead(c)
  <2>1. PICK j \in Ids, u \in Urls \cup {None}, creds \in Credentials \cup {None},
             config \in Configs \cup {None}, on \in BOOLEAN :
          /\ Exists(j)
          /\ on = conn[j].enabled \/ (u = None /\ creds = None /\ config = None)
          /\ u # None \/ creds # None \/ config # None =>
               ValidConfiguration(conn[j].type, Or(u, conn[j].url), Or(creds, conn[j].creds),
                                  Or(config, conn[j].config))
          /\ ValidPublicConfig(config)
          /\ Continue(c, Request("update", j, [Absent EXCEPT !.url = u, !.creds = creds,
                                               !.config = config, !.enabled = on], None))
      BY <1>1 DEF UpdateRead
  <2> DEFINE row == [Absent EXCEPT !.url = u, !.creds = creds, !.config = config, !.enabled = on]
             r == Request("update", j, row, None)
  <2>2. row \in Rows /\ row.creds = creds
      BY DEF Absent, Rows
  <2>3. r \in Records /\ r.at = "update" /\ r.id = j /\ r.row = row
      BY <2>2 DEF Request, Records
  <2>4. creds # None /\ conn[j].type \in KeyTypes => creds.key
      BY <2>1 DEF ValidConfiguration, Or, KeyTypes
  <2>5. req' = [req EXCEPT ![c] = r] /\ req'[c] = r
      BY <2>1 DEF ConnectionsTypeOK, Continue
  <2>6. req'[c].at = "update" /\ req'[c].id = j /\ req'[c].row.creds = creds
      BY <2>2, <2>3, <2>5
  <2>7. conn' = conn /\ conn[j] # Absent
      BY <1>0, <2>1 DEF Exists
  <2>8. UpdateSound(c)' /\ CallSound(c)'
      BY <2>4, <2>6, <2>7 DEF UpdateSound, CallSound
  <2> QED BY <1>0, <2>3, <2>5, <2>8
<1>2. CASE CountVersions(c, i)
  <2>1. Request("remove", i, Absent, None) \in Records
        /\ Request("remove", i, Absent, None).at = "remove"
      BY RowsTyped DEF Request, Records
  <2>2. req' = [req EXCEPT ![c] = Request("remove", i, Absent, None)]
        /\ req'[c] = Request("remove", i, Absent, None)
      BY <1>2 DEF CountVersions, Continue, ConnectionsTypeOK
  <2> QED BY <1>0, <2>1, <2>2 DEF UpdateSound, CallSound
<1>3. CASE Validate(c, i) \/ Models(c, i) \/ RuntimeForWorkspace(c, i)
  <2>1. PICK a \in {"validate", "models", "run"} : Call(c, i, a)
      BY <1>3 DEF Validate, Models, RuntimeForWorkspace
  <2> DEFINE r == Request(a, i, conn[i], None)
  <2>2. conn[i] \in Rows /\ Exists(i) /\ Usable(conn[i])
      BY <2>1 DEF Call, ConnectionsTypeOK
  <2>3. r \in Records /\ r.at = a /\ r.id = i /\ r.row = conn[i]
      BY <2>2 DEF Request, Records
  <2>4. req' = [req EXCEPT ![c] = r] /\ req'[c] = r
      BY <2>1 DEF Call, Continue, ConnectionsTypeOK
  <2>5. conn[i].type \in Types /\ HasKey(conn[i])
      BY <2>2 DEF ConnectionsInv
  <2>6. UpdateSound(c)' /\ CallSound(c)'
      BY <2>2, <2>3, <2>4, <2>5 DEF UpdateSound, CallSound
  <2> QED BY <1>0, <2>3, <2>4, <2>6
<1> QED BY <1>1, <1>2, <1>3

\* The dispatch of a call, and the end of a request.
LEMMA GoesOn ==
    ASSUME ConnectionsTypeOK, ConnectionsInv, NEW c \in Requests,
           Dispatch(c) \/ UpdateWrite(c) \/ Delete(c) \/ Report(c) \/ CreateVersion(c)
    PROVE  /\ \E r \in Records : req' = [req EXCEPT ![c] = r]
           /\ UpdateSound(c)' /\ CallSound(c)'
           /\ \/ UNCHANGED versions
              \/ \E i \in Ids : versions' = versions \cup {i} /\ Exists(i) /\ UNCHANGED conn
<1>1. CASE Dispatch(c)
  <2> DEFINE r == [req[c] EXCEPT !.at = "sent", !.to = req[c].at]
  <2>1. req[c] \in Records /\ req[c].at \in {"validate", "models", "run"} /\ Accepts(req[c].row)
      BY <1>1 DEF Dispatch, ConnectionsTypeOK, Records
  <2>2. r \in Records /\ r.at = "sent" /\ r.id = req[c].id /\ r.row = req[c].row
      BY <2>1 DEF Records
  <2>3. req' = [req EXCEPT ![c] = r] /\ req'[c] = r /\ UNCHANGED versions
      BY <1>1 DEF Dispatch, Continue, ConnectionsTypeOK
  <2>4. CallSound(c)
      BY DEF ConnectionsInv
  <2>5. UpdateSound(c)' /\ CallSound(c)'
      BY <2>1, <2>2, <2>3, <2>4 DEF UpdateSound, CallSound
  <2> QED BY <2>2, <2>3, <2>5
<1>2. CASE UpdateWrite(c) \/ Delete(c) \/ Report(c) \/ CreateVersion(c)
  <2>1. Idle \in Records /\ Idle.at = "idle"
      BY RowsTyped DEF Idle, Records
  <2>2. req' = [req EXCEPT ![c] = Idle] /\ req'[c] = Idle
      BY <1>2 DEF UpdateWrite, Delete, Report, CreateVersion, Continue, ConnectionsTypeOK
  <2>3. UpdateSound(c)' /\ CallSound(c)'
      BY <2>1, <2>2 DEF UpdateSound, CallSound
  <2>4. \/ UNCHANGED versions
        \/ \E i \in Ids : versions' = versions \cup {i} /\ Exists(i) /\ UNCHANGED conn
    <3>1. CASE CreateVersion(c)
        BY <3>1 DEF CreateVersion, ConnectionsInv, CallSound
    <3>2. CASE UpdateWrite(c) \/ Delete(c) \/ Report(c)
        BY <3>2 DEF UpdateWrite, Delete, Report
    <3> QED BY <1>2, <3>1, <3>2
  <2> QED BY <2>1, <2>2, <2>3, <2>4
<1> QED BY <1>1, <1>2

LEMMA ConnectionsNextKeeps ==
    ConnectionsTypeOK /\ ConnectionsInv /\ [ConnectionsNext]_connectionsVars
        => ConnectionsTypeOK' /\ ConnectionsInv'
<1> SUFFICES ASSUME ConnectionsTypeOK, ConnectionsInv, [ConnectionsNext]_connectionsVars
             PROVE  ConnectionsTypeOK' /\ ConnectionsInv'
    OBVIOUS
<1>1. CASE UNCHANGED connectionsVars
    BY <1>1 DEF connectionsVars, ConnectionsTypeOK, ConnectionsInv, UpdateSound, CallSound, Exists
<1>2. CASE ConnectionsNext
  <2>1. RowsSound
      BY <1>2, RowsStay
  <2>a. conn' \in [Ids -> Rows]
      BY <2>1 DEF RowsSound
  <2>b. \A i \in Ids : Stays(i)
      BY <2>1 DEF RowsSound
  <2>c. \A i \in Ids : Exists(i)' => conn'[i].type \in Types /\ HasKey(conn'[i])
      BY <2>1 DEF RowsSound
  <2>2. /\ req' \in [Requests -> Records] /\ versions' \subseteq Ids
        /\ \A c \in Requests : UpdateSound(c)' /\ CallSound(c)'
    <3>1. CASE \E i \in Ids : Create(i)
        BY <2>b, <3>1, Bystander DEF Create, ConnectionsTypeOK, Records, ConnectionsInv
    <3>2. CASE \E c \in Requests : UpdateRead(c) \/ Dispatch(c) \/ UpdateWrite(c) \/ Delete(c)
                                   \/ Report(c) \/ CreateVersion(c)
               \/ \E i \in Ids : CountVersions(c, i) \/ Validate(c, i) \/ Models(c, i)
                                 \/ RuntimeForWorkspace(c, i)
      <4>1. PICK c \in Requests : UpdateRead(c) \/ Dispatch(c) \/ UpdateWrite(c) \/ Delete(c)
                                   \/ Report(c) \/ CreateVersion(c)
               \/ \E i \in Ids : CountVersions(c, i) \/ Validate(c, i) \/ Models(c, i)
                                 \/ RuntimeForWorkspace(c, i)
          BY <3>2
      <4>2. UpdateRead(c) => \E i \in Ids : TRUE
          BY DEF UpdateRead
      <4>3. /\ \E r \in Records : req' = [req EXCEPT ![c] = r]
            /\ UpdateSound(c)' /\ CallSound(c)'
          BY <4>1, <4>2, Begins, GoesOn
      <4>4. versions' \subseteq Ids
          BY <4>1, <4>2, Begins, GoesOn DEF ConnectionsTypeOK
      <4>5. req' \in [Requests -> Records] /\ \A d \in Requests \ {c} : req'[d] = req[d]
          BY <4>3 DEF ConnectionsTypeOK, Records
      <4>6. \A d \in Requests \ {c} : UpdateSound(d)' /\ CallSound(d)'
          BY <2>b, <4>5, Bystander DEF ConnectionsInv
      <4> QED BY <4>3, <4>4, <4>5, <4>6
    <3> QED BY <1>2, <3>1, <3>2 DEF ConnectionsNext
  <2> QED BY <2>a, <2>c, <2>2 DEF ConnectionsTypeOK, Records, ConnectionsInv
<1> QED BY <1>1, <1>2

\* The address of a row that is usable and accepted.
LEMMA Addresses ==
    ASSUME NEW row, Usable(row), Accepts(row)
    PROVE  MayGo(row, Destination(row))
<1> DEFINE to == Destination(row)
<1>2. CASE row.type = "OLLAMA"
  <2>1. to = row.url /\ row.url # None
      BY <1>2 DEF Destination, CompatibleUrl, Usable, ValidBaseUrl
  <2>2. row.url.plain /\ row.url \in AllowedUrls
      BY <1>2, <2>1 DEF Usable, ValidBaseUrl, Parses, Allowed
  <2> QED BY <1>2, <2>1, <2>2 DEF MayGo
<1>3. CASE row.type = "GOOGLE_GEMINI"
  <2>1. to = row.url
      BY <1>3 DEF Destination, GeminiUrl
  <2>2. row.url # None => /\ row.url.plain /\ row.url.https /\ row.url.host \in Google
                          /\ row.url.host \notin Private
      BY <1>3 DEF Usable, ValidBaseUrl, Parses, IsPrivate
  <2> QED BY <1>3, <2>1, <2>2 DEF MayGo
<1>4. CASE row.type = "AWS_BEDROCK"
  <2>1. row.creds.region # None
      BY <1>4 DEF Accepts, ReadCredentials
  <2>2. to # None => BedrockAllows(to, row.creds.region)
      BY <1>4 DEF Usable, ValidBaseUrl, ValidEndpoint, Destination, BedrockEndpoint
  <2>3. to # None => Parses(to, FALSE) /\ (Allowed(to) \/ Official(to, row.creds.region))
      BY <2>2 DEF BedrockAllows
  <2>4. to # None => to.plain /\ to.https
      BY <2>3 DEF Parses
  <2>5. to # None => to \in AllowedUrls \/ to.host \in Bedrock[row.creds.region]
      BY <2>1, <2>3 DEF Allowed, Official
  <2> HIDE DEF to
  <2>6. MayGo(row, to)
      BY <1>4, <2>4, <2>5 DEF MayGo
  <2> QED BY <2>6 DEF to
<1>5. CASE row.type \notin {"OLLAMA", "GOOGLE_GEMINI", "AWS_BEDROCK"}
  <2>1. to = row.url
      BY <1>5 DEF Destination, CompatibleUrl
  <2>2. row.url # None => row.url.plain /\ row.url.https /\ ~IsPrivate(row.url)
      BY <1>5 DEF Usable, ValidBaseUrl, Parses
  <2> QED BY <1>5, <2>1, <2>2 DEF MayGo
<1> QED BY <1>2, <1>3, <1>4, <1>5

-----------------------------------------------------------------------------
(* The theorems.                                                           *)

\* Whatever is stored and called, every variable keeps its type, a stored connection has the
\* key it needs, and a call has looked at its addresses.
THEOREM ConnectionsInductive == ConnectionsSpec => [](ConnectionsTypeOK /\ ConnectionsInv)
BY ConnectionsInitHolds, ConnectionsNextKeeps, PTL DEF ConnectionsSpec

\* A call goes only where its type may go, for the region of the credentials it carries, however
\* updates interleave (runtime(), validateBaseUrl).
THEOREM Destinations == ConnectionsSpec => []GoesWhereItMay
<1>1. ConnectionsTypeOK /\ ConnectionsInv => GoesWhereItMay
    BY Addresses DEF GoesWhereItMay, Sent, ConnectionsInv, CallSound
<1> QED BY <1>1, ConnectionsInductive, PTL

\* A call carries what its type and mode need, also where two updates have made a configuration
\* of halves (anthropicClient, geminiCredential, readCredentials, validateConfiguration).
THEOREM CarriedCredentials == ConnectionsSpec => []CarriesItsCredential
<1>1. ConnectionsTypeOK /\ ConnectionsInv => CarriesItsCredential
  <2> SUFFICES ASSUME ConnectionsTypeOK, ConnectionsInv, NEW c \in Sent
               PROVE  LET row == req[c].row
                      IN  CASE row.type = "GOOGLE_GEMINI" ->
                                 IF Enterprise(row.config) THEN row.creds.project ELSE row.creds.key
                            [] row.type = "AWS_BEDROCK" -> row.creds.aws /\ row.creds.region # None
                            [] row.type = "OLLAMA" -> TRUE
                            [] OTHER -> row.creds.key
      BY DEF CarriesItsCredential
  <2>1. Accepts(req[c].row) /\ HasKey(req[c].row) /\ req[c].row.type \in Types
      BY DEF Sent, ConnectionsInv, CallSound
  <2>2. req[c].row.type \in KeyTypes \cup {"OLLAMA", "GOOGLE_GEMINI", "AWS_BEDROCK"}
      BY <2>1, ConnectionConstants DEF KeyTypes
  <2> QED BY <2>1, <2>2 DEF Accepts, GeminiCredential, ReadCredentials, HasKey, KeyTypes
<1> QED BY <1>1, ConnectionsInductive, PTL

\* A connection that an agent version refers to is not removed, whichever of a removal and a new
\* version comes first (remove(), createVersion()).
THEOREM Referred == ConnectionsSpec => []ReferredStays
<1>1. ConnectionsInit => ReferredStays
    BY DEF ConnectionsInit, ReferredStays
<1>2. ASSUME ConnectionsTypeOK, ConnectionsInv, ReferredStays, [ConnectionsNext]_connectionsVars
      PROVE  ReferredStays'
  <2>1. CASE UNCHANGED connectionsVars
      BY <1>2, <2>1 DEF connectionsVars, ReferredStays, Exists
  <2>2. CASE ConnectionsNext
    <3>1. \A i \in versions : Exists(i)'
      <4> SUFFICES ASSUME NEW i \in versions PROVE Exists(i)'
          OBVIOUS
      <4>1. Exists(i) /\ i \in Ids
          BY <1>2 DEF ReferredStays, ConnectionsTypeOK
      <4>2. CASE UNCHANGED conn
          BY <4>1, <4>2 DEF Exists
      <4>3. ASSUME NEW j \in Ids, NEW row \in Rows, conn' = [conn EXCEPT ![j] = row],
                   \/ row.type \in Types
                   \/ row = Removed /\ j \notin versions
            PROVE  Exists(i)'
        <5>1. row.type \in Types => row \notin {Absent, Removed}
            BY RowsTyped, ConnectionConstants
        <5>2. conn'[i] = IF i = j THEN row ELSE conn[i]
            BY <1>2, <4>1, <4>3 DEF ConnectionsTypeOK
        <5> QED BY <4>1, <4>3, <5>1, <5>2 DEF Exists
      <4> QED BY <1>2, <2>2, <4>2, <4>3, RowStep
    <3>2. \/ UNCHANGED versions
          \/ \E i \in Ids : versions' = versions \cup {i} /\ Exists(i) /\ UNCHANGED conn
      <4>1. CASE \E i \in Ids : Create(i)
          BY <4>1 DEF Create
      <4>2. CASE \E c \in Requests : UpdateRead(c)
          BY <4>2 DEF UpdateRead
      <4>3. CASE \E c \in Requests, i \in Ids : CountVersions(c, i) \/ Validate(c, i) \/ Models(c, i)
                                                \/ RuntimeForWorkspace(c, i)
          BY <4>3 DEF CountVersions, Validate, Models, RuntimeForWorkspace, Call
      <4>4. CASE \E c \in Requests : Dispatch(c) \/ UpdateWrite(c) \/ Delete(c) \/ Report(c)
                                     \/ CreateVersion(c)
          BY <1>2, <4>4, GoesOn
      <4> QED BY <2>2, <4>1, <4>2, <4>3, <4>4 DEF ConnectionsNext
    <3> QED BY <3>1, <3>2 DEF ReferredStays, Exists
  <2> QED BY <1>2, <2>1, <2>2
<1> QED BY <1>1, <1>2, ConnectionsInductive, PTL DEF ConnectionsSpec
-----------------------------------------------------------------------------
(***************************************************************************)
(* Calls.  The clock is left out of what is proved: no step looks at it    *)
(* but to be taken or not.  CallsInv leaves OneWholeAnswer out, which      *)
(* follows from the rest (WholeAnswer).                                    *)
(***************************************************************************)
CallsInv ==
    /\ AnswerTypeOK /\ AnswerSound
    /\ UsageSound /\ UsageOfTheAnswer
    /\ RequestSound /\ NextRoundAccepted

LEMMA ConcatEmpty == ASSUME NEW S, NEW s \in Seq(S) PROVE s \o <<>> = s /\ <<>> \o s = s
OBVIOUS

\* The operators of the adapters: what becomes of the arguments of a call.
LEMMA FinalIs ==
    ASSUME NEW v \in Vendors, NEW a \in Arguments
    PROVE  Final(v, a) \in Arguments \cup {"none"} /\ GeminiFinal(a) \in Arguments
BY DEF Vendors, Arguments, Final, CompatibleFinal, AnthropicFinal, GeminiFinal, BedrockFinal

LEMMA WholeReplyIs ==
    ASSUME NEW v \in Vendors, NEW calls \in Seq(ToolCall)
    PROVE  /\ WholeReply(v, calls) \in Seq(ToolCall) /\ Len(WholeReply(v, calls)) = Len(calls)
           /\ \A k \in DOMAIN calls : WholeReply(v, calls)[k].id = calls[k].id
<1>1. /\ Len(calls) \in Nat /\ DOMAIN calls = 1 .. Len(calls)
      /\ \A k \in DOMAIN calls : calls[k] \in ToolCall
    OBVIOUS
<1>2. ASSUME NEW after,
             after = [k \in DOMAIN calls |-> [calls[k] EXCEPT !.args = AnthropicValue(@)]]
             \/ after = [k \in DOMAIN calls |-> [calls[k] EXCEPT !.args = GeminiFinal(@)]]
             \/ after = [k \in DOMAIN calls |-> [calls[k] EXCEPT !.args = BedrockFinal(@)]]
      PROVE  /\ after \in Seq(ToolCall) /\ Len(after) = Len(calls)
             /\ \A k \in DOMAIN calls : after[k].id = calls[k].id
  <2>1. \A a \in Arguments : {AnthropicValue(a), GeminiFinal(a), BedrockFinal(a)} \subseteq Arguments
      BY DEF Arguments, AnthropicValue, GeminiFinal, BedrockFinal
  <2>2. \A k \in DOMAIN calls : after[k] \in ToolCall /\ after[k].id = calls[k].id
      BY <1>1, <1>2, <2>1 DEF ToolCall
  <2>3. after \in [1 .. Len(calls) -> ToolCall]
      BY <1>1, <1>2, <2>2
  <2> QED BY <1>1, <2>2, <2>3
<1>3. CASE v = "compatible"
    BY <1>3 DEF WholeReply, CompatibleWhole
<1>4. CASE v = "anthropic"
    BY <1>2, <1>4 DEF WholeReply, AnthropicWhole, WithArguments
<1>5. CASE v = "gemini"
    BY <1>2, <1>5 DEF WholeReply, GeminiWhole, WithArguments
<1>6. CASE v = "bedrock"
    BY <1>2, <1>6 DEF WholeReply, BedrockWhole, WithArguments
<1> QED BY <1>3, <1>4, <1>5, <1>6 DEF Vendors

\* Whatever an adapter accepts, it accepts with any calls that the executor has parsed.
LEMMA StaysAccepted ==
    ASSUME NEW v \in Vendors, NEW r, NEW h, NEW later \in SUBSET {"object", "empty"},
           AcceptsRequest(v, r, h)
    PROVE  AcceptsRequest(v, r, later)
BY DEF Vendors, AcceptsRequest, CompatibleAccepts, AnthropicAccepts, AnthropicMessages, AnthropicParses,
       GeminiAccepts, GeminiMessages, BedrockAccepts, BedrockMessages, BedrockParses, Arguments

LEMMA RetriedIs ==
    ASSUME NEW v \in Vendors, NEW f, Retryable(v, f)
    PROVE  f \notin {"request", "destination"}
BY DEF Vendors, Retryable, CompatibleRetryable, AnthropicRetryable, AnthropicApiRetryable,
       GeminiRetryable, BedrockRetryable, BedrockAwsRetryable

LEMMA FailuresAre ==
    ASSUME NEW v \in Vendors
    PROVE  /\ Refusals \cup BadBodies \cup Interruptions(v) \subseteq Causes \ {"request"}
           /\ \A open \in BOOLEAN : Signal(v, open) \in Causes \ {"request"}
           /\ {"timeout", "abort", "unusable", "protocol", "budget", "tool", "rounds", "none"}
                 \subseteq Causes \ {"request"}
           /\ {"request", "destination"} \subseteq Causes
BY DEF Vendors, Refusals, BadBodies, Failures, Causes, Interruptions, CompatibleInterruptions,
       AnthropicInterruptions, GeminiInterruptions, BedrockInterruptions, BedrockExceptionEvents,
       Signal, CompatibleSignal, AnthropicSignal, GeminiSignal, BedrockSignal

LEMMA NothingTyped ==
    /\ NoReply \in [tokens : Nat, calls : Seq(ToolCall), usage : BOOLEAN, events : Nat]
    /\ NoReply.tokens = 0 /\ NoReply.calls = <<>> /\ ~NoReply.usage
    /\ Nothing \in [tokens : Nat, calls : Seq(ToolCall), from : SUBSET (1 .. RetryCount + 1)]
    /\ Nothing.tokens = 0 /\ Nothing.calls = <<>> /\ Nothing.from = {}
BY DEF NoReply, Nothing

LEMMA CallsInitHolds == Init => CallsInv
<1> SUFFICES ASSUME Init PROVE CallsInv
    OBVIOUS
<1>1. AnswerTypeOK
  <2>1. /\ 1 \in 1 .. Rounds /\ 0 \in 0 .. RetryCount /\ 0 \in 0 .. RetryCount + 1
        /\ <<>> \in Seq(ToolCall) /\ {} \subseteq Arguments
      BY CallAssumption
  <2>2. "loop" \in Phases /\ "none" \in Causes
      BY DEF Phases, Causes, Failures
  <2>3. request \in ChatRequests
      BY DEF Init
  <2> QED BY <2>1, <2>2, <2>3, NothingTyped DEF Init, AnswerTypeOK
<1>2. AnswerSound
    BY NothingTyped DEF Init, AnswerSound
<1> QED BY <1>1, <1>2, NothingTyped DEF Init, CallsInv, UsageSound, UsageOfTheAnswer, RequestSound,
                                    NextRoundAccepted
-----------------------------------------------------------------------------
(* The retry loop.                                                         *)
LEMMA GiveUpKeeps ==
    ASSUME CallsInv, NEW f \in Causes, round > 1 => f # "request", GiveUp(f)
    PROVE  CallsInv'
<1>1. AnswerTypeOK'
    BY DEF CallsInv, AnswerTypeOK, GiveUp, Phases, Settled, fixed, loop, reply, handed
<1>2. /\ phase' \in {"failed", "cancelled"} /\ cause' = f
      /\ UNCHANGED <<vendor, request, round, history, attempt, sent, pending, emitted, delivered, usage>>
    BY DEF GiveUp, fixed, loop, reply, handed
<1>3. AnswerSound'
    BY <1>2 DEF CallsInv, AnswerSound
<1>4. UsageSound' /\ UsageOfTheAnswer'
    BY <1>2 DEF CallsInv, UsageSound, UsageOfTheAnswer
<1>5. RequestSound' /\ NextRoundAccepted'
    BY <1>2 DEF CallsInv, RequestSound, NextRoundAccepted
<1> QED BY <1>1, <1>3, <1>4, <1>5 DEF CallsInv

\* A failure is retried only when nothing was handed on, and only of a request that was accepted.
LEMMA RaiseKeeps ==
    ASSUME CallsInv, NEW f \in Causes, round > 1 => f # "request", Raise(f),
           f \in {"request", "destination"} \/ phase \in {"open", "reading", "ended"}
    PROVE  CallsInv'
<1>1. CASE ~MayRetry(f)
    BY <1>1, GiveUpKeeps DEF Raise
<1>2. CASE MayRetry(f)
  <2>1. /\ phase' = "delay" /\ cause' = f /\ sent' = NoReply /\ pending' = <<>>
        /\ UNCHANGED <<vendor, streaming, request, round, history, attempt, aborted,
                       emitted, delivered, usage>>
      BY <1>2 DEF Raise, fixed, handed
  <2>2. ~emitted /\ attempt < RetryCount /\ phase \in {"open", "reading", "ended"}
      BY <1>2, RetriedIs DEF MayRetry, CallsInv, AnswerTypeOK
  <2>3. AnswerTypeOK'
    <3>1. "delay" \in Phases /\ <<>> \in Seq(ToolCall)
        BY DEF Phases
    <3> QED BY <2>1, <3>1, NothingTyped DEF CallsInv, AnswerTypeOK
  <2>4. AnswerSound'
      BY <2>1, <2>2 DEF CallsInv, AnswerSound
  <2>5. UsageSound' /\ UsageOfTheAnswer'
      BY <2>1 DEF CallsInv, UsageSound, UsageOfTheAnswer
  <2>6. RequestSound' /\ NextRoundAccepted'
      BY <2>1, <2>2 DEF CallsInv, RequestSound, NextRoundAccepted
  <2> QED BY <2>3, <2>4, <2>5, <2>6 DEF CallsInv
<1> QED BY <1>1, <1>2

LEMMA ResumeKeeps == ASSUME CallsInv, Resume PROVE CallsInv'
<1>1. /\ phase = "delay" /\ phase' = "loop" /\ attempt' = attempt + 1 /\ emitted' = FALSE
      /\ UNCHANGED <<vendor, streaming, request, round, history, cause, aborted, sent, pending,
                     delivered, usage>>
    BY DEF Resume, fixed, reply
<1>2. attempt \in Nat /\ RetryCount \in Nat /\ usage \in Nat
    BY CallAssumption DEF CallsInv, AnswerTypeOK
<1>3. attempt < RetryCount /\ delivered = Nothing /\ ~emitted
    BY <1>1 DEF CallsInv, AnswerSound
<1>4. AnswerTypeOK'
  <2>1. "loop" \in Phases /\ attempt + 1 \in 0 .. RetryCount
      BY <1>2, <1>3 DEF Phases
  <2> QED BY <1>1, <2>1 DEF CallsInv, AnswerTypeOK
<1>5. AnswerSound'
    BY <1>1, <1>3, NothingTyped DEF CallsInv, AnswerSound
<1>6. UsageSound' /\ UsageOfTheAnswer'
    BY <1>1, <1>2 DEF CallsInv, UsageSound, UsageOfTheAnswer
<1>7. RequestSound' /\ NextRoundAccepted'
    BY <1>1 DEF CallsInv, RequestSound, NextRoundAccepted
<1> QED BY <1>4, <1>5, <1>6, <1>7 DEF CallsInv

LEMMA OutOfTimeKeeps == ASSUME CallsInv, OutOfTime PROVE CallsInv'
<1>1. PICK f : f = (IF cause = "none" THEN "timeout" ELSE cause)
    OBVIOUS
<1>2. f \in Causes /\ (round > 1 => f # "request")
    BY <1>1, FailuresAre DEF CallsInv, AnswerTypeOK, NextRoundAccepted
<1> QED BY <1>1, <1>2, GiveUpKeeps DEF OutOfTime

LEMMA BeginKeeps == ASSUME CallsInv, Begin PROVE CallsInv'
<1>1. vendor \in Vendors
    BY DEF CallsInv, AnswerTypeOK
<1>2. CASE phase' = "open"
  <2>1. /\ phase = "loop" /\ AcceptsRequest(vendor, request, history)
        /\ UNCHANGED <<vendor, streaming, request, round, history, cause, attempt, aborted,
                       sent, pending, emitted, delivered, usage>>
      BY <1>2 DEF Begin, Raise, GiveUp, fixed, reply, handed
  <2>2. AnswerTypeOK'
      BY <1>2, <2>1 DEF CallsInv, AnswerTypeOK, Phases
  <2>3. AnswerSound'
      BY <1>2, <2>1 DEF CallsInv, AnswerSound
  <2>4. UsageSound' /\ UsageOfTheAnswer' /\ RequestSound' /\ NextRoundAccepted'
      BY <1>2, <2>1 DEF CallsInv, UsageSound, UsageOfTheAnswer, RequestSound, NextRoundAccepted
  <2> QED BY <2>2, <2>3, <2>4 DEF CallsInv
<1>3. CASE Raise("destination")
    BY <1>1, <1>3, FailuresAre, RaiseKeeps
<1>4. CASE ~AcceptsRequest(vendor, request, history) /\ Raise("request")
  <2>1. ~(round > 1)
      BY <1>4 DEF CallsInv, RequestSound
  <2> QED BY <1>1, <1>4, <2>1, FailuresAre, RaiseKeeps
<1> QED BY <1>2, <1>3, <1>4 DEF Begin

\* What only raises a failure, or lets time pass, or tells that the client is gone.
LEMMA FailureKeeps ==
    ASSUME CallsInv,
           \/ Refuse \/ TimesOut \/ Aborts \/ CallRefused \/ Interrupt \/ HeldCallRefused
           \/ OverBudget \/ CallFails
    PROVE  CallsInv'
<1>1. vendor \in Vendors
    BY DEF CallsInv, AnswerTypeOK
<1>2. CASE OverBudget \/ CallFails
    BY <1>1, <1>2, FailuresAre, GiveUpKeeps DEF OverBudget, CallFails
<1>3. CASE Refuse \/ TimesOut \/ Aborts \/ CallRefused \/ Interrupt \/ HeldCallRefused
  <2>1. PICK f \in Causes \ {"request"} : Raise(f) /\ phase \in {"open", "reading", "ended"}
    <3>1. /\ Refusals \cup BadBodies \cup Interruptions(vendor) \subseteq Causes \ {"request"}
          /\ Signal(vendor, phase = "open") \in Causes \ {"request"}
          /\ {"abort", "unusable"} \subseteq Causes \ {"request"}
        BY <1>1, FailuresAre
    <3> QED BY <1>3, <3>1
            DEF Refuse, TimesOut, Aborts, CallRefused, Interrupt, HeldCallRefused, Receives
  <2> QED BY <2>1, RaiseKeeps
<1> QED BY <1>2, <1>3

\* A step that takes the call from one place to another, or nowhere, and hands nothing on.
LEMMA MoveKeeps ==
    ASSUME CallsInv, Tick \/ ClientLeaves \/ Complete \/ Parks \/ Opens \/ Finished
    PROVE  CallsInv'
<1>1. /\ UNCHANGED <<vendor, streaming, request, round, history, cause, attempt, sent, pending,
                     emitted, delivered, usage>>
      /\ aborted' \in BOOLEAN
    BY DEF CallsInv, AnswerTypeOK, Tick, ClientLeaves, Complete, Parks, Opens, Finished, vars,
           fixed, loop, reply, handed
<1>2. \/ phase' = phase
      \/ phase = "round" /\ phase' \in {"completed", "waiting"}
      \/ phase = "open" /\ phase' = "reading"
    BY DEF Tick, ClientLeaves, Complete, Parks, Opens, Finished, vars
<1>3. AnswerTypeOK'
    BY <1>1, <1>2 DEF CallsInv, AnswerTypeOK, Phases, Settled
<1>4. AnswerSound'
  <2>1. CASE phase = "open" /\ phase' = "reading"
    <3>1. /\ ~emitted /\ sent = NoReply /\ pending = <<>> /\ delivered = Nothing
        BY <2>1 DEF CallsInv, AnswerSound
    <3>2. \A n \in Nat : Numbered(<<>>, n)
        BY DEF Numbered
    <3> QED BY <1>1, <2>1, <3>1, <3>2, NothingTyped DEF CallsInv, AnswerSound, Numbered
  <2>2. CASE phase' = phase
      BY <1>1, <2>2 DEF CallsInv, AnswerSound
  <2>3. CASE phase = "round" /\ phase' \in {"completed", "waiting"}
      BY <1>1, <2>3 DEF CallsInv, AnswerSound
  <2> QED BY <1>2, <2>1, <2>2, <2>3
<1>5. UsageSound' /\ UsageOfTheAnswer'
    BY <1>1, <1>2, NothingTyped DEF CallsInv, UsageSound, UsageOfTheAnswer, AnswerSound
<1>6. RequestSound' /\ NextRoundAccepted'
    BY <1>1, <1>2 DEF CallsInv, RequestSound, NextRoundAccepted
<1> QED BY <1>3, <1>4, <1>5, <1>6 DEF CallsInv

LEMMA NextRoundKeeps == ASSUME CallsInv, NextRound PROVE CallsInv'
<1>1. CASE round < Rounds
  <2>1. /\ phase = "round" /\ \A a \in Answered : ExecutorParses(a)
        /\ round' = round + 1 /\ history' = history \cup Answered
        /\ phase' = "loop" /\ cause' = "none" /\ attempt' = 0
        /\ sent' = NoReply /\ pending' = <<>>
        /\ emitted' = FALSE /\ delivered' = Nothing /\ usage' = 0
        /\ UNCHANGED <<vendor, streaming, request, aborted>>
      BY <1>1 DEF NextRound, fixed
  <2>2. round \in 1 .. Rounds /\ Rounds \in Nat /\ RetryCount \in Nat
      BY CallAssumption DEF CallsInv, AnswerTypeOK
  <2>3. history' \subseteq {"object", "empty"}
    <3>1. Answered \subseteq {"object", "empty"}
        BY <2>1 DEF ExecutorParses
    <3> QED BY <2>1, <3>1 DEF CallsInv, RequestSound
  <2>4. AnswerTypeOK'
    <3>1. /\ round' \in 1 .. Rounds /\ 0 \in 0 .. RetryCount /\ 0 \in 0 .. RetryCount + 1
          /\ <<>> \in Seq(ToolCall) /\ FALSE \in BOOLEAN
        BY <1>1, <2>1, <2>2
    <3>2. "loop" \in Phases /\ "none" \in Causes /\ history' \subseteq Arguments
        BY <2>3 DEF Phases, Causes, Failures, Arguments
    <3> QED BY <2>1, <3>1, <3>2, NothingTyped DEF CallsInv, AnswerTypeOK
  <2>5. AnswerSound'
      BY <2>1, NothingTyped DEF AnswerSound
  <2>6. UsageSound' /\ UsageOfTheAnswer'
      BY <2>1, NothingTyped DEF UsageSound, UsageOfTheAnswer
  <2>7. RequestSound' /\ NextRoundAccepted'
    <3>1. vendor \in Vendors /\ AcceptsRequest(vendor, request, history)
        BY <2>1 DEF CallsInv, RequestSound, AnswerTypeOK
    <3>2. AcceptsRequest(vendor, request, history')
        BY <2>3, <3>1, StaysAccepted
    <3> QED BY <2>1, <2>3, <3>2 DEF RequestSound, NextRoundAccepted
  <2> QED BY <2>4, <2>5, <2>6, <2>7 DEF CallsInv
<1>2. CASE ~(round < Rounds)
  <2>1. "rounds" \in Causes \ {"request"}
      BY DEF Causes, Failures
  <2> QED BY <1>2, <2>1, GiveUpKeeps DEF NextRound
<1> QED BY <1>1, <1>2
-----------------------------------------------------------------------------
(***************************************************************************)
(* The reply.  Sums is the part of the invariant that a step of the vendor *)
(* has to keep: what the vendor sent, held, is what was handed on, out,    *)
(* followed by what is held back.                                          *)
(***************************************************************************)
SentType == [tokens : Nat, calls : Seq(ToolCall), usage : BOOLEAN, events : Nat]
OutType == [tokens : Nat, calls : Seq(ToolCall), from : SUBSET (1 .. RetryCount + 1)]

Sums(s, held, out) ==
    /\ s \in SentType /\ held \in Seq(ToolCall) /\ out \in OutType
    /\ out.tokens = s.tokens
    /\ Len(s.calls) = Len(out.calls) + Len(held)
    /\ Numbered(s.calls, 0) /\ Numbered(out.calls, 0) /\ Numbered(held, Len(out.calls))

LEMMA NumberedConcat ==
    ASSUME NEW s \in Seq(ToolCall), NEW t \in Seq(ToolCall), NEW n \in Nat,
           Numbered(s, n), Numbered(t, n + Len(s))
    PROVE  s \o t \in Seq(ToolCall) /\ Len(s \o t) = Len(s) + Len(t) /\ Numbered(s \o t, n)
<1>1. /\ s \o t \in Seq(ToolCall) /\ Len(s \o t) = Len(s) + Len(t)
      /\ Len(s) \in Nat /\ Len(t) \in Nat
    OBVIOUS
<1>2. ASSUME NEW k \in DOMAIN (s \o t) PROVE (s \o t)[k].id = n + k
  <2>1. k \in 1 .. Len(s) + Len(t)
      BY <1>1
  <2>2. CASE k <= Len(s)
    <3>1. k \in DOMAIN s /\ (s \o t)[k] = s[k]
        BY <1>1, <2>1, <2>2
    <3> QED BY <3>1 DEF Numbered
  <2>3. CASE k > Len(s)
    <3>1. k - Len(s) \in DOMAIN t /\ (s \o t)[k] = t[k - Len(s)]
        BY <1>1, <2>1, <2>3
    <3>2. t[k - Len(s)].id = n + Len(s) + (k - Len(s))
        BY <3>1 DEF Numbered
    <3> QED BY <1>1, <2>1, <3>1, <3>2
  <2> QED BY <1>1, <2>1, <2>2, <2>3
<1> QED BY <1>1, <1>2 DEF Numbered

LEMMA NumberedTail ==
    ASSUME NEW s \in Seq(ToolCall), NEW n \in Nat, Numbered(s, n), s # <<>>
    PROVE  /\ Head(s) \in ToolCall /\ Head(s).id = n + 1
           /\ Tail(s) \in Seq(ToolCall) /\ Len(Tail(s)) = Len(s) - 1 /\ Numbered(Tail(s), n + 1)
<1>1. /\ Len(s) \in Nat \ {0} /\ Head(s) = s[1] /\ 1 \in DOMAIN s
      /\ Tail(s) \in Seq(ToolCall) /\ Len(Tail(s)) = Len(s) - 1
    OBVIOUS
<1>2. ASSUME NEW k \in DOMAIN Tail(s) PROVE Tail(s)[k].id = n + 1 + k
  <2>1. k \in 1 .. Len(s) - 1 /\ Tail(s)[k] = s[k + 1] /\ k + 1 \in DOMAIN s
      BY <1>1
  <2> QED BY <2>1 DEF Numbered
<1> QED BY <1>1, <1>2 DEF Numbered

\* The adapters change the arguments of a call, and neither its id nor its place.
LEMMA NumberedLike ==
    ASSUME NEW s \in Seq(ToolCall), NEW t \in Seq(ToolCall), NEW n \in Nat, Numbered(s, n),
           Len(t) = Len(s), \A k \in DOMAIN s : t[k].id = s[k].id
    PROVE  Numbered(t, n)
<1>1. DOMAIN t = DOMAIN s
    OBVIOUS
<1> QED BY <1>1 DEF Numbered

LEMMA SumsNow ==
    ASSUME CallsInv, phase \in {"reading", "ended"}
    PROVE  Sums(sent, pending, delivered)
BY DEF CallsInv, AnswerTypeOK, AnswerSound, Sums, SentType, OutType

\* A step of the reply keeps the invariant when it keeps the sums and the usage.
LEMMA ReplyKeeps ==
    ASSUME CallsInv, phase \in {"open", "reading", "ended"},
           phase' \in {"reading", "ended", "round"},
           UNCHANGED <<vendor, streaming, request, round, history, cause, attempt, aborted>>,
           Sums(sent', pending', delivered'), emitted' \in BOOLEAN,
           ~emitted' => delivered' = Nothing, delivered'.from \subseteq {attempt + 1},
           phase' # "reading" => pending' = <<>>,
           usage' \in Nat, usage' <= attempt + 1,
           sent'.usage /\ ~(vendor = "anthropic" /\ phase' # "round") => usage' = attempt + 1
    PROVE  CallsInv'
<1>1. attempt \in 0 .. RetryCount /\ RetryCount \in Nat
    BY CallAssumption DEF CallsInv, AnswerTypeOK
<1>2. AnswerTypeOK'
  <2>1. phase' \in Phases /\ usage' \in 0 .. RetryCount + 1
      BY <1>1 DEF Phases
  <2>2. sent' \in SentType /\ pending' \in Seq(ToolCall) /\ delivered' \in OutType
      BY DEF Sums
  <2> QED BY <2>1, <2>2 DEF CallsInv, AnswerTypeOK, SentType, OutType
<1>3. AnswerSound'
    BY DEF AnswerSound, Sums
<1>4. UsageSound' /\ UsageOfTheAnswer'
    BY DEF UsageSound, UsageOfTheAnswer
<1>5. RequestSound' /\ NextRoundAccepted'
    BY DEF CallsInv, RequestSound, NextRoundAccepted
<1> QED BY <1>2, <1>3, <1>4, <1>5 DEF CallsInv

\* What is handed on is of this attempt, and follows what was handed on before.
LEMMA HandIs ==
    ASSUME CallsInv, NEW tokens \in Nat, NEW calls \in Seq(ToolCall), Hand(tokens, calls)
    PROVE  /\ emitted' /\ delivered' \in OutType
           /\ delivered'.tokens = delivered.tokens + tokens
           /\ delivered'.calls = delivered.calls \o calls
           /\ delivered'.from \subseteq {attempt + 1}
<1>1. /\ delivered \in OutType /\ delivered.from \subseteq {attempt + 1}
      /\ attempt \in 0 .. RetryCount /\ RetryCount \in Nat
    BY CallAssumption DEF CallsInv, AnswerTypeOK, AnswerSound, OutType
<1>2. delivered.calls \in Seq(ToolCall) /\ delivered.tokens \in Nat
    BY <1>1 DEF OutType
<1>3. delivered.calls \o calls \in Seq(ToolCall) /\ delivered.tokens + tokens \in Nat
    BY <1>2
<1>4. delivered.from \cup {attempt + 1} \in SUBSET (1 .. RetryCount + 1)
    BY <1>1
<1> QED BY <1>1, <1>3, <1>4 DEF Hand, OutType

LEMMA AnswerKeeps == ASSUME CallsInv, Answer PROVE CallsInv'
<1>1. /\ phase = "open" /\ phase' = "round" /\ usage' = attempt + 1 /\ pending' = pending
      /\ UNCHANGED <<vendor, streaming, request, round, history, cause, attempt, aborted>>
    BY DEF Answer, fixed, loop
<1>2. /\ delivered = Nothing /\ pending = <<>>
      /\ vendor \in Vendors /\ attempt \in 0 .. RetryCount
    BY <1>1 DEF CallsInv, AnswerSound, AnswerTypeOK
<1>3. PICK tokens \in 0 .. 1, n \in 0 .. (IF request.tools THEN Cardinality(CallIds) ELSE 0) :
        \E args \in [1 .. n -> WholeArguments] :
          LET calls == [k \in 1 .. n |-> [id |-> k, args |-> args[k]]]
          IN /\ sent' = [tokens |-> tokens, calls |-> calls, usage |-> TRUE, events |-> 0]
             /\ Hand(tokens, WholeReply(vendor, calls))
    BY DEF Answer
<1>4. PICK args \in [1 .. n -> WholeArguments] :
        LET calls == [k \in 1 .. n |-> [id |-> k, args |-> args[k]]]
        IN /\ sent' = [tokens |-> tokens, calls |-> calls, usage |-> TRUE, events |-> 0]
           /\ Hand(tokens, WholeReply(vendor, calls))
    BY <1>3
<1>5. PICK calls : calls = [k \in 1 .. n |-> [id |-> k, args |-> args[k]]]
    OBVIOUS
<1>6. n \in 0 .. 2
  <2>1. 1 \in Int /\ 2 \in Int
      OBVIOUS
  <2>2. Cardinality(1 .. 2) = IF 1 > 2 THEN 0 ELSE 2 - 1 + 1
      BY ONLY <2>1, FS_Interval
  <2>3. Cardinality(CallIds) = 2
      BY <2>2 DEF CallIds
  <2> QED BY <2>3
<1>7. calls \in Seq(ToolCall) /\ Len(calls) = n /\ Numbered(calls, 0)
  <2>1. \A k \in 1 .. n : calls[k] \in ToolCall
    <3>1. \A k \in 1 .. n : k \in CallIds /\ args[k] \in Arguments
        BY <1>6 DEF CallIds, WholeArguments
    <3> QED BY <1>5, <3>1 DEF ToolCall
  <2>2. calls \in [1 .. n -> ToolCall]
      BY <1>5, <2>1
  <2>3. calls \in Seq(ToolCall) /\ Len(calls) = n /\ DOMAIN calls = 1 .. n
      BY <1>6, <2>2
  <2>4. \A k \in DOMAIN calls : calls[k].id = 0 + k
      BY <1>5, <2>3
  <2> QED BY <2>3, <2>4 DEF Numbered
<1>8. PICK whole \in Seq(ToolCall) :
        whole = WholeReply(vendor, calls) /\ Numbered(whole, 0) /\ Len(whole) = n
  <2>1. /\ WholeReply(vendor, calls) \in Seq(ToolCall)
        /\ Len(WholeReply(vendor, calls)) = Len(calls)
        /\ \A k \in DOMAIN calls : WholeReply(vendor, calls)[k].id = calls[k].id
      BY <1>2, <1>7, WholeReplyIs
  <2>2. Numbered(WholeReply(vendor, calls), 0)
      BY <1>7, <2>1, NumberedLike
  <2> QED BY <1>7, <2>1, <2>2
<1>9. /\ tokens \in Nat /\ Hand(tokens, whole)
      /\ sent' = [tokens |-> tokens, calls |-> calls, usage |-> TRUE, events |-> 0]
    BY <1>4, <1>5, <1>8
<1>10. /\ emitted' /\ delivered' \in OutType /\ delivered'.from \subseteq {attempt + 1}
       /\ delivered'.tokens = tokens /\ delivered'.calls = whole
  <2>1. /\ emitted' /\ delivered' \in OutType /\ delivered'.from \subseteq {attempt + 1}
        /\ delivered'.tokens = delivered.tokens + tokens
        /\ delivered'.calls = delivered.calls \o whole
      BY <1>9, HandIs
  <2>2. 0 + tokens = tokens /\ <<>> \o whole = whole
      BY <1>9, ConcatEmpty
  <2> QED BY <1>2, <2>1, <2>2, NothingTyped
<1>11. Sums(sent', pending', delivered')
  <2>1. /\ sent' \in SentType /\ sent'.tokens = tokens /\ sent'.calls = calls
      BY <1>7, <1>9 DEF SentType
  <2>2. pending' = <<>> /\ <<>> \in Seq(ToolCall) /\ Len(<<>>) = 0 /\ Numbered(<<>>, Len(whole))
      BY <1>1, <1>2 DEF Numbered
  <2> QED BY <1>7, <1>8, <1>10, <2>1, <2>2 DEF Sums
<1>12. emitted' \in BOOLEAN
    BY DEF Answer, Hand
<1> QED BY <1>1, <1>2, <1>10, <1>11, <1>12, ReplyKeeps

\* The record of what was sent, for a usage of any kind.
LEMMA SentIs ==
    ASSUME NEW C, NEW U, NEW s \in [tokens : Nat, calls : C, usage : U, events : Nat],
           NEW c \in C, NEW u \in U
    PROVE  /\ [s EXCEPT !.tokens = @ + 1, !.events = @ + 1]
                 = [tokens |-> s.tokens + 1, calls |-> s.calls, usage |-> s.usage, events |-> s.events + 1]
           /\ [s EXCEPT !.calls = c, !.events = @ + 1]
                 = [tokens |-> s.tokens, calls |-> c, usage |-> s.usage, events |-> s.events + 1]
           /\ [s EXCEPT !.usage = u, !.events = @ + 1]
                 = [tokens |-> s.tokens, calls |-> s.calls, usage |-> u, events |-> s.events + 1]
           /\ [s EXCEPT !.events = @ + 1]
                 = [tokens |-> s.tokens, calls |-> s.calls, usage |-> s.usage, events |-> s.events + 1]
           /\ s.tokens \in Nat /\ s.calls \in C /\ s.usage \in U /\ s.events \in Nat
<1>. DEFINE IsWhole(z) ==
       z = [tokens |-> z.tokens, calls |-> z.calls, usage |-> z.usage, events |-> z.events]
<1>1. ASSUME NEW z, DOMAIN z = {"tokens", "calls", "usage", "events"}, z = [k \in DOMAIN z |-> z[k]]
      PROVE  IsWhole(z)
    BY <1>1
<1>2. ASSUME NEW z, z = [s EXCEPT !.tokens = @ + 1, !.events = @ + 1]
      PROVE  z = [tokens |-> s.tokens + 1, calls |-> s.calls, usage |-> s.usage, events |-> s.events + 1]
  <2>1. DOMAIN z = {"tokens", "calls", "usage", "events"} /\ z = [k \in DOMAIN z |-> z[k]]
      BY <1>2
  <2>2. z.tokens = s.tokens + 1 /\ z.calls = s.calls /\ z.usage = s.usage /\ z.events = s.events + 1
      BY <1>2
  <2> QED BY <1>1, <2>1, <2>2
<1>3. ASSUME NEW z, z = [s EXCEPT !.calls = c, !.events = @ + 1]
      PROVE  z = [tokens |-> s.tokens, calls |-> c, usage |-> s.usage, events |-> s.events + 1]
  <2>1. DOMAIN z = {"tokens", "calls", "usage", "events"} /\ z = [k \in DOMAIN z |-> z[k]]
      BY <1>3
  <2>2. z.tokens = s.tokens /\ z.calls = c /\ z.usage = s.usage /\ z.events = s.events + 1
      BY <1>3
  <2> QED BY <1>1, <2>1, <2>2
<1>4. ASSUME NEW z, z = [s EXCEPT !.usage = u, !.events = @ + 1]
      PROVE  z = [tokens |-> s.tokens, calls |-> s.calls, usage |-> u, events |-> s.events + 1]
  <2>1. DOMAIN z = {"tokens", "calls", "usage", "events"} /\ z = [k \in DOMAIN z |-> z[k]]
      BY <1>4
  <2>2. z.tokens = s.tokens /\ z.calls = s.calls /\ z.usage = u /\ z.events = s.events + 1
      BY <1>4
  <2> QED BY <1>1, <2>1, <2>2
<1>5. ASSUME NEW z, z = [s EXCEPT !.events = @ + 1]
      PROVE  z = [tokens |-> s.tokens, calls |-> s.calls, usage |-> s.usage, events |-> s.events + 1]
  <2>1. DOMAIN z = {"tokens", "calls", "usage", "events"} /\ z = [k \in DOMAIN z |-> z[k]]
      BY <1>5
  <2>2. z.tokens = s.tokens /\ z.calls = s.calls /\ z.usage = s.usage /\ z.events = s.events + 1
      BY <1>5
  <2> QED BY <1>1, <2>1, <2>2
<1> QED BY <1>2, <1>3, <1>4, <1>5

\* An event of the stream that hands nothing on, and says how the sums stay.
LEMMA HeldBack ==
    ASSUME CallsInv, phase = "reading", Took, UNCHANGED <<emitted, delivered>>,
           Sums(sent', pending', delivered),
           usage' = usage \/ usage' = attempt + 1,
           sent'.usage /\ vendor # "anthropic" => sent.usage \/ usage' = attempt + 1
    PROVE  CallsInv'
<1>1. /\ attempt \in Nat /\ usage \in Nat /\ usage <= attempt + 1
      /\ sent.usage /\ vendor # "anthropic" => usage = attempt + 1
      /\ emitted \in BOOLEAN /\ (~emitted => delivered = Nothing)
      /\ delivered.from \subseteq {attempt + 1}
    BY CallAssumption DEF CallsInv, AnswerTypeOK, AnswerSound, UsageSound
<1>2. /\ phase' = "reading"
      /\ UNCHANGED <<vendor, streaming, request, round, history, cause, attempt, aborted>>
    BY DEF Took, fixed, loop
<1> QED BY <1>1, <1>2, ReplyKeeps

LEMMA TokenKeeps == ASSUME CallsInv, phase = "reading", Took, Token PROVE CallsInv'
<1>1. /\ sent' = [sent EXCEPT !.tokens = @ + 1, !.events = @ + 1]
      /\ Hand(1, <<>>) /\ UNCHANGED <<pending, usage>>
    BY DEF Token
<1>2. Sums(sent, pending, delivered)
    BY SumsNow
<1>3. /\ sent' \in SentType /\ sent'.tokens = sent.tokens + 1
      /\ sent'.calls = sent.calls /\ sent'.usage = sent.usage
  <2>1. sent \in SentType
      BY <1>2 DEF Sums
  <2>2. /\ sent' = [tokens |-> sent.tokens + 1, calls |-> sent.calls,
                    usage |-> sent.usage, events |-> sent.events + 1]
        /\ sent.tokens \in Nat /\ sent.calls \in Seq(ToolCall) /\ sent.usage \in BOOLEAN
        /\ sent.events \in Nat
      BY <1>1, <2>1, SentIs DEF SentType
  <2> QED BY <2>2 DEF SentType
<1>4. /\ emitted' /\ delivered' \in OutType /\ delivered'.from \subseteq {attempt + 1}
      /\ delivered'.tokens = delivered.tokens + 1 /\ delivered'.calls = delivered.calls
  <2>1. 1 \in Nat /\ <<>> \in Seq(ToolCall) /\ delivered.calls \in Seq(ToolCall)
      BY <1>2 DEF Sums, OutType
  <2>2. delivered.calls \o <<>> = delivered.calls
      BY <2>1, ConcatEmpty
  <2> QED BY <1>1, <2>1, <2>2, HandIs
<1>5. Sums(sent', pending', delivered')
    BY <1>1, <1>2, <1>3, <1>4 DEF Sums
<1>6. /\ attempt \in Nat /\ usage \in Nat /\ usage <= attempt + 1
      /\ sent.usage /\ vendor # "anthropic" => usage = attempt + 1
    BY CallAssumption DEF CallsInv, AnswerTypeOK, UsageSound
<1>7. /\ phase' = "reading" /\ emitted' \in BOOLEAN
      /\ UNCHANGED <<vendor, streaming, request, round, history, cause, attempt, aborted>>
    BY <1>1 DEF Took, Hand, fixed, loop
<1> QED BY <1>1, <1>3, <1>4, <1>5, <1>6, <1>7, ReplyKeeps

LEMMA CallBeginsKeeps ==
    ASSUME CallsInv, phase = "reading", Took, NEW a \in Arguments, CallBegins(a) PROVE CallsInv'
<1>1. PICK c : c = [id |-> Len(sent.calls) + 1, args |-> a]
    OBVIOUS
<1>2. /\ c.id \in CallIds
      /\ sent' = [sent EXCEPT !.calls = Append(@, c), !.events = @ + 1]
      /\ pending' = Append(pending, c) /\ UNCHANGED <<emitted, delivered, usage>>
    BY <1>1 DEF CallBegins, handed
<1>3. Sums(sent, pending, delivered)
    BY SumsNow
<1>4. c \in ToolCall /\ c.id = Len(sent.calls) + 1
    BY <1>1, <1>2 DEF ToolCall
<1>5. ASSUME NEW s \in Seq(ToolCall), NEW n \in Nat, Numbered(s, n), c.id = n + Len(s) + 1
      PROVE  /\ Append(s, c) \in Seq(ToolCall) /\ Len(Append(s, c)) = Len(s) + 1
             /\ Numbered(Append(s, c), n)
  <2>1. /\ Append(s, c) \in Seq(ToolCall) /\ Len(Append(s, c)) = Len(s) + 1 /\ Len(s) \in Nat
      BY <1>4
  <2>2. ASSUME NEW k \in DOMAIN Append(s, c) PROVE Append(s, c)[k].id = n + k
    <3>1. k \in 1 .. Len(s) + 1
        BY <2>1
    <3>2. CASE k <= Len(s)
      <4>1. k \in DOMAIN s /\ Append(s, c)[k] = s[k]
          BY <2>1, <3>1, <3>2
      <4> QED BY <1>5, <4>1 DEF Numbered
    <3>3. CASE k = Len(s) + 1
      <4>1. Append(s, c)[k] = c
          BY <2>1, <3>3
      <4> QED BY <1>5, <2>1, <3>3, <4>1
    <3> QED BY <2>1, <3>1, <3>2, <3>3
  <2> QED BY <2>1, <2>2 DEF Numbered
<1>6. /\ sent.calls \in Seq(ToolCall) /\ pending \in Seq(ToolCall) /\ delivered.calls \in Seq(ToolCall)
      /\ Len(sent.calls) \in Nat /\ Len(pending) \in Nat /\ Len(delivered.calls) \in Nat
      /\ Len(sent.calls) = Len(delivered.calls) + Len(pending)
      /\ Numbered(sent.calls, 0) /\ Numbered(pending, Len(delivered.calls))
    BY <1>3 DEF Sums, SentType, OutType
<1>7. /\ Append(sent.calls, c) \in Seq(ToolCall) /\ Numbered(Append(sent.calls, c), 0)
      /\ Len(Append(sent.calls, c)) = Len(sent.calls) + 1
  <2>1. c.id = 0 + Len(sent.calls) + 1
      BY <1>4, <1>6
  <2> QED BY <1>5, <1>6, <2>1
<1>8. /\ Append(pending, c) \in Seq(ToolCall) /\ Numbered(Append(pending, c), Len(delivered.calls))
      /\ Len(Append(pending, c)) = Len(pending) + 1
  <2>1. c.id = Len(delivered.calls) + Len(pending) + 1
      BY <1>4, <1>6
  <2> QED BY <1>5, <1>6, <2>1
<1>9. /\ sent' \in SentType /\ sent'.tokens = sent.tokens /\ sent'.usage = sent.usage
      /\ sent'.calls = Append(sent.calls, c)
  <2>1. sent \in SentType
      BY <1>3 DEF Sums
  <2>2. /\ sent' = [tokens |-> sent.tokens, calls |-> Append(sent.calls, c),
                    usage |-> sent.usage, events |-> sent.events + 1]
        /\ sent.tokens \in Nat /\ sent.usage \in BOOLEAN /\ sent.events \in Nat
      BY <1>2, <1>7, <2>1, SentIs DEF SentType
  <2> QED BY <1>7, <2>2 DEF SentType
<1>10. Sums(sent', pending', delivered)
  <2>1. Numbered(sent'.calls, 0) /\ Numbered(pending', Len(delivered.calls))
      BY <1>2, <1>7, <1>8, <1>9
  <2>2. Len(sent'.calls) = Len(delivered.calls) + Len(pending')
    <3>1. Len(sent'.calls) = Len(sent.calls) + 1
        BY <1>7, <1>9
    <3>2. Len(pending') = Len(pending) + 1
        BY <1>2, <1>8
    <3>3. \A x, y, z \in Nat : x = y + z => x + 1 = y + (z + 1)
        OBVIOUS
    <3>4. Len(sent.calls) + 1 = Len(delivered.calls) + (Len(pending) + 1)
        BY <1>6, <3>3, Zenon
    <3> QED BY <3>1, <3>2, <3>4, Zenon
  <2>3. pending' \in Seq(ToolCall) /\ delivered.tokens = sent'.tokens
      BY <1>2, <1>3, <1>8, <1>9 DEF Sums
  <2> QED BY <1>3, <1>9, <2>1, <2>2, <2>3 DEF Sums
<1> QED BY <1>2, <1>9, <1>10, HeldBack

LEMMA SentGrows ==
    ASSUME NEW C, NEW U, NEW s \in [tokens : Nat, calls : C, usage : U, events : Nat], NEW n, NEW a
    PROVE  [s EXCEPT !.calls[n].args = a, !.events = @ + 1]
                 = [tokens |-> s.tokens, calls |-> [s.calls EXCEPT ![n].args = a],
                    usage |-> s.usage, events |-> s.events + 1]
<1>1. PICK z : z = [s EXCEPT !.calls[n].args = a, !.events = @ + 1]
    OBVIOUS
<1>2. DOMAIN z = {"tokens", "calls", "usage", "events"} /\ z = [k \in DOMAIN z |-> z[k]]
    BY <1>1
<1>3. /\ z.tokens = s.tokens /\ z.calls = [s.calls EXCEPT ![n].args = a]
      /\ z.usage = s.usage /\ z.events = s.events + 1
    BY <1>1
<1>4. z = [tokens |-> z.tokens, calls |-> z.calls, usage |-> z.usage, events |-> z.events]
    BY <1>2
<1> QED BY <1>1, <1>3, <1>4

Grown(s, a) == [s EXCEPT ![Len(s)].args = a]

LEMMA LastGrows ==
    ASSUME NEW s \in Seq(ToolCall), s # <<>>, NEW n \in Nat, Numbered(s, n), NEW a \in Arguments
    PROVE  Grown(s, a) \in Seq(ToolCall) /\ Len(Grown(s, a)) = Len(s) /\ Numbered(Grown(s, a), n)
<1>. DEFINE z == Grown(s, a)
<1>1. /\ Len(s) \in Nat /\ DOMAIN s = 1 .. Len(s) /\ Len(s) \in DOMAIN s
      /\ \A k \in DOMAIN s : s[k] \in ToolCall
    OBVIOUS
<1>2. DOMAIN z = DOMAIN s /\ z = [k \in DOMAIN s |-> z[k]]
    BY DEF Grown
<1>3. ASSUME NEW k \in DOMAIN s PROVE z[k] \in ToolCall /\ z[k].id = s[k].id
  <2>1. CASE k = Len(s)
    <3>1. z[k] = [s[k] EXCEPT !.args = a]
        BY <1>1, <2>1 DEF Grown
    <3> QED BY <1>1, <3>1 DEF ToolCall
  <2>2. CASE k # Len(s)
    <3>1. z[k] = s[k]
        BY <1>1, <2>2 DEF Grown
    <3> QED BY <1>1, <3>1
  <2> QED BY <2>1, <2>2
<1>. HIDE DEF z
<1>4. z \in [1 .. Len(s) -> ToolCall]
    BY <1>1, <1>2, <1>3
<1>5. z \in Seq(ToolCall) /\ Len(z) = Len(s)
    BY <1>1, <1>4
<1>6. Numbered(z, n)
    BY <1>3, <1>5, NumberedLike
<1> QED BY <1>5, <1>6 DEF z

LEMMA CallGrowsKeeps ==
    ASSUME CallsInv, phase = "reading", Took, NEW a \in Arguments, CallGrows(a) PROVE CallsInv'
<1>1. /\ pending # <<>>
      /\ sent' = [sent EXCEPT !.calls[Len(sent.calls)].args = a, !.events = @ + 1]
      /\ pending' = Grown(pending, a)
      /\ UNCHANGED <<emitted, delivered, usage>>
    BY DEF CallGrows, handed, Grown
<1>2. Sums(sent, pending, delivered)
    BY SumsNow
<1>3. /\ sent.calls \in Seq(ToolCall) /\ pending \in Seq(ToolCall) /\ Len(delivered.calls) \in Nat
      /\ Len(sent.calls) = Len(delivered.calls) + Len(pending)
      /\ Numbered(sent.calls, 0) /\ Numbered(pending, Len(delivered.calls))
    BY <1>2 DEF Sums, SentType, OutType
<1>4. sent.calls # <<>>
  <2>1. Len(pending) \in Nat \ {0}
      BY <1>1, <1>3
  <2>2. Len(sent.calls) # 0
      BY <1>3, <2>1
  <2> QED BY <2>2
<1>5. PICK more : more = Grown(sent.calls, a)
    OBVIOUS
<1>6. more \in Seq(ToolCall) /\ Len(more) = Len(sent.calls) /\ Numbered(more, 0)
  <2>1. 0 \in Nat /\ a \in Arguments
      OBVIOUS
  <2> QED BY <1>3, <1>4, <1>5, <2>1, LastGrows, Zenon
<1>7. /\ pending' \in Seq(ToolCall) /\ Len(pending') = Len(pending)
      /\ Numbered(pending', Len(delivered.calls))
  <2>1. a \in Arguments
      OBVIOUS
  <2> QED BY <1>1, <1>3, <2>1, LastGrows, Zenon
<1>8. /\ sent' \in SentType /\ sent'.tokens = sent.tokens /\ sent'.usage = sent.usage
      /\ sent'.calls = more
  <2>1. sent \in SentType
      BY <1>2 DEF Sums
  <2>2. /\ sent' = [tokens |-> sent.tokens, calls |-> more,
                    usage |-> sent.usage, events |-> sent.events + 1]
      BY <1>1, <1>5, <2>1, SentGrows DEF SentType, Grown
  <2>3. /\ sent.tokens \in Nat /\ sent.usage \in BOOLEAN /\ sent.events \in Nat
      BY <2>1 DEF SentType
  <2> QED BY <1>6, <2>2, <2>3 DEF SentType
<1>9. Sums(sent', pending', delivered)
  <2>1. Len(sent'.calls) = Len(delivered.calls) + Len(pending')
      BY <1>3, <1>6, <1>7, <1>8
  <2>2. Numbered(sent'.calls, 0) /\ delivered.tokens = sent'.tokens
      BY <1>2, <1>6, <1>8 DEF Sums
  <2> QED BY <1>2, <1>7, <1>8, <2>1, <2>2 DEF Sums
<1> QED BY <1>1, <1>8, <1>9, HeldBack

LEMMA CallClosesKeeps ==
    ASSUME CallsInv, phase = "reading", Took, CallCloses PROVE CallsInv'
<1>1. PICK c : c = FinalCall(Head(pending))
    OBVIOUS
<1>2. /\ pending # <<>> /\ c.args # "none" /\ Hand(0, <<c>>)
      /\ sent' = [sent EXCEPT !.events = @ + 1]
      /\ pending' = Tail(pending) /\ usage' = usage
    BY <1>1 DEF CallCloses
<1>3. Sums(sent, pending, delivered)
    BY SumsNow
<1>4. /\ pending \in Seq(ToolCall) /\ delivered.calls \in Seq(ToolCall)
      /\ Len(delivered.calls) \in Nat /\ Len(pending) \in Nat
      /\ Len(sent.calls) = Len(delivered.calls) + Len(pending)
      /\ Numbered(sent.calls, 0) /\ Numbered(pending, Len(delivered.calls))
      /\ Numbered(delivered.calls, 0) /\ delivered.tokens = sent.tokens /\ delivered.tokens \in Nat
    BY <1>3 DEF Sums, SentType, OutType
<1>5. /\ Head(pending) \in ToolCall /\ Head(pending).id = Len(delivered.calls) + 1
      /\ pending' \in Seq(ToolCall) /\ Len(pending') = Len(pending) - 1
      /\ Numbered(pending', Len(delivered.calls) + 1)
    BY <1>2, <1>4, NumberedTail
<1>6. c \in ToolCall /\ c.id = Len(delivered.calls) + 1
  <2>1. vendor \in Vendors /\ Head(pending).args \in Arguments
      BY <1>5 DEF CallsInv, AnswerTypeOK, ToolCall
  <2>2. c = [Head(pending) EXCEPT !.args = Final(vendor, Head(pending).args)]
      BY <1>1 DEF FinalCall
  <2>3. Final(vendor, Head(pending).args) \in Arguments
    <3>1. c.args = Final(vendor, Head(pending).args)
        BY <1>5, <2>2 DEF ToolCall
    <3> QED BY <1>2, <2>1, <3>1, FinalIs
  <2> QED BY <1>5, <2>2, <2>3 DEF ToolCall
<1>7. /\ delivered.calls \o <<c>> \in Seq(ToolCall)
      /\ Len(delivered.calls \o <<c>>) = Len(delivered.calls) + 1
      /\ Numbered(delivered.calls \o <<c>>, 0)
  <2>1. <<c>> \in Seq(ToolCall) /\ Len(<<c>>) = 1 /\ 0 + Len(delivered.calls) = Len(delivered.calls)
      BY <1>4, <1>6
  <2>2. Numbered(<<c>>, Len(delivered.calls))
      BY <1>6 DEF Numbered
  <2> QED BY <1>4, <2>1, <2>2, NumberedConcat
<1>8. /\ emitted' /\ delivered' \in OutType /\ delivered'.from \subseteq {attempt + 1}
      /\ delivered'.tokens = delivered.tokens + 0 /\ delivered'.calls = delivered.calls \o <<c>>
  <2>1. 0 \in Nat /\ <<c>> \in Seq(ToolCall)
      BY <1>6
  <2> QED BY <1>2, <2>1, HandIs
<1>9. /\ sent' \in SentType /\ sent'.tokens = sent.tokens
      /\ sent'.usage = sent.usage /\ sent'.calls = sent.calls
  <2>1. sent \in SentType
      BY <1>3 DEF Sums
  <2>2. /\ sent' = [tokens |-> sent.tokens, calls |-> sent.calls,
                    usage |-> sent.usage, events |-> sent.events + 1]
        /\ sent.tokens \in Nat /\ sent.usage \in BOOLEAN /\ sent.events \in Nat
        /\ sent.calls \in Seq(ToolCall)
      BY <1>2, <2>1, SentIs DEF SentType
  <2> QED BY <2>2 DEF SentType
<1>10. Sums(sent', pending', delivered')
  <2>1. Len(sent'.calls) = Len(delivered'.calls) + Len(pending')
    <3>1. Len(sent'.calls) = Len(delivered.calls) + Len(pending)
        BY <1>4, <1>9
    <3>2. Len(delivered'.calls) = Len(delivered.calls) + 1 /\ Len(pending') = Len(pending) - 1
        BY <1>5, <1>7, <1>8
    <3>3. \A x, y \in Nat : x + y = x + 1 + (y - 1)
        OBVIOUS
    <3>4. Len(delivered.calls) + Len(pending) = Len(delivered.calls) + 1 + (Len(pending) - 1)
        BY <1>4, <3>3, Zenon
    <3> QED BY <3>1, <3>2, <3>4, Zenon
  <2>2. delivered'.tokens = sent'.tokens /\ Numbered(sent'.calls, 0)
      BY <1>4, <1>8, <1>9
  <2>3. Numbered(delivered'.calls, 0) /\ Numbered(pending', Len(delivered'.calls))
      BY <1>5, <1>7, <1>8
  <2> QED BY <1>5, <1>8, <1>9, <2>1, <2>2, <2>3 DEF Sums
<1>11. /\ attempt \in Nat /\ usage \in Nat /\ usage <= attempt + 1
       /\ sent.usage /\ vendor # "anthropic" => usage = attempt + 1
    BY CallAssumption DEF CallsInv, AnswerTypeOK, UsageSound
<1>12. /\ phase' = "reading" /\ emitted' \in BOOLEAN
       /\ UNCHANGED <<vendor, streaming, request, round, history, cause, attempt, aborted>>
    BY <1>2 DEF Took, Hand, fixed, loop
<1> QED BY <1>2, <1>8, <1>9, <1>10, <1>11, <1>12, ReplyKeeps

Reported == [sent EXCEPT !.usage = TRUE, !.events = @ + 1]

LEMMA ReportKeeps ==
    ASSUME CallsInv, phase = "reading", Took, sent' = Reported,
           UNCHANGED <<pending, emitted, delivered>>,
           usage' = attempt + 1 \/ (usage' = usage /\ vendor = "anthropic")
    PROVE  CallsInv'
<1>1. Sums(sent, pending, delivered)
    BY SumsNow
<1>2. sent' \in SentType /\ sent'.tokens = sent.tokens /\ sent'.calls = sent.calls
  <2>1. sent \in SentType /\ TRUE \in BOOLEAN
      BY <1>1 DEF Sums
  <2>2. /\ sent' = [tokens |-> sent.tokens, calls |-> sent.calls,
                    usage |-> TRUE, events |-> sent.events + 1]
        /\ sent.tokens \in Nat /\ sent.events \in Nat /\ sent.calls \in Seq(ToolCall)
      BY <2>1, SentIs DEF SentType, Reported
  <2>3. /\ sent' \in [tokens : Nat, calls : Seq(ToolCall), usage : BOOLEAN, events : Nat]
      BY <2>1, <2>2
  <2> QED BY <2>2, <2>3 DEF SentType
<1>3. Sums(sent', pending', delivered)
    BY <1>1, <1>2 DEF Sums
<1> QED BY <1>3, HeldBack

\* What a vendor's event does, by its kind.
LEMMA EventKeeps ==
    ASSUME CallsInv, CompatibleEvent \/ AnthropicEvent \/ GeminiEvent \/ BedrockEvent
    PROVE  CallsInv'
<1>1. phase = "reading" /\ Took
    BY DEF CompatibleEvent, AnthropicEvent, GeminiEvent, BedrockEvent, Receives
<1>2. \/ Token \/ CallCloses
      \/ \E a \in Arguments : CallBegins(a) \/ CallGrows(a)
      \/ UsageReport
      \/ /\ vendor = "anthropic"
         /\ sent' = Reported /\ UNCHANGED <<pending, handed>>
  <2>1. "empty" \in Arguments
      BY DEF Arguments
  <2>2. \A a, b \in Arguments \cup {"none"} :
          GeminiFinal(a) \in Arguments /\ GeminiMerge(a, b) \in Arguments
      BY DEF Arguments, GeminiFinal, GeminiMerge
  <2>3. CASE GeminiEvent
    <3>1. CASE \E a \in Arguments : CallBegins(GeminiFinal(a))
        BY <2>2, <3>1
    <3>2. ASSUME NEW a \in Arguments, pending # <<>>,
                 CallGrows(GeminiMerge(pending[Len(pending)].args, GeminiFinal(a)))
          PROVE  \E b \in Arguments : CallGrows(b)
      <4>1. pending \in Seq(ToolCall)
          BY DEF CallsInv, AnswerTypeOK
      <4>2. pending[Len(pending)] \in ToolCall
          BY <3>2, <4>1
      <4>3. GeminiMerge(pending[Len(pending)].args, GeminiFinal(a)) \in Arguments
          BY <4>2, <2>2 DEF ToolCall
      <4> QED BY <3>2, <4>3
    <3> QED BY <2>3, <3>1, <3>2 DEF GeminiEvent
  <2>4. CASE CompatibleEvent
      BY <2>1, <2>4 DEF CompatibleEvent
  <2>5. CASE AnthropicEvent
      BY <2>1, <2>5 DEF AnthropicEvent, Reported
  <2>6. CASE BedrockEvent
      BY <2>1, <2>6 DEF BedrockEvent
  <2> QED BY <2>3, <2>4, <2>5, <2>6
<1>3. CASE UsageReport
  <2>1. sent' = Reported /\ usage' = attempt + 1 /\ UNCHANGED <<pending, emitted, delivered>>
      BY <1>3 DEF UsageReport, Reported
  <2> QED BY <1>1, <2>1, ReportKeeps
<1>4. CASE /\ vendor = "anthropic"
           /\ sent' = Reported /\ UNCHANGED <<pending, handed>>
    BY <1>1, <1>4, ReportKeeps DEF handed
<1> QED BY <1>1, <1>2, <1>3, <1>4, TokenKeeps, CallClosesKeeps, CallBeginsKeeps, CallGrowsKeeps

LEMMA StreamEndsKeeps == ASSUME CallsInv, StreamEnds PROVE CallsInv'
<1>1. /\ phase = "reading" /\ phase' = "ended" /\ pending' = <<>>
      /\ \A k \in DOMAIN pending : FinalCall(pending[k]).args # "none"
      /\ UNCHANGED <<vendor, streaming, request, round, history, cause, attempt, aborted, sent, usage>>
    BY DEF StreamEnds, fixed, loop
<1>2. Sums(sent, pending, delivered)
    BY <1>1, SumsNow
<1>3. /\ pending \in Seq(ToolCall) /\ delivered.calls \in Seq(ToolCall) /\ delivered.tokens \in Nat
      /\ Len(delivered.calls) \in Nat /\ Len(pending) \in Nat
      /\ sent \in SentType /\ delivered \in OutType
      /\ Len(sent.calls) = Len(delivered.calls) + Len(pending)
      /\ Numbered(sent.calls, 0) /\ Numbered(pending, Len(delivered.calls))
      /\ Numbered(delivered.calls, 0) /\ delivered.tokens = sent.tokens
    BY <1>2 DEF Sums, SentType, OutType
<1>4. <<>> \in Seq(ToolCall) /\ Len(<<>>) = 0 /\ \A n \in Nat : Numbered(<<>>, n)
    BY DEF Numbered
<1>5. /\ attempt \in Nat /\ usage \in Nat /\ usage <= attempt + 1
      /\ sent.usage /\ vendor # "anthropic" => usage = attempt + 1
      /\ emitted \in BOOLEAN /\ (~emitted => delivered = Nothing)
      /\ delivered.from \subseteq {attempt + 1}
    BY <1>1, CallAssumption DEF CallsInv, AnswerTypeOK, AnswerSound, UsageSound
<1>6. CASE pending = <<>>
  <2>1. UNCHANGED <<emitted, delivered>>
      BY <1>6 DEF StreamEnds
  <2>2. Sums(sent', pending', delivered')
      BY <1>1, <1>2, <1>6, <2>1
  <2> QED BY <1>1, <1>5, <2>1, <2>2, ReplyKeeps
<1>7. CASE pending # <<>>
  <2>1. PICK cs : cs = FinalCalls(pending)
      OBVIOUS
  <2>2. Hand(0, cs)
      BY <1>7, <2>1 DEF StreamEnds
  <2>3. cs \in Seq(ToolCall) /\ Len(cs) = Len(pending) /\ Numbered(cs, Len(delivered.calls))
    <3>1. DOMAIN pending = 1 .. Len(pending) /\ \A k \in DOMAIN pending : pending[k] \in ToolCall
        BY <1>3
    <3>2. ASSUME NEW k \in DOMAIN pending PROVE cs[k] \in ToolCall /\ cs[k].id = pending[k].id
      <4>1. cs[k] = FinalCall(pending[k])
          BY <2>1 DEF FinalCalls
      <4>2. cs[k] = [pending[k] EXCEPT !.args = Final(vendor, pending[k].args)]
          BY <4>1 DEF FinalCall
      <4>3. vendor \in Vendors /\ pending[k] \in ToolCall /\ pending[k].args \in Arguments
          BY <3>1 DEF CallsInv, AnswerTypeOK, ToolCall
      <4>4. cs[k].args = Final(vendor, pending[k].args) /\ cs[k].args # "none"
          BY <1>1, <4>1, <4>2, <4>3 DEF ToolCall
      <4>5. Final(vendor, pending[k].args) \in Arguments
          BY <4>3, <4>4, FinalIs
      <4> QED BY <4>2, <4>3, <4>5 DEF ToolCall
    <3>3. cs \in [1 .. Len(pending) -> ToolCall]
        BY <2>1, <3>1, <3>2 DEF FinalCalls
    <3>4. cs \in Seq(ToolCall) /\ Len(cs) = Len(pending)
        BY <1>3, <3>3
    <3> QED BY <1>3, <3>2, <3>4, NumberedLike
  <2>4. PICK out : out = delivered.calls \o cs
      OBVIOUS
  <2>5. out \in Seq(ToolCall) /\ Len(out) = Len(delivered.calls) + Len(pending) /\ Numbered(out, 0)
    <3>1. 0 \in Nat /\ 0 + Len(delivered.calls) = Len(delivered.calls)
        BY <1>3
    <3>2. Numbered(cs, 0 + Len(delivered.calls))
        BY <2>3, <3>1
    <3> QED BY <1>3, <2>3, <2>4, <3>1, <3>2, NumberedConcat
  <2>6. /\ emitted' /\ delivered' \in OutType /\ delivered'.from \subseteq {attempt + 1}
        /\ delivered'.tokens = delivered.tokens + 0 /\ delivered'.calls = out
    <3>1. 0 \in Nat
        OBVIOUS
    <3> QED BY <2>2, <2>3, <2>4, <3>1, HandIs
  <2>7. Sums(sent', pending', delivered')
    <3>1. Len(sent'.calls) = Len(delivered'.calls) + Len(pending')
        BY <1>1, <1>3, <1>4, <2>5, <2>6
    <3>2. delivered'.tokens = sent'.tokens /\ sent' \in SentType /\ Numbered(sent'.calls, 0)
        BY <1>1, <1>3, <2>6
    <3>3. Numbered(delivered'.calls, 0) /\ Numbered(pending', Len(delivered'.calls))
      <4>1. Len(out) \in Nat
          BY <2>5
      <4> QED BY <1>1, <1>4, <2>5, <2>6, <4>1
    <3>4. pending' \in Seq(ToolCall)
        BY <1>1, <1>4
    <3> QED BY <2>6, <3>1, <3>2, <3>3, <3>4 DEF Sums
  <2>8. emitted' \in BOOLEAN
      BY <2>2 DEF Hand
  <2> QED BY <1>1, <1>5, <2>6, <2>7, <2>8, ReplyKeeps
<1> QED BY <1>6, <1>7

LEMMA DoneKeeps == ASSUME CallsInv, Done PROVE CallsInv'
<1>1. CASE vendor = "bedrock" /\ ~sent.usage
  <2>1. vendor \in Vendors /\ phase = "ended" /\ Raise("protocol")
      BY <1>1 DEF Done, CallsInv, AnswerTypeOK
  <2> QED BY <2>1, FailuresAre, RaiseKeeps
<1>2. CASE ~(vendor = "bedrock" /\ ~sent.usage)
  <2>1. /\ phase = "ended" /\ phase' = "round"
        /\ usage' = IF vendor = "anthropic" /\ sent.usage THEN attempt + 1 ELSE usage
        /\ UNCHANGED <<vendor, streaming, request, round, history, cause, attempt, aborted,
                       sent, pending, emitted, delivered>>
      BY <1>2 DEF Done, fixed, loop, reply
  <2>2. Sums(sent', pending', delivered') /\ pending = <<>>
      BY <2>1, SumsNow DEF CallsInv, AnswerSound
  <2>3. /\ attempt \in Nat /\ usage \in Nat /\ usage <= attempt + 1
        /\ sent.usage /\ vendor # "anthropic" => usage = attempt + 1
        /\ emitted \in BOOLEAN /\ (~emitted => delivered = Nothing)
        /\ delivered.from \subseteq {attempt + 1}
      BY <2>1, CallAssumption DEF CallsInv, AnswerTypeOK, AnswerSound, UsageSound
  <2> QED BY <2>1, <2>2, <2>3, ReplyKeeps
<1> QED BY <1>1, <1>2
-----------------------------------------------------------------------------
LEMMA CallsNextKeeps == CallsInv /\ [Next]_vars => CallsInv'
<1> SUFFICES ASSUME CallsInv, [Next]_vars PROVE CallsInv'
    OBVIOUS
<1>1. CASE Executor
    BY <1>1, ResumeKeeps, OutOfTimeKeeps, BeginKeeps, FailureKeeps, MoveKeeps, DoneKeeps, NextRoundKeeps
    DEF Executor
<1>2. CASE VendorSteps
    BY <1>2, FailureKeeps, AnswerKeeps, MoveKeeps, EventKeeps, StreamEndsKeeps DEF VendorSteps
<1>3. CASE ClientLeaves \/ Finished
    BY <1>3, MoveKeeps
<1>4. CASE UNCHANGED vars
  <2>1. UNCHANGED <<vendor, streaming, request, round, history, phase, cause, attempt, aborted,
                    sent, pending, emitted, delivered, usage>>
      BY <1>4 DEF vars, fixed, loop, reply, handed
  <2>2. AnswerTypeOK'
      BY <2>1 DEF CallsInv, AnswerTypeOK
  <2>3. AnswerSound'
      BY <2>1 DEF CallsInv, AnswerSound
  <2>4. UsageSound' /\ UsageOfTheAnswer' /\ RequestSound' /\ NextRoundAccepted'
      BY <2>1 DEF CallsInv, UsageSound, UsageOfTheAnswer, RequestSound, NextRoundAccepted
  <2> QED BY <2>2, <2>3, <2>4 DEF CallsInv
<1> QED BY <1>1, <1>2, <1>3, <1>4 DEF Next

\* The calls are numbered as they come, so what was handed on in full is what was sent, in its order.
LEMMA WholeAnswer == CallsInv => OneWholeAnswer
<1> SUFFICES ASSUME CallsInv PROVE OneWholeAnswer
    OBVIOUS
<1>1. delivered.from = {} \/ delivered.from = {attempt + 1}
    BY DEF CallsInv, AnswerSound
<1>2. Cardinality(delivered.from) <= 1
  <2>1. Cardinality({}) = 0 /\ Cardinality({attempt + 1}) = 1
      BY ONLY FS_EmptySet, FS_Singleton, Zenon
  <2>2. CASE delivered.from = {}
      BY <2>1, <2>2
  <2>3. CASE delivered.from = {attempt + 1}
      BY <2>1, <2>3
  <2> QED BY <1>1, <2>2, <2>3
<1>3. ASSUME phase \in {"round", "completed", "waiting"}
      PROVE  /\ delivered.tokens = sent.tokens /\ delivered.from \subseteq {attempt + 1}
             /\ IdsOf(delivered.calls) = IdsOf(sent.calls)
  <2>1. /\ delivered.tokens = sent.tokens /\ delivered.from \subseteq {attempt + 1}
        /\ pending = <<>> /\ Len(sent.calls) = Len(delivered.calls) + Len(pending)
        /\ Numbered(sent.calls, 0) /\ Numbered(delivered.calls, 0)
      BY <1>3 DEF CallsInv, AnswerSound
  <2>2. sent.calls \in Seq(ToolCall) /\ delivered.calls \in Seq(ToolCall)
      BY DEF CallsInv, AnswerTypeOK
  <2>3. Len(<<>>) = 0 /\ \A n \in Nat : n + 0 = n
      OBVIOUS
  <2>4. Len(delivered.calls) \in Nat
      BY <2>2
  <2>5. Len(sent.calls) = Len(delivered.calls)
      BY <2>1, <2>3, <2>4
  <2>6. DOMAIN sent.calls = DOMAIN delivered.calls
      BY <2>2, <2>5
  <2>7. \A k \in DOMAIN sent.calls : sent.calls[k].id = delivered.calls[k].id
      BY <2>1, <2>6 DEF Numbered
  <2> QED BY <2>1, <2>6, <2>7 DEF IdsOf
<1> QED BY <1>2, <1>3 DEF OneWholeAnswer

(***************************************************************************)
(* What was handed on, what the adapter holds back and what the vendor     *)
(* sent always add up, and a request that was accepted stays so.           *)
(***************************************************************************)
THEOREM CallsInductive == Spec => []IInv
<1>1. Init => CallsInv
    BY CallsInitHolds
<1>2. CallsInv /\ [Next]_vars => CallsInv'
    BY CallsNextKeeps
<1>3. CallsInv => IInv
    BY WholeAnswer DEF CallsInv, IInv
<1> QED BY <1>1, <1>2, <1>3, PTL DEF Spec

(***************************************************************************)
(* However often a call is retried, its reader sees the answer of one      *)
(* attempt, and what ends a round is all that this attempt sent, each tool *)
(* call once and in order (streamWithRetry, and streamChat of the four).   *)
(***************************************************************************)
THEOREM WholeAnswers == Spec => []OneWholeAnswer
<1>1. IInv => OneWholeAnswer
    BY DEF IInv
<1> QED BY <1>1, CallsInductive, PTL

(***************************************************************************)
(* The usage recorded for a round is the one reported with its answer, of  *)
(* whichever adapter, and never one of an attempt still to come.           *)
(***************************************************************************)
THEOREM UsageRecorded == Spec => []UsageOfTheAnswer
<1>1. IInv => UsageOfTheAnswer
    BY DEF IInv
<1> QED BY <1>1, CallsInductive, PTL

(***************************************************************************)
(* A run never ends in its second round or a later one because its own     *)
(* history cannot be sent back to the vendor it came from.                 *)
(***************************************************************************)
THEOREM RoundsAccepted == Spec => []NextRoundAccepted
<1>1. IInv => NextRoundAccepted
    BY DEF IInv
<1> QED BY <1>1, CallsInductive, PTL
=============================================================================
