---------------------------- MODULE Connections ----------------------------
(***************************************************************************)
(* Provider connections of one workspace (providers.service.ts), from the  *)
(* form that stores them to the request an adapter makes with them.  An    *)
(* update is checked against what was read before and writes only what it  *)
(* was given; a call is made with the row as one query found it.           *)
(***************************************************************************)
EXTENDS FiniteSets

CONSTANTS Ids,         \* connections
          Requests,    \* requests in progress at once
          Types,       \* the provider types in use
          Urls,        \* [https, host, plain: no credentials, query or fragment, root: no path]
          Private,     \* hosts of private networks
          Google,      \* hosts of Google's API
          Bedrock,     \* the hosts of Bedrock in each region
          AllowedUrls, \* OLLAMA_ALLOWED_BASE_URLS and BEDROCK_ALLOWED_ENDPOINTS
          Credentials, \* [key, aws, project: which are there; region]
          Configs,     \* [enterprise, endpoint, proper: priced well, nothing secret]
          None

ASSUME ConnectionConstants ==
    /\ Types \subseteq {"OPENAI", "AZURE_OPENAI", "OPENAI_COMPATIBLE", "OLLAMA", "ANTHROPIC",
                        "GOOGLE_GEMINI", "AWS_BEDROCK"}
    /\ AllowedUrls \subseteq Urls
    /\ None \notin Types /\ None \notin Ids
    /\ None \notin Urls /\ None \notin Credentials /\ None \notin Configs /\ None \notin DOMAIN Bedrock

VARIABLES
    conn,      \* ProviderConnection
    versions,  \* connections some AgentVersion refers to
    req        \* requests, with what they have read

connectionsVars == <<conn, versions, req>>

Absent == [type |-> None, url |-> None, creds |-> None, config |-> None, enabled |-> FALSE,
           error |-> FALSE]
Removed == [Absent EXCEPT !.error = TRUE]   \* an id is not used again
Idle == [at |-> "idle", id |-> None, row |-> Absent, to |-> None]
\* What a request goes on with: for an update, row holds what it was given, or None.
Request(at, i, row, to) == [at |-> at, id |-> i, row |-> row, to |-> to]

ConnectionsInit ==
    /\ conn = [i \in Ids |-> Absent]
    /\ versions = {}
    /\ req = [c \in Requests |-> Idle]

Exists(i) == conn[i] \notin {Absent, Removed}
Continue(c, r) == req' = [req EXCEPT ![c] = r]

-----------------------------------------------------------------------------
(* What may be stored.                                                     *)

IsPrivate(u) == u.host \in Private
Parses(u, private) == (u.https \/ private) /\ u.plain /\ (private \/ ~IsPrivate(u))

Official(u, region) ==
    \E r \in DOMAIN Bedrock : (region # None => r = region) /\ u.host \in Bedrock[r]
Allowed(u) == u \in AllowedUrls
BedrockAllows(u, region) == Parses(u, FALSE) /\ u.root /\ (Allowed(u) \/ Official(u, region))

ValidBaseUrl(type, u, region) ==
    IF u = None THEN type # "OLLAMA"
    ELSE CASE type = "OLLAMA"        -> Parses(u, TRUE) /\ Allowed(u)
           [] type = "GOOGLE_GEMINI" -> Parses(u, FALSE) /\ u.host \in Google
           [] type = "AWS_BEDROCK"   -> BedrockAllows(u, region)
           [] OTHER                  -> Parses(u, FALSE)

ValidEndpoint(config, region) ==
    config # None /\ config.endpoint # None => BedrockAllows(config.endpoint, region)

Enterprise(config) == config # None /\ config.enterprise

ValidConfiguration(type, u, creds, config) ==
    /\ type \in {"AZURE_OPENAI", "OPENAI_COMPATIBLE"} => u # None
    /\ ValidBaseUrl(type, u, creds.region)
    /\ CASE type = "OLLAMA" -> TRUE
         [] type = "AWS_BEDROCK" ->
              creds.aws /\ creds.region # None /\ ValidEndpoint(config, creds.region)
         [] type = "GOOGLE_GEMINI" ->
              IF Enterprise(config) THEN ~creds.key /\ creds.project ELSE creds.key /\ ~creds.project
         [] OTHER -> creds.key

ValidPublicConfig(config) == config # None => config.proper

-----------------------------------------------------------------------------
(* The forms.                                                              *)

Create(i) ==
    /\ conn[i] = Absent
    /\ \E type \in Types, u \in Urls \cup {None}, creds \in Credentials, config \in Configs \cup {None} :
         /\ ValidConfiguration(type, u, creds, config) /\ ValidPublicConfig(config)
         /\ conn' = [conn EXCEPT ![i] = [type |-> type, url |-> u, creds |-> creds, config |-> config,
                                         enabled |-> TRUE, error |-> FALSE]]
    /\ UNCHANGED <<versions, req>>

Or(given, current) == IF given = None THEN current ELSE given

\* Switching on and off is an update of its own.
UpdateRead(c) ==
    /\ req[c] = Idle
    /\ \E i \in Ids, u \in Urls \cup {None}, creds \in Credentials \cup {None},
          config \in Configs \cup {None}, on \in BOOLEAN :
         /\ Exists(i)
         /\ on = conn[i].enabled \/ (u = None /\ creds = None /\ config = None)
         /\ u # None \/ creds # None \/ config # None =>
              ValidConfiguration(conn[i].type, Or(u, conn[i].url), Or(creds, conn[i].creds),
                                 Or(config, conn[i].config))
         /\ ValidPublicConfig(config)
         /\ Continue(c, Request("update", i, [Absent EXCEPT !.url = u, !.creds = creds,
                                              !.config = config, !.enabled = on], None))
    /\ UNCHANGED <<conn, versions>>

\* The row may have been removed since: the update fails.
UpdateWrite(c) ==
    LET i == req[c].id  given == req[c].row
        new == [type |-> conn[i].type, url |-> Or(given.url, conn[i].url),
                creds |-> Or(given.creds, conn[i].creds), config |-> Or(given.config, conn[i].config),
                enabled |-> given.enabled, error |-> conn[i].error]
    IN  /\ req[c].at = "update"
        /\ conn' = IF Exists(i) THEN [conn EXCEPT ![i] = new] ELSE conn
        /\ Continue(c, Idle)
        /\ UNCHANGED versions

CountVersions(c, i) ==
    /\ req[c] = Idle /\ Exists(i) /\ i \notin versions
    /\ Continue(c, Request("remove", i, Absent, None))
    /\ UNCHANGED <<conn, versions>>

\* Mutant of Delete: what refers to the connection goes with it, or is left behind.
DeleteCascading(c) ==
    /\ req[c].at = "remove"
    /\ conn' = [conn EXCEPT ![req[c].id] = Removed]
    /\ Continue(c, Idle)
    /\ UNCHANGED versions

\* A version may refer to the connection by now: its foreign key makes the deletion fail.
Delete(c) ==
    /\ req[c].at = "remove"
    /\ conn' = [conn EXCEPT ![req[c].id] = IF req[c].id \notin versions THEN Removed ELSE @]
    /\ Continue(c, Idle)
    /\ UNCHANGED versions

-----------------------------------------------------------------------------
(* The runtime configuration, and the client an adapter makes of it.       *)

\* Mutant of Usable: what has been stored has been validated.
UsableAsStored(row) == TRUE

\* runtime() looks at the addresses again, but not at the rest.
Usable(row) ==
    /\ ValidBaseUrl(row.type, row.url, row.creds.region)
    /\ row.type = "AWS_BEDROCK" => ValidEndpoint(row.config, row.creds.region)

Call(c, i, at) ==
    /\ req[c] = Idle /\ Exists(i) /\ Usable(conn[i])
    /\ Continue(c, Request(at, i, conn[i], None))
    /\ UNCHANGED <<conn, versions>>

Validate(c, i) == Call(c, i, "validate")
Models(c, i) == Call(c, i, "models")
\* For a run, or the first version of an agent.
RuntimeForWorkspace(c, i) == conn[i].enabled /\ Call(c, i, "run")

AnthropicKey(row) == row.creds.key
AnthropicClient(row) == AnthropicKey(row) /\ (row.url # None => row.url.plain)
\* Mutant of GeminiCredential: any credential will do.
GeminiCredentialOrOther(row) == row.creds.project \/ row.creds.key
GeminiCredential(row) == IF Enterprise(row.config) THEN row.creds.project ELSE row.creds.key
ReadCredentials(row) == row.creds.aws /\ row.creds.region # None

\* The adapter of the type refuses what it cannot use.
Accepts(row) ==
    CASE row.type = "ANTHROPIC"     -> AnthropicClient(row)
      [] row.type = "GOOGLE_GEMINI" -> GeminiCredential(row)
      [] row.type = "AWS_BEDROCK"   -> ReadCredentials(row)
      [] OTHER                      -> TRUE

\* None stands for the vendor's own address.
CompatibleUrl(row) == row.url
GeminiUrl(row) == row.url
BedrockEndpoint(row) ==
    IF row.url # None THEN row.url ELSE IF row.config # None THEN row.config.endpoint ELSE None

Destination(row) ==
    CASE row.type = "GOOGLE_GEMINI" -> GeminiUrl(row)
      [] row.type = "AWS_BEDROCK"   -> BedrockEndpoint(row)
      [] OTHER                      -> CompatibleUrl(row)

\* Azure lists the models it was configured with: no call is made.
AzureModels(c) == req[c].row.type = "AZURE_OPENAI" /\ req[c].at \in {"validate", "models"}

\* The request is on its way.
Dispatch(c) ==
    /\ req[c].at \in {"validate", "models", "run"}
    /\ ~AzureModels(c) /\ Accepts(req[c].row)
    /\ Continue(c, [req[c] EXCEPT !.at = "sent", !.to = req[c].at])
    /\ UNCHANGED <<conn, versions>>

\* A host may resolve to a private network, or not at all; Ollama's is not asked about.
Unreachable(row) == row.type # "OLLAMA"

\* The end of a call, made or refused: validate() notes on the row how it went.
Report(c) ==
    /\ \E ok \in BOOLEAN :
         /\ \/ req[c].at = "sent"
            \/ req[c].at \in {"validate", "models"} /\ AzureModels(c) /\ ok
            \/ req[c].at \in {"validate", "models"} /\ ~AzureModels(c) /\ ~ok
               /\ (Accepts(req[c].row) => Unreachable(req[c].row))
            \/ req[c].at = "run" /\ ~ok
         /\ conn' = IF "validate" \in {req[c].at, req[c].to} /\ Exists(req[c].id)
                    THEN [conn EXCEPT ![req[c].id].error = ~ok] ELSE conn
    /\ Continue(c, Idle)
    /\ UNCHANGED versions

\* An agent version is created after runtimeForWorkspace has found its connection.
CreateVersion(c) ==
    /\ req[c].at = "run" /\ Exists(req[c].id)
    /\ versions' = versions \cup {req[c].id}
    /\ Continue(c, Idle)
    /\ UNCHANGED conn

-----------------------------------------------------------------------------

ConnectionsNext ==
    \/ \E i \in Ids : Create(i)
    \/ \E c \in Requests :
         \/ UpdateRead(c) \/ UpdateWrite(c) \/ Delete(c)
         \/ Dispatch(c) \/ Report(c) \/ CreateVersion(c)
    \/ \E c \in Requests, i \in Ids :
         CountVersions(c, i) \/ Validate(c, i) \/ Models(c, i) \/ RuntimeForWorkspace(c, i)

ConnectionsSpec == ConnectionsInit /\ [][ConnectionsNext]_connectionsVars

-----------------------------------------------------------------------------
(* Properties.                                                             *)

Rows == [type : Types \cup {None}, url : Urls \cup {None}, creds : Credentials \cup {None},
         config : Configs \cup {None}, enabled : BOOLEAN, error : BOOLEAN]

ConnectionsTypeOK ==
    /\ conn \in [Ids -> Rows]
    /\ versions \subseteq Ids
    /\ req \in [Requests -> [at : {"idle", "update", "remove", "validate", "models", "run", "sent"},
                             id : Ids \cup {None}, row : Rows,
                             to : {"validate", "models", "run", None}]]

KeyTypes == {"OPENAI", "AZURE_OPENAI", "OPENAI_COMPATIBLE", "ANTHROPIC"}

\* What the next use of a row relies on without looking: a key where the adapter takes it as it is.
HasKey(row) == row.type \in KeyTypes => row.creds # None /\ row.creds.key

\* An update that is under way brings no less than the connection has.
UpdateSound(c) ==
    req[c].at = "update" =>
        /\ req[c].id \in Ids /\ conn[req[c].id] # Absent
        /\ LET i == req[c].id  given == req[c].row.creds
           IN  Exists(i) /\ conn[i].type \in KeyTypes /\ given # None => given.key

CallSound(c) ==
    req[c].at \in {"validate", "models", "run", "sent"} =>
        /\ req[c].id \in Ids
        /\ req[c].row.type \in Types /\ HasKey(req[c].row) /\ Usable(req[c].row)
        /\ req[c].at = "sent" => Accepts(req[c].row)

ConnectionsInv ==
    /\ \A i \in Ids : Exists(i) => conn[i].type \in Types /\ HasKey(conn[i])
    /\ \A c \in Requests : UpdateSound(c) /\ CallSound(c)

Sent == {c \in Requests : req[c].at = "sent"}

\* The address a row leads to, None for the vendor's own, is one its type may go to.
MayGo(row, to) ==
    /\ to # None => to.plain
    /\ CASE row.type = "OLLAMA" -> to \in AllowedUrls
         [] row.type = "GOOGLE_GEMINI" -> to # None => to.https /\ to.host \in Google \ Private
         [] row.type = "AWS_BEDROCK" -> to # None =>
              to.https /\ (to \in AllowedUrls \/ to.host \in Bedrock[row.creds.region])
         [] OTHER -> to # None => to.https /\ ~IsPrivate(to)

\* However updates of addresses, credentials and configuration interleave, a call
\* goes where its type may go, for the region of the credentials it carries.
GoesWhereItMay == \A c \in Sent : MayGo(req[c].row, Destination(req[c].row))

\* A call carries what its mode needs, also where two updates have made a
\* configuration of halves that were valid with something else.
CarriesItsCredential ==
    \A c \in Sent :
        LET row == req[c].row
        IN  CASE row.type = "GOOGLE_GEMINI" ->
                   IF Enterprise(row.config) THEN row.creds.project ELSE row.creds.key
              [] row.type = "AWS_BEDROCK" -> row.creds.aws /\ row.creds.region # None
              [] row.type = "OLLAMA" -> TRUE
              [] OTHER -> row.creds.key

\* A connection that an agent version refers to is there, whichever of a removal
\* and a new version comes first.
ReferredStays == \A i \in versions : Exists(i)

=============================================================================
