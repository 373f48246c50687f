SPECIFICATION ConnectionsSpec
CONSTANTS
    c1 = c1
    c2 = c2
    i1 = i1
    Ids = {i1}
    Requests = {c1, c2}
    Types = {"OLLAMA", "GOOGLE_GEMINI", "AWS_BEDROCK", "AZURE_OPENAI"}
    Urls <- MCUrls
    Private = {"private"}
    Google = {"google"}
    Bedrock <- MCBedrock
    AllowedUrls <- MCAllowedUrls
    Credentials <- MCCredentials
    Configs <- MCConfigs
    None = None
SYMMETRY Symmetry
INVARIANTS
    ConnectionsTypeOK
    ConnectionsInv
CHECK_DEADLOCK FALSE
