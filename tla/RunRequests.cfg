SPECIFICATION RequestsSpec
CONSTANTS
    u1 = u1
    u2 = u2
    o1 = o1
    o2 = o2
    w1 = w1
    w2 = w2
    a1 = a1
    a2 = a2
    k1 = k1
    r1 = r1
    r2 = r2
    Users = {u1, u2}
    Orgs = {o1, o2}
    Workspaces = {w1, w2}
    Agents = {a1, a2}
    Keys = {k1}
    Reqs = {r1, r2}
    OrgOf <- OrgOfWorkspace
    Place <- PlaceOf
    Asks <- AsksMade
    Role0 <- RolesAtFirst
    Agent0 <- AgentsAtFirst
    MaxChanges = 2
    None = None
SYMMETRY Symmetry
INVARIANTS
    WithinKey
    ConversationKept
    RightsWereHeld
    NoLeaseLost
CHECK_DEADLOCK FALSE
