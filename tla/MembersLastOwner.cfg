SPECIFICATION Spec
CONSTANTS
    u1 = u1
    u2 = u2
    u3 = u3
    c1 = c1
    c2 = c2
    i1 = i1
    i2 = i2
    Users = {u1, u3}
    Requests = {c1, c2}
    Invitations = {i1, i2}
    Permissions <- MCPermissions
    BuiltIn <- MCBuiltIn
    Custom <- MCCustom
    Grants <- MCGrants
    Start <- MCStart
    StartAccounts <- MCStartAccounts
    StartPerms <- MCStartPerms
    None = None
SYMMETRY Symmetry
INVARIANTS
    AlwaysAnOwner
