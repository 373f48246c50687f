------------------------------ MODULE Members ------------------------------
(***************************************************************************)
(* Members, roles and invitations of one organization                      *)
(* (members.service.ts).  updateMember and removeMember are SERIALIZABLE   *)
(* transactions: they decide on what they have read, and fail when they    *)
(* commit if the row they write has changed since, or if another such      *)
(* transaction that also counted the Owners has committed.  Everything     *)
(* else runs at READ COMMITTED, statement by statement.                    *)
(***************************************************************************)
EXTENDS FiniteSets

CONSTANTS Users,         \* people, and their e-mail addresses
          Requests,      \* requests in progress at once
          Invitations,
          Permissions,
          BuiltIn,       \* the permissions of each built-in role
          Custom,        \* roles that Owners may create
          Grants,        \* the sets of permissions that Owners give to custom roles
          Start,         \* the role of each user at first, or None
          StartAccounts, \* who has an account at first
          StartPerms,    \* the permissions of each role at first
          None

Roles == Custom \cup DOMAIN BuiltIn

ASSUME MemberConstants ==
    /\ "manage" \in Permissions   \* member:manage
    /\ "OWNER" \in DOMAIN BuiltIn /\ BuiltIn["OWNER"] = Permissions
    /\ \A r \in DOMAIN BuiltIn : BuiltIn[r] \subseteq Permissions
    /\ Custom \cap DOMAIN BuiltIn = {}
    /\ None \notin Custom \cup DOMAIN BuiltIn \cup Users \cup Invitations
    /\ Start \in [Users -> Roles \cup {None}] /\ \E u \in Users : Start[u] = "OWNER"
    /\ Grants \subseteq SUBSET Permissions
    /\ StartAccounts \subseteq Users /\ \A u \in Users : Start[u] # None => u \in StartAccounts
    /\ StartPerms \in [Roles -> SUBSET Permissions]
    /\ \A r \in DOMAIN BuiltIn : StartPerms[r] = BuiltIn[r]

VARIABLES
    accounts,    \* User: addresses that have an account
    member,      \* OrganizationMembership: the role of each user, or None
    roles,       \* Role: the roles that exist
    perms,       \* RolePermission
    inv,         \* Invitation
    late,        \* invitations past expiresAt
    req,         \* the requests
    \* not in the code
    resigned     \* has an Owner taken another role by accepting an invitation?

vars == <<accounts, member, roles, perms, inv, late, req, resigned>>

Unused == [status |-> "none", email |-> None, role |-> None, cap |-> {}]
\* as, can: role and permissions of the actor as TenantGuard found them.
\* counted, clash: has the open transaction counted the Owners, and must it fail?
Request(there, role, permissions) ==
    [pc |-> there, as |-> role, can |-> permissions, who |-> None, role |-> None, inv |-> None,
     counted |-> FALSE, clash |-> FALSE]
Idle == Request("idle", None, {})

\* The organization as Owners have set it up; others may have accounts, too.
Init ==
    /\ member = Start /\ perms = StartPerms
    /\ roles = DOMAIN BuiltIn \cup {r \in Custom : \E u \in Users : Start[u] = r}
    /\ accounts = StartAccounts
    /\ inv = [i \in Invitations |-> Unused] /\ late = {}
    /\ req = [c \in Requests |-> Idle]
    /\ resigned = FALSE

At(c, here) == req[c].pc = here
Continue(c, q) == req' = [req EXCEPT ![c] = q]
Goto(c, there) == Continue(c, [req[c] EXCEPT !.pc = there])
Answered(c) == Continue(c, Idle)
\* The request goes on to there with what it has found.
Proceed(c, there, u, r, i, b) ==
    Continue(c, [pc |-> there, as |-> req[c].as, can |-> req[c].can, who |-> u, role |-> r,
                 inv |-> i, counted |-> b, clash |-> FALSE])
\* With the request answered, the open transactions that wrote or counted over these users
\* must fail.
AnsweredWith(c, us, counting) ==
    req' = [d \in Requests |->
        IF d = c THEN Idle
        ELSE IF At(d, "write") /\ (req[d].who \in us \/ (counting /\ req[d].counted))
             THEN [req[d] EXCEPT !.clash = TRUE]
             ELSE req[d]]

-----------------------------------------------------------------------------
(* Guards.                                                                 *)

Operations == {"member", "createRole", "updateRole", "removeRole", "invite", "revoke"}

\* TenantGuard reads the role of the actor once, PermissionsGuard asks for member:manage.
Enter(c) ==
    /\ At(c, "idle")
    /\ \E u \in Users, op \in Operations :
         /\ member[u] # None /\ "manage" \in perms[member[u]]
         /\ Continue(c, Request(op, member[u], perms[member[u]]))
    /\ UNCHANGED <<accounts, member, roles, perms, inv, late, resigned>>

Owner(c) == req[c].as = "OWNER"
Subset(c, r) == Owner(c) \/ perms[r] \subseteq req[c].can
Manageable(c, r) == (r = "OWNER" => Owner(c)) /\ Subset(c, r)

\* Mutant of Assignable: a custom role with the permissions of today may be delegated.
AssignableToday(c, r) == Owner(c) \/ (r # "OWNER" /\ Subset(c, r))

Assignable(c, r) == Owner(c) \/ (r # "OWNER" /\ r \notin Custom /\ Subset(c, r))

-----------------------------------------------------------------------------
(* Members.  Removal is the change to None.                                *)

OtherOwner(u) == \E v \in Users \ {u} : member[v] = "OWNER"

Demotes(u, r) == member[u] = "OWNER" /\ r # "OWNER"

MemberRead(c) ==
    /\ At(c, "member")
    /\ \/ \E u \in Users, r \in roles \cup {None} :
            /\ member[u] # None /\ Manageable(c, member[u])
            /\ r # None => Assignable(c, r)
            /\ Demotes(u, r) => OtherOwner(u)
            /\ Proceed(c, "write", u, r, None, Demotes(u, r))
       \/ Answered(c)   \* refused
    /\ UNCHANGED <<accounts, member, roles, perms, inv, late, resigned>>

\* Mutants of MemberWrite: the transaction is not SERIALIZABLE; or it only
\* notices that its own row has changed.
MemberWriteAnyway(c) ==
    /\ At(c, "write")
    /\ member' = [member EXCEPT ![req[c].who] = req[c].role]
    /\ AnsweredWith(c, {req[c].who}, req[c].counted)
    /\ UNCHANGED <<accounts, roles, perms, inv, late, resigned>>

MemberWriteUncounted(c) ==
    /\ At(c, "write")
    /\ \/ /\ ~req[c].clash /\ req[c].role \in roles \cup {None}
          /\ member' = [member EXCEPT ![req[c].who] = req[c].role]
          /\ AnsweredWith(c, {req[c].who}, FALSE)
       \/ Answered(c) /\ UNCHANGED member
    /\ UNCHANGED <<accounts, roles, perms, inv, late, resigned>>

\* A transaction may also fail for no reason of the model's.
MemberWrite(c) ==
    /\ At(c, "write")
    /\ \/ /\ ~req[c].clash /\ req[c].role \in roles \cup {None}
          /\ member' = [member EXCEPT ![req[c].who] = req[c].role]
          /\ AnsweredWith(c, {req[c].who}, req[c].counted)
       \/ Answered(c) /\ UNCHANGED member
    /\ UNCHANGED <<accounts, roles, perms, inv, late, resigned>>

-----------------------------------------------------------------------------
(* Roles.                                                                  *)

CreateRole(c) ==
    /\ At(c, "createRole") /\ Answered(c)
    /\ \/ /\ Owner(c)
          /\ \E r \in Custom \ roles, ps \in Grants :
               roles' = roles \cup {r} /\ perms' = [perms EXCEPT ![r] = ps]
       \/ UNCHANGED <<roles, perms>>
    /\ UNCHANGED <<accounts, member, inv, late, resigned>>

UpdateRole(c) ==
    /\ At(c, "updateRole") /\ Answered(c)
    /\ \/ /\ Owner(c)
          /\ \E r \in Custom \cap roles, ps \in Grants :
               perms' = [perms EXCEPT ![r] = ps]
       \/ UNCHANGED perms
    /\ UNCHANGED <<accounts, member, roles, inv, late, resigned>>

\* The members are counted first, ...
RemoveRole(c) ==
    /\ At(c, "removeRole")
    /\ \/ /\ Owner(c)
          /\ \E r \in Custom \cap roles :
               /\ \A u \in Users : member[u] # r
               /\ Proceed(c, "dropRole", None, r, None, FALSE)
       \/ Answered(c)
    /\ UNCHANGED <<accounts, member, roles, perms, inv, late, resigned>>

Referenced(r) ==
    (\E u \in Users : member[u] = r) \/ (\E i \in Invitations : inv[i].role = r)

\* ... and the foreign keys of members and invitations refuse what has changed since.
DropRole(c) ==
    /\ At(c, "dropRole") /\ Answered(c)
    /\ IF Referenced(req[c].role) THEN UNCHANGED <<roles, perms>>
       ELSE roles' = roles \ {req[c].role} /\ perms' = [perms EXCEPT ![req[c].role] = {}]
    /\ UNCHANGED <<accounts, member, inv, late, resigned>>

-----------------------------------------------------------------------------
(* Invitations.                                                            *)

Invite(c) ==
    /\ At(c, "invite")
    /\ \/ \E u \in Users, r \in roles :
            /\ Assignable(c, r)
            /\ Proceed(c, "lookUp", u, r, None, FALSE)
       \/ Answered(c)
    /\ UNCHANGED <<accounts, member, roles, perms, inv, late, resigned>>

LookUpMember(c) ==
    /\ At(c, "lookUp")
    /\ IF member[req[c].who] # None THEN Answered(c) ELSE Goto(c, "supersede")
    /\ UNCHANGED <<accounts, member, roles, perms, inv, late, resigned>>

\* Every PENDING invitation in is becomes s.
Settle(is, s) ==
    inv' = [i \in Invitations |-> IF i \in is /\ inv[i].status = "PENDING"
                                  THEN [inv[i] EXCEPT !.status = s] ELSE inv[i]]

Supersede(c) ==
    /\ At(c, "supersede") /\ Goto(c, "send")
    /\ Settle({i \in Invitations : inv[i].email = req[c].who}, "REVOKED")
    /\ UNCHANGED <<accounts, member, roles, perms, late, resigned>>

Send(c) ==
    /\ At(c, "send") /\ Answered(c)
    /\ \/ /\ req[c].role \in roles
          /\ \E i \in Invitations :
               /\ inv[i].status = "none"
               /\ inv' = [inv EXCEPT ![i] = [status |-> "PENDING", email |-> req[c].who,
                             role |-> req[c].role,
                             cap |-> IF Owner(c) THEN Permissions ELSE req[c].can]]
       \/ UNCHANGED inv
    /\ UNCHANGED <<accounts, member, roles, perms, late, resigned>>

Revoke(c) ==
    /\ At(c, "revoke")
    /\ \/ \E i \in Invitations :
            /\ inv[i].status = "PENDING" /\ Assignable(c, inv[i].role)
            /\ Proceed(c, "withdraw", None, None, i, FALSE)
       \/ Answered(c)
    /\ UNCHANGED <<accounts, member, roles, perms, inv, late, resigned>>

Withdraw(c) ==
    /\ At(c, "withdraw") /\ Answered(c) /\ Settle({req[c].inv}, "REVOKED")
    /\ UNCHANGED <<accounts, member, roles, perms, late, resigned>>

\* validInvitation: who holds the token registers, or signs in and accepts.
Present(c) ==
    /\ At(c, "idle")
    /\ \E i \in Invitations :
         /\ inv[i].status = "PENDING"
         /\ IF i \in late THEN Settle({i}, "EXPIRED") /\ UNCHANGED req
            ELSE /\ Proceed(c, IF inv[i].email \in accounts THEN "accept" ELSE "register",
                         None, None, i, FALSE)
                 /\ UNCHANGED inv
    /\ UNCHANGED <<accounts, member, roles, perms, late, resigned>>

\* Mutant of Claimable: the invitation was valid when it was presented.
StillThere(i) == inv[i].status # "none"

Claimable(i) == inv[i].status = "PENDING" /\ i \notin late

\* claimInvitation and the new user and member commit together; the address is unique.
Register(c) ==
    /\ At(c, "register")
    /\ LET i == req[c].inv IN
       \/ /\ Claimable(i) /\ inv[i].email \notin accounts
          /\ inv' = [inv EXCEPT ![i].status = "ACCEPTED"]
          /\ accounts' = accounts \cup {inv[i].email}
          /\ member' = [member EXCEPT ![inv[i].email] = inv[i].role]
          /\ AnsweredWith(c, {inv[i].email}, FALSE)
       \/ Answered(c) /\ UNCHANGED <<accounts, member, inv>>
    /\ UNCHANGED <<roles, perms, late, resigned>>

\* claimInvitation and the upsert of the member commit together.
Accept(c) ==
    /\ At(c, "accept")
    /\ LET i == req[c].inv IN
       \/ /\ Claimable(i)
          /\ inv' = [inv EXCEPT ![i].status = "ACCEPTED"]
          /\ member' = [member EXCEPT ![inv[i].email] = inv[i].role]
          /\ resigned' = (resigned \/ (member[inv[i].email] = "OWNER" /\ inv[i].role # "OWNER"))
          /\ AnsweredWith(c, {inv[i].email}, FALSE)
       \/ Answered(c) /\ UNCHANGED <<member, inv, resigned>>
    /\ UNCHANGED <<accounts, roles, perms, late>>

\* The list of invitations is read.
ExpireInvitations ==
    /\ Settle(late, "EXPIRED")
    /\ UNCHANGED <<accounts, member, roles, perms, late, req, resigned>>

Age(i) ==
    /\ inv[i].status = "PENDING" /\ late' = late \cup {i}
    /\ UNCHANGED <<accounts, member, roles, perms, inv, req, resigned>>

Next ==
    \/ \E c \in Requests :
          \/ Enter(c) \/ MemberRead(c) \/ MemberWrite(c)
          \/ CreateRole(c) \/ UpdateRole(c) \/ RemoveRole(c) \/ DropRole(c)
          \/ Invite(c) \/ LookUpMember(c) \/ Supersede(c) \/ Send(c)
          \/ Revoke(c) \/ Withdraw(c) \/ Present(c) \/ Register(c) \/ Accept(c)
    \/ ExpireInvitations
    \/ \E i \in Invitations : Age(i)

Spec == Init /\ [][Next]_vars

-----------------------------------------------------------------------------
(* Properties.                                                             *)

RequestPc == Operations \cup {"idle", "write", "dropRole", "lookUp", "supersede", "send", "withdraw",
                              "accept", "register"}

InvitationType ==
    [status : {"none", "PENDING", "ACCEPTED", "REVOKED", "EXPIRED"},
     email : Users \cup {None}, role : Roles \cup {None}, cap : SUBSET Permissions]

RequestType ==
    [pc : RequestPc, as : Roles \cup {None}, can : SUBSET Permissions, who : Users \cup {None},
     role : Roles \cup {None}, inv : Invitations \cup {None}, counted : BOOLEAN,
     clash : BOOLEAN]

TypeOK ==
    /\ accounts \subseteq Users
    /\ member \in [Users -> Roles \cup {None}]
    /\ roles \subseteq Roles /\ perms \in [Roles -> SUBSET Permissions]
    /\ inv \in [Invitations -> InvitationType] /\ late \subseteq Invitations
    /\ req \in [Requests -> RequestType]
    /\ resigned \in BOOLEAN

\* However Owners demote and remove each other and themselves, one remains, unless an Owner
\* has given the role up by accepting an invitation.
OwnerRemains == resigned \/ \E u \in Users : member[u] = "OWNER"

\* Nobody becomes a member but by an invitation to their address that is PENDING, has not
\* expired, and is used up by it.
JoinByInvitation ==
    [][\A u \in Users : member[u] = None /\ member'[u] # None =>
         \E i \in Invitations \ late :
            /\ inv[i].status = "PENDING" /\ inv'[i].status = "ACCEPTED"
            /\ inv[i].email = u /\ inv[i].role = member'[u]]_vars

\* An invitation that was used, revoked or expired stays so, and a used one was still valid.
InvitationsSettle ==
    [][\A i \in Invitations :
         /\ inv[i].status \in {"ACCEPTED", "REVOKED", "EXPIRED"} => inv'[i] = inv[i]
         /\ inv[i].status # "ACCEPTED" /\ inv'[i].status = "ACCEPTED" => i \notin late]_vars

\* Nobody but an Owner, or the one who accepts an invitation, takes the role of an Owner away,
\* also if the target became an Owner after it was read.
OwnersByOwners ==
    [][\A u \in Users : member[u] = "OWNER" /\ member'[u] # "OWNER" =>
         \/ \E c \in Requests : At(c, "write") /\ req[c].who = u /\ Owner(c)
         \/ \E i \in Invitations : inv[i].email = u /\ inv'[i].status # inv[i].status]_vars

\* Whatever Owners make of the roles later, an invitation never gives more than its sender
\* had when it was sent.
InvitesWithinPower ==
    \A i \in Invitations : inv[i].status = "PENDING" => perms[inv[i].role] \subseteq inv[i].cap

\* No member and no invitation is left with a role that is gone.
RolesInUseStay ==
    /\ \A u \in Users : member[u] # None => member[u] \in roles
    /\ \A i \in Invitations : inv[i].status # "none" => inv[i].role \in roles

\* The service says that an organization retains at least one Owner.
AlwaysAnOwner == \E u \in Users : member[u] = "OWNER"
=============================================================================
