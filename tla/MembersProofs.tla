--------------------------- MODULE MembersProofs ---------------------------
(***************************************************************************)
(* Proofs about Members, for any users, roles, permissions and numbers of  *)
(* requests and invitations.                                               *)
(***************************************************************************)
EXTENDS Members, TLAPS

-----------------------------------------------------------------------------
(* The inductive invariant.                                                *)

\* What a request carries from one statement to the next is there.
Carried ==
    \A c \in Requests :
      /\ req[c].pc \in {"write", "lookUp", "supersede", "send"} => req[c].who \in Users
      /\ req[c].pc \in {"lookUp", "supersede", "send"} => req[c].role \in Roles
      /\ req[c].pc = "dropRole" => req[c].role \in Custom
      /\ req[c].pc \in {"withdraw", "accept", "register"} =>
            req[c].inv \in Invitations /\ inv[req[c].inv].status # "none"
      /\ req[c].pc = "accept" => inv[req[c].inv].email \in accounts

\* An invitation that was sent has an address and a role.
Addressed ==
    \A i \in Invitations : inv[i].status # "none" => inv[i].email \in Users /\ inv[i].role \in Roles

\* Built-in roles do not change.
BuiltInStays == \A r \in DOMAIN BuiltIn : r \in roles /\ perms[r] = BuiltIn[r]

\* Members have accounts, so nobody who registers is one.
MembersHaveAccounts == \A u \in Users : member[u] # None => u \in accounts

\* An open transaction that is not going to fail decided on the row as it is, and if it
\* takes the role of an Owner away there is another one.
Fresh ==
    \A c \in Requests : At(c, "write") /\ ~req[c].clash =>
      LET u == req[c].who IN
      /\ member[u] # None
      /\ member[u] = "OWNER" => Owner(c)
      /\ req[c].counted = Demotes(u, req[c].role)
      /\ req[c].counted => resigned \/ OtherOwner(u)

\* Only Owners give custom roles away.
SendersPower ==
    /\ \A c \in Requests : req[c].pc \in {"lookUp", "supersede", "send"} =>
          Owner(c) \/ (req[c].role \notin Custom /\ perms[req[c].role] \subseteq req[c].can)
    /\ \A i \in Invitations : inv[i].status = "PENDING" =>
          IF inv[i].role \in Custom THEN inv[i].cap = Permissions
          ELSE perms[inv[i].role] \subseteq inv[i].cap

\* Request d goes on as it is, but its transaction may have to fail.
Kept(d) ==
    /\ req'[d].pc = req[d].pc /\ req'[d].as = req[d].as /\ req'[d].can = req[d].can
    /\ req'[d].who = req[d].who /\ req'[d].role = req[d].role /\ req'[d].inv = req[d].inv
    /\ req'[d].counted = req[d].counted

Fails(d, us, counting) ==
    req'[d].clash = (req[d].clash \/ (At(d, "write") /\ (req[d].who \in us \/ (counting /\ req[d].counted))))

\* What Register and Accept have in common.
Claims(c) ==
    LET i == req[c].inv IN
    /\ Claimable(i) /\ AnsweredWith(c, {inv[i].email}, FALSE)
    /\ inv' = [inv EXCEPT ![i].status = "ACCEPTED"]
    /\ member' = [member EXCEPT ![inv[i].email] = inv[i].role]

\* Request c has used invitation i, for user u and role o.
Claimed(c, i, u, o) ==
    /\ i \in Invitations \ late /\ inv[i].status = "PENDING" /\ inv'[i].status = "ACCEPTED"
    /\ inv[i].email = u /\ inv[i].role = o /\ u \in Users /\ o \in Roles
    /\ \A j \in Invitations :
         /\ inv'[j].email = inv[j].email /\ inv'[j].role = inv[j].role
         /\ inv'[j].cap = inv[j].cap /\ (j # i => inv'[j].status = inv[j].status)
    /\ \A v \in Users : member'[v] = IF v = u THEN o ELSE member[v]
    /\ req'[c].pc = "idle" /\ \A d \in Requests \ {c} : Kept(d) /\ Fails(d, {u}, FALSE)

\* The names and values used below differ.
LEMMA Names == None \notin Roles /\ "OWNER" \in Roles /\ "OWNER" \notin Custom
BY MemberConstants DEF Roles

\* A request that goes on, or is answered, has the type of a request.
LEMMA ContinueType ==
    ASSUME req \in [Requests -> RequestType], NEW c \in Requests, NEW q \in RequestType,
           Continue(c, q)
    PROVE  req' \in [Requests -> RequestType]
BY DEF Continue

LEMMA AnsweredType ==
    ASSUME req \in [Requests -> RequestType], NEW c \in Requests, Answered(c)
    PROVE  req' \in [Requests -> RequestType]
<1>1. Idle \in RequestType
    BY DEF Idle, Request, RequestType, RequestPc
<1> QED BY <1>1, ContinueType DEF Answered

LEMMA ProceedType ==
    ASSUME req \in [Requests -> RequestType], NEW c \in Requests, NEW there \in RequestPc,
           NEW u \in Users \cup {None}, NEW r \in Roles \cup {None},
           NEW i \in Invitations \cup {None}, NEW b \in BOOLEAN,
           Proceed(c, there, u, r, i, b)
    PROVE  req' \in [Requests -> RequestType]
<1> DEFINE q == [pc |-> there, as |-> req[c].as, can |-> req[c].can, who |-> u, role |-> r,
                 inv |-> i, counted |-> b, clash |-> FALSE]
<1>1. q \in RequestType
    BY DEF RequestType
<1>2. Continue(c, q)
    BY DEF Proceed
<1> HIDE DEF q
<1> QED BY <1>1, <1>2, ContinueType

LEMMA GotoType ==
    ASSUME req \in [Requests -> RequestType], NEW c \in Requests, NEW there \in RequestPc,
           Goto(c, there)
    PROVE  req' \in [Requests -> RequestType]
<1>1. [req[c] EXCEPT !.pc = there] \in RequestType
    BY DEF RequestType
<1> QED BY <1>1, ContinueType DEF Goto

LEMMA AnsweredWithType ==
    ASSUME req \in [Requests -> RequestType], NEW c \in Requests, NEW us, NEW counting,
           AnsweredWith(c, us, counting)
    PROVE  req' \in [Requests -> RequestType]
<1>1. Idle \in RequestType
    BY DEF Idle, Request, RequestType, RequestPc
<1>2. \A d \in Requests : [req[d] EXCEPT !.clash = TRUE] \in RequestType
    BY DEF RequestType
<1>3. \A d \in Requests : req'[d] \in {Idle, req[d], [req[d] EXCEPT !.clash = TRUE]}
    BY DEF AnsweredWith
<1>4. req' = [d \in Requests |-> req'[d]]
    BY DEF AnsweredWith
<1> QED BY <1>1, <1>2, <1>3, <1>4

\* Invitations that are settled keep their type.
LEMMA SettleType ==
    ASSUME inv \in [Invitations -> InvitationType], NEW is,
           NEW s \in {"ACCEPTED", "REVOKED", "EXPIRED"}, Settle(is, s)
    PROVE  inv' \in [Invitations -> InvitationType]
<1>1. \A i \in Invitations : [inv[i] EXCEPT !.status = s] \in InvitationType
    BY DEF InvitationType
<1>2. \A i \in Invitations : inv'[i] \in {inv[i], [inv[i] EXCEPT !.status = s]}
    BY DEF Settle
<1>3. inv' = [i \in Invitations |-> inv'[i]]
    BY DEF Settle
<1> QED BY <1>1, <1>2, <1>3

\* What the other requests keep, and what becomes of the one that is answered.
LEMMA ContinueFacts ==
    ASSUME TypeOK, NEW c \in Requests, NEW q, Continue(c, q)
    PROVE  req'[c] = q /\ \A d \in Requests \ {c} : req'[d] = req[d]
BY DEF Continue, TypeOK

LEMMA GotoFacts ==
    ASSUME TypeOK, NEW c \in Requests, NEW there, Goto(c, there)
    PROVE  /\ req'[c].pc = there /\ req'[c].as = req[c].as /\ req'[c].can = req[c].can
           /\ req'[c].who = req[c].who /\ req'[c].role = req[c].role
           /\ \A d \in Requests \ {c} : req'[d] = req[d]
<1>1. req'[c] = [req[c] EXCEPT !.pc = there] /\ \A d \in Requests \ {c} : req'[d] = req[d]
    BY ContinueFacts DEF Goto
<1> QED BY <1>1 DEF TypeOK, RequestType

LEMMA AnsweredFacts ==
    ASSUME TypeOK, NEW c \in Requests, Answered(c)
    PROVE  req'[c].pc = "idle" /\ \A d \in Requests \ {c} : req'[d] = req[d]
BY ContinueFacts DEF Answered, Idle, Request

LEMMA AnsweredWithFacts ==
    ASSUME TypeOK, NEW c \in Requests, NEW us, NEW counting, AnsweredWith(c, us, counting)
    PROVE  req'[c].pc = "idle" /\ \A d \in Requests \ {c} : Kept(d) /\ Fails(d, us, counting)
<1>1. req'[c].pc = "idle"
    BY DEF AnsweredWith, Idle, Request
<1>2. ASSUME NEW d \in Requests \ {c} PROVE Kept(d) /\ Fails(d, us, counting)
  <2>1. CASE At(d, "write") /\ (req[d].who \in us \/ (counting /\ req[d].counted))
    <3>1. req'[d] = [req[d] EXCEPT !.clash = TRUE]
        BY <2>1 DEF AnsweredWith
    <3>2. req[d] \in RequestType
        BY DEF TypeOK
    <3>3. Kept(d) /\ req'[d].clash = TRUE
        BY <3>1, <3>2 DEF Kept, RequestType
    <3> QED BY <2>1, <3>3, Zenon DEF Fails
  <2>2. CASE ~ (At(d, "write") /\ (req[d].who \in us \/ (counting /\ req[d].counted)))
    <3>1. req'[d] = req[d]
        BY <2>2 DEF AnsweredWith
    <3> QED BY <2>2, <3>1 DEF Kept, Fails, TypeOK, RequestType
  <2> QED BY <2>1, <2>2
<1> QED BY <1>1, <1>2

\* What becomes of the invitations.
LEMMA SettleFacts ==
    ASSUME TypeOK, NEW is, NEW s \in {"REVOKED", "EXPIRED"}, Settle(is, s)
    PROVE  \A i \in Invitations :
             /\ inv'[i].email = inv[i].email /\ inv'[i].role = inv[i].role /\ inv'[i].cap = inv[i].cap
             /\ inv'[i].status = IF i \in is /\ inv[i].status = "PENDING" THEN s ELSE inv[i].status
<1>1. \A i \in Invitations : inv[i] \in InvitationType
    BY DEF TypeOK
<1> QED BY <1>1 DEF Settle, InvitationType

LEMMA ClaimFacts ==
    ASSUME TypeOK, Carried, Addressed, NEW c \in Requests,
           At(c, "register") \/ At(c, "accept"), Claims(c)
    PROVE  Claimed(c, req[c].inv, inv[req[c].inv].email, inv[req[c].inv].role)
<1> DEFINE i == req[c].inv
           u == inv[i].email
<1>1. i \in Invitations \ late /\ inv[i].status = "PENDING"
    BY DEF Claims, Claimable, Carried, At
<1>2. u \in Users /\ inv[i].role \in Roles
    BY <1>1 DEF Addressed
<1>3. \A j \in Invitations :
        /\ inv'[j].email = inv[j].email /\ inv'[j].role = inv[j].role
        /\ inv'[j].cap = inv[j].cap /\ inv'[j].status = IF j = i THEN "ACCEPTED" ELSE inv[j].status
  <2>1. inv' = [inv EXCEPT ![i] = [inv[i] EXCEPT !.status = "ACCEPTED"]]
      BY DEF Claims
  <2>2. \A j \in Invitations : inv[j] \in InvitationType
      BY DEF TypeOK
  <2> HIDE DEF i
  <2> QED BY <1>1, <2>1, <2>2 DEF TypeOK, InvitationType
<1>4. \A v \in Users : member'[v] = IF v = u THEN inv[i].role ELSE member[v]
    BY <1>2 DEF Claims, TypeOK
<1>5. req'[c].pc = "idle" /\ \A d \in Requests \ {c} : Kept(d) /\ Fails(d, {u}, FALSE)
    BY AnsweredWithFacts DEF Claims
<1> QED BY <1>1, <1>2, <1>3, <1>4, <1>5 DEF Claimed

\* Either way of using an invitation changes nothing, or claims it.
LEMMA RegisterCases ==
    ASSUME NEW c \in Requests, Register(c)
    PROVE  /\ At(c, "register") /\ UNCHANGED <<roles, perms, late, resigned>>
           /\ \/ Answered(c) /\ UNCHANGED <<accounts, member, inv>>
              \/ /\ Claims(c) /\ inv[req[c].inv].email \notin accounts
                 /\ accounts' = accounts \cup {inv[req[c].inv].email}
BY DEF Register, Claims

LEMMA AcceptCases ==
    ASSUME NEW c \in Requests, Accept(c)
    PROVE  /\ At(c, "accept") /\ UNCHANGED <<accounts, roles, perms, late>>
           /\ \/ Answered(c) /\ UNCHANGED <<member, inv, resigned>>
              \/ /\ Claims(c)
                 /\ LET i == req[c].inv IN
                    resigned' = (resigned \/ (member[inv[i].email] = "OWNER" /\ inv[i].role # "OWNER"))
BY DEF Accept, Claims

\* Every step keeps the types.
LEMMA TypeStep ==
    TypeOK /\ Carried /\ Addressed
      /\ [Next]_vars => TypeOK'
<1> SUFFICES ASSUME TypeOK, Carried, Addressed, [Next]_vars
             PROVE  TypeOK'
    OBVIOUS
<1> USE MemberConstants, Names
<1>1. ASSUME NEW c \in Requests, Enter(c) PROVE TypeOK'
  <2>1. PICK u \in Users, op \in Operations :
           member[u] # None /\ Continue(c, Request(op, member[u], perms[member[u]]))
      BY <1>1 DEF Enter
  <2>2. Request(op, member[u], perms[member[u]]) \in RequestType
      BY <2>1 DEF Request, RequestType, RequestPc, TypeOK
  <2>3. req' \in [Requests -> RequestType]
      BY <2>1, <2>2, ContinueType DEF TypeOK
  <2> QED BY <1>1, <2>3 DEF Enter, TypeOK
<1>2. ASSUME NEW c \in Requests, MemberRead(c) PROVE TypeOK'
  <2>1. CASE Answered(c)
      BY <1>2, <2>1, AnsweredType DEF MemberRead, TypeOK
  <2>2. ASSUME NEW u \in Users, NEW r \in roles \cup {None}, Proceed(c, "write", u, r, None, Demotes(u, r))
        PROVE  TypeOK'
    <3>1. req' \in [Requests -> RequestType]
        BY <2>2, ProceedType, Zenon DEF TypeOK, RequestPc, Roles, Demotes
    <3> QED BY <1>2, <3>1 DEF MemberRead, TypeOK
  <2> QED BY <1>2, <2>1, <2>2, Zenon DEF MemberRead
<1>3. ASSUME NEW c \in Requests, MemberWrite(c) PROVE TypeOK'
  <2>1. req' \in [Requests -> RequestType]
      BY <1>3, AnsweredType, AnsweredWithType DEF MemberWrite, TypeOK
  <2>2. member' \in [Users -> Roles \cup {None}]
      BY <1>3 DEF MemberWrite, TypeOK
  <2> QED BY <1>3, <2>1, <2>2 DEF MemberWrite, TypeOK
<1>4. ASSUME NEW c \in Requests, CreateRole(c) PROVE TypeOK'
  <2>1. req' \in [Requests -> RequestType]
      BY <1>4, AnsweredType DEF CreateRole, TypeOK
  <2>2. roles' \subseteq Roles /\ perms' \in [Roles -> SUBSET Permissions]
      BY <1>4 DEF CreateRole, TypeOK, Roles
  <2> QED BY <1>4, <2>1, <2>2 DEF CreateRole, TypeOK
<1>5. ASSUME NEW c \in Requests, UpdateRole(c) PROVE TypeOK'
  <2>1. req' \in [Requests -> RequestType]
      BY <1>5, AnsweredType DEF UpdateRole, TypeOK
  <2>2. perms' \in [Roles -> SUBSET Permissions]
      BY <1>5 DEF UpdateRole, TypeOK, Roles
  <2> QED BY <1>5, <2>1, <2>2 DEF UpdateRole, TypeOK
<1>6. ASSUME NEW c \in Requests, RemoveRole(c) PROVE TypeOK'
  <2>1. CASE Answered(c)
      BY <1>6, <2>1, AnsweredType DEF RemoveRole, TypeOK
  <2>2. ASSUME NEW r \in Custom \cap roles, Proceed(c, "dropRole", None, r, None, FALSE)
        PROVE  TypeOK'
    <3>1. req' \in [Requests -> RequestType]
        BY <2>2, ProceedType, Zenon DEF TypeOK, RequestPc, Roles, Demotes
    <3> QED BY <1>6, <3>1 DEF RemoveRole, TypeOK
  <2> QED BY <1>6, <2>1, <2>2, Zenon DEF RemoveRole
<1>7. ASSUME NEW c \in Requests, DropRole(c) PROVE TypeOK'
  <2>1. req' \in [Requests -> RequestType]
      BY <1>7, AnsweredType DEF DropRole, TypeOK
  <2>2. roles' \subseteq Roles /\ perms' \in [Roles -> SUBSET Permissions]
      BY <1>7 DEF DropRole, TypeOK, Roles
  <2> QED BY <1>7, <2>1, <2>2 DEF DropRole, TypeOK
<1>8. ASSUME NEW c \in Requests, Invite(c) PROVE TypeOK'
  <2>1. CASE Answered(c)
      BY <1>8, <2>1, AnsweredType DEF Invite, TypeOK
  <2>2. ASSUME NEW u \in Users, NEW r \in roles, Proceed(c, "lookUp", u, r, None, FALSE)
        PROVE  TypeOK'
    <3>1. req' \in [Requests -> RequestType]
        BY <2>2, ProceedType, Zenon DEF TypeOK, RequestPc, Roles, Demotes
    <3> QED BY <1>8, <3>1 DEF Invite, TypeOK
  <2> QED BY <1>8, <2>1, <2>2, Zenon DEF Invite
<1>9. ASSUME NEW c \in Requests, LookUpMember(c) PROVE TypeOK'
  <2>1. req' \in [Requests -> RequestType]
      BY <1>9, AnsweredType, GotoType DEF LookUpMember, TypeOK, RequestPc
  <2> QED BY <1>9, <2>1 DEF LookUpMember, TypeOK
<1>10. ASSUME NEW c \in Requests, Supersede(c) PROVE TypeOK'
  <2>1. req' \in [Requests -> RequestType]
      BY <1>10, GotoType DEF Supersede, TypeOK, RequestPc
  <2>2. inv' \in [Invitations -> InvitationType]
      BY <1>10, SettleType DEF Supersede, TypeOK
  <2> QED BY <1>10, <2>1, <2>2 DEF Supersede, TypeOK
<1>11. ASSUME NEW c \in Requests, Send(c) PROVE TypeOK'
  <2>1. req' \in [Requests -> RequestType]
      BY <1>11, AnsweredType DEF Send, TypeOK
  <2>2. req[c].who \in Users /\ req[c].role \in Roles /\ req[c].can \subseteq Permissions
      BY <1>11 DEF Send, At, Carried, TypeOK, RequestType
  <2>3. [status |-> "PENDING", email |-> req[c].who, role |-> req[c].role,
         cap |-> IF Owner(c) THEN Permissions ELSE req[c].can] \in InvitationType
      BY <2>2 DEF InvitationType
  <2>4. inv' \in [Invitations -> InvitationType]
      BY <1>11, <2>3 DEF Send, TypeOK
  <2> QED BY <1>11, <2>1, <2>4 DEF Send, TypeOK
<1>12. ASSUME NEW c \in Requests, Revoke(c) PROVE TypeOK'
  <2>1. CASE Answered(c)
      BY <1>12, <2>1, AnsweredType DEF Revoke, TypeOK
  <2>2. ASSUME NEW i \in Invitations, Proceed(c, "withdraw", None, None, i, FALSE)
        PROVE  TypeOK'
    <3>1. req' \in [Requests -> RequestType]
        BY <2>2, ProceedType, Zenon DEF TypeOK, RequestPc, Roles, Demotes
    <3> QED BY <1>12, <3>1 DEF Revoke, TypeOK
  <2> QED BY <1>12, <2>1, <2>2, Zenon DEF Revoke
<1>13. ASSUME NEW c \in Requests, Withdraw(c) PROVE TypeOK'
  <2>1. req' \in [Requests -> RequestType]
      BY <1>13, AnsweredType DEF Withdraw, TypeOK
  <2>2. inv' \in [Invitations -> InvitationType]
      BY <1>13, SettleType DEF Withdraw, TypeOK
  <2> QED BY <1>13, <2>1, <2>2 DEF Withdraw, TypeOK
<1>14. ASSUME NEW c \in Requests, Present(c) PROVE TypeOK'
  <2>1. ASSUME NEW i \in Invitations, Settle({i}, "EXPIRED"), UNCHANGED req
        PROVE  TypeOK'
    <3>1. inv' \in [Invitations -> InvitationType]
        BY <2>1, SettleType DEF TypeOK
    <3> QED BY <1>14, <2>1, <3>1 DEF Present, TypeOK
  <2>2. ASSUME NEW i \in Invitations, NEW there \in {"accept", "register"},
               Proceed(c, there, None, None, i, FALSE), UNCHANGED inv
        PROVE  TypeOK'
    <3>1. req' \in [Requests -> RequestType]
        BY <2>2, ProceedType DEF TypeOK, RequestPc
    <3> QED BY <1>14, <2>2, <3>1 DEF Present, TypeOK
  <2> QED BY <1>14, <2>1, <2>2, Zenon DEF Present
<1>15. ASSUME NEW c \in Requests, Register(c) PROVE TypeOK'
  <2>1. CASE Answered(c) /\ UNCHANGED <<accounts, member, inv, resigned>>
      BY <1>15, <2>1, AnsweredType DEF Register, TypeOK
  <2>2. CASE ~ (Answered(c) /\ UNCHANGED <<accounts, member, inv, resigned>>)
    <3> DEFINE i == req[c].inv
    <3>1. /\ Claimable(i) /\ AnsweredWith(c, {inv[i].email}, FALSE)
          /\ inv' = [inv EXCEPT ![i].status = "ACCEPTED"]
          /\ member' = [member EXCEPT ![inv[i].email] = inv[i].role]
          /\ accounts' \in {accounts, accounts \cup {inv[i].email}}
        BY <1>15, <2>2 DEF Register
    <3>2. i \in Invitations /\ inv[i].email \in Users /\ inv[i].role \in Roles
        BY <1>15 DEF Register, At, Carried, Addressed
    <3>3. req' \in [Requests -> RequestType]
        BY <3>1, AnsweredWithType DEF TypeOK
    <3>4. [inv[i] EXCEPT !.status = "ACCEPTED"] \in InvitationType
        BY <3>2 DEF TypeOK, InvitationType
    <3>5. inv' = [inv EXCEPT ![i] = [inv[i] EXCEPT !.status = "ACCEPTED"]]
        BY <3>1
    <3>6. inv' \in [Invitations -> InvitationType]
        BY <3>2, <3>4, <3>5 DEF TypeOK
    <3>7. accounts' \subseteq Users /\ member' \in [Users -> Roles \cup {None}]
        BY <3>1, <3>2 DEF TypeOK
    <3>8. resigned' \in BOOLEAN
        BY <1>15, Zenon DEF Register, TypeOK
    <3> QED BY <1>15, <3>3, <3>6, <3>7, <3>8 DEF Register, TypeOK
  <2> QED BY <2>1, <2>2
<1>16. ASSUME NEW c \in Requests, Accept(c) PROVE TypeOK'
  <2>1. CASE Answered(c) /\ UNCHANGED <<accounts, member, inv, resigned>>
      BY <1>16, <2>1, AnsweredType DEF Accept, TypeOK
  <2>2. CASE ~ (Answered(c) /\ UNCHANGED <<accounts, member, inv, resigned>>)
    <3> DEFINE i == req[c].inv
    <3>1. /\ Claimable(i) /\ AnsweredWith(c, {inv[i].email}, FALSE)
          /\ inv' = [inv EXCEPT ![i].status = "ACCEPTED"]
          /\ member' = [member EXCEPT ![inv[i].email] = inv[i].role]
          /\ accounts' \in {accounts, accounts \cup {inv[i].email}}
        BY <1>16, <2>2 DEF Accept
    <3>2. i \in Invitations /\ inv[i].email \in Users /\ inv[i].role \in Roles
        BY <1>16 DEF Accept, At, Carried, Addressed
    <3>3. req' \in [Requests -> RequestType]
        BY <3>1, AnsweredWithType DEF TypeOK
    <3>4. [inv[i] EXCEPT !.status = "ACCEPTED"] \in InvitationType
        BY <3>2 DEF TypeOK, InvitationType
    <3>5. inv' = [inv EXCEPT ![i] = [inv[i] EXCEPT !.status = "ACCEPTED"]]
        BY <3>1
    <3>6. inv' \in [Invitations -> InvitationType]
        BY <3>2, <3>4, <3>5 DEF TypeOK
    <3>7. accounts' \subseteq Users /\ member' \in [Users -> Roles \cup {None}]
        BY <3>1, <3>2 DEF TypeOK
    <3>8. resigned' \in BOOLEAN
        BY <1>16, Zenon DEF Accept, TypeOK
    <3> QED BY <1>16, <3>3, <3>6, <3>7, <3>8 DEF Accept, TypeOK
  <2> QED BY <2>1, <2>2
<1>17. ASSUME ExpireInvitations PROVE TypeOK'
    BY <1>17, SettleType DEF ExpireInvitations, TypeOK
<1>18. ASSUME NEW i \in Invitations, Age(i) PROVE TypeOK'
    BY <1>18 DEF Age, TypeOK
<1>19. CASE UNCHANGED vars
    BY <1>19 DEF vars, TypeOK
<1> QED BY <1>1, <1>2, <1>3, <1>4, <1>5, <1>6, <1>7, <1>8, <1>9, <1>10,
           <1>11, <1>12, <1>13, <1>14, <1>15, <1>16, <1>17, <1>18, <1>19 DEF Next

\* What requests carry stays there.
LEMMA CarriedStep ==
    TypeOK /\ Carried /\ Addressed
      /\ [Next]_vars => (Carried /\ Addressed)'
<1> SUFFICES ASSUME TypeOK, Carried, Addressed, [Next]_vars
             PROVE  (Carried /\ Addressed)'
    OBVIOUS
<1> USE MemberConstants, Names DEF TypeOK, At, Carried, Addressed, Operations, Roles
<1>1. ASSUME NEW c \in Requests, Enter(c) PROVE (Carried /\ Addressed)'
    BY <1>1 DEF Enter, At, Continue, Proceed, Request, Answered, Goto, AnsweredWith, Idle, Settle
<1>2. ASSUME NEW c \in Requests, MemberRead(c) PROVE (Carried /\ Addressed)'
    BY <1>2 DEF MemberRead, At, Continue, Proceed, Request, Answered, Goto, AnsweredWith, Idle, Settle
<1>3. ASSUME NEW c \in Requests, MemberWrite(c) PROVE (Carried /\ Addressed)'
  <2>1. CASE Answered(c) /\ UNCHANGED member
      BY <1>3, <2>1, AnsweredFacts DEF MemberWrite
  <2>2. CASE AnsweredWith(c, {req[c].who}, req[c].counted)
      BY <1>3, <2>2, AnsweredWithFacts DEF MemberWrite, Kept
  <2> QED BY <1>3, <2>1, <2>2, Zenon DEF MemberWrite
<1>4. ASSUME NEW c \in Requests, CreateRole(c) PROVE (Carried /\ Addressed)'
    BY <1>4 DEF CreateRole, At, Continue, Proceed, Request, Answered, Goto, AnsweredWith, Idle, Settle
<1>5. ASSUME NEW c \in Requests, UpdateRole(c) PROVE (Carried /\ Addressed)'
    BY <1>5 DEF UpdateRole, At, Continue, Proceed, Request, Answered, Goto, AnsweredWith, Idle, Settle
<1>6. ASSUME NEW c \in Requests, RemoveRole(c) PROVE (Carried /\ Addressed)'
    BY <1>6 DEF RemoveRole, At, Continue, Proceed, Request, Answered, Goto, AnsweredWith, Idle, Settle
<1>7. ASSUME NEW c \in Requests, DropRole(c) PROVE (Carried /\ Addressed)'
    BY <1>7 DEF DropRole, At, Continue, Proceed, Request, Answered, Goto, AnsweredWith, Idle, Settle
<1>8. ASSUME NEW c \in Requests, Invite(c) PROVE (Carried /\ Addressed)'
    BY <1>8 DEF Invite, At, Continue, Proceed, Request, Answered, Goto, AnsweredWith, Idle, Settle
<1>9. ASSUME NEW c \in Requests, LookUpMember(c) PROVE (Carried /\ Addressed)'
  <2>1. CASE Answered(c)
      BY <1>9, <2>1, AnsweredFacts DEF LookUpMember
  <2>2. CASE Goto(c, "supersede")
      BY <1>9, <2>2, GotoFacts DEF LookUpMember
  <2> QED BY <1>9, <2>1, <2>2, Zenon DEF LookUpMember
<1>10. ASSUME NEW c \in Requests, Supersede(c) PROVE (Carried /\ Addressed)'
    BY <1>10 DEF Supersede, At, Continue, Proceed, Request, Answered, Goto, AnsweredWith, Idle, Settle
<1>11. ASSUME NEW c \in Requests, Send(c) PROVE (Carried /\ Addressed)'
    BY <1>11 DEF Send, At, Continue, Proceed, Request, Answered, Goto, AnsweredWith, Idle, Settle
<1>12. ASSUME NEW c \in Requests, Revoke(c) PROVE (Carried /\ Addressed)'
    BY <1>12 DEF Revoke, At, Continue, Proceed, Request, Answered, Goto, AnsweredWith, Idle, Settle
<1>13. ASSUME NEW c \in Requests, Withdraw(c) PROVE (Carried /\ Addressed)'
    BY <1>13 DEF Withdraw, At, Continue, Proceed, Request, Answered, Goto, AnsweredWith, Idle, Settle
<1>14. ASSUME NEW c \in Requests, Present(c) PROVE (Carried /\ Addressed)'
  <2>1. ASSUME NEW i \in Invitations, Settle({i}, "EXPIRED"), UNCHANGED req PROVE (Carried /\ Addressed)'
      BY <1>14, <2>1, SettleFacts DEF Present
  <2>2. ASSUME NEW i \in Invitations, inv[i].status = "PENDING", UNCHANGED inv,
               Proceed(c, IF inv[i].email \in accounts THEN "accept" ELSE "register",
                       None, None, i, FALSE)
        PROVE  (Carried /\ Addressed)'
      BY <1>14, <2>2, ContinueFacts DEF Present, Proceed
  <2> QED BY <1>14, <2>1, <2>2, Zenon DEF Present
<1>15. ASSUME NEW c \in Requests, Register(c) PROVE (Carried /\ Addressed)'
  <2>1. CASE Answered(c) /\ UNCHANGED <<accounts, member, inv, resigned>>
      BY <1>15, <2>1, RegisterCases, AnsweredFacts
  <2>2. CASE Claims(c) /\ accounts' = accounts \cup {inv[req[c].inv].email}
    <3> DEFINE i == req[c].inv
               u == inv[i].email
               o == inv[i].role
    <3>1. Claimed(c, i, u, o)
        BY <1>15, <2>2, RegisterCases, ClaimFacts
    <3>2. UNCHANGED <<roles, perms>> /\ accounts \subseteq accounts'
        BY <1>15, <2>2, RegisterCases
    <3>3. u \in accounts'
        BY <1>15, <2>2, RegisterCases
    <3> HIDE DEF i, u, o
    <3>4. /\ \A j \in Invitations :
               /\ inv'[j].email = inv[j].email /\ inv'[j].role = inv[j].role /\ inv'[j].cap = inv[j].cap
               /\ (inv'[j].status = "none") <=> (inv[j].status = "none")
               /\ inv'[j].status = "PENDING" => inv[j].status = "PENDING"
          /\ \A v \in Users : member'[v] = IF v = u THEN o ELSE member[v]
        BY <3>1 DEF Claimed
    <3>5. \A d \in Requests : req'[d].pc # "idle" => Kept(d)
        BY <3>1 DEF Claimed
    <3>6. Carried'
        BY <3>2, <3>4, <3>5 DEF Kept
    <3>7. Addressed'
        BY <3>4
    <3> QED BY <3>6, <3>7
  <2> QED BY <1>15, RegisterCases, <2>1, <2>2
<1>16. ASSUME NEW c \in Requests, Accept(c) PROVE (Carried /\ Addressed)'
  <2>1. CASE Answered(c) /\ UNCHANGED <<accounts, member, inv, resigned>>
      BY <1>16, <2>1, AcceptCases, AnsweredFacts
  <2>2. CASE Claims(c) /\ accounts' = accounts
    <3> DEFINE i == req[c].inv
               u == inv[i].email
               o == inv[i].role
    <3>1. Claimed(c, i, u, o)
        BY <1>16, <2>2, AcceptCases, ClaimFacts
    <3>2. UNCHANGED <<roles, perms>> /\ accounts \subseteq accounts'
        BY <1>16, <2>2, AcceptCases
    <3>3. u \in accounts'
        BY <1>16, <2>2, AcceptCases
    <3> HIDE DEF i, u, o
    <3>4. /\ \A j \in Invitations :
               /\ inv'[j].email = inv[j].email /\ inv'[j].role = inv[j].role /\ inv'[j].cap = inv[j].cap
               /\ (inv'[j].status = "none") <=> (inv[j].status = "none")
               /\ inv'[j].status = "PENDING" => inv[j].status = "PENDING"
          /\ \A v \in Users : member'[v] = IF v = u THEN o ELSE member[v]
        BY <3>1 DEF Claimed
    <3>5. \A d \in Requests : req'[d].pc # "idle" => Kept(d)
        BY <3>1 DEF Claimed
    <3>6. Carried'
        BY <3>2, <3>4, <3>5 DEF Kept
    <3>7. Addressed'
        BY <3>4
    <3> QED BY <3>6, <3>7
  <2> QED BY <1>16, AcceptCases, <2>1, <2>2
<1>17. ASSUME ExpireInvitations PROVE (Carried /\ Addressed)'
    BY <1>17 DEF ExpireInvitations, At, Continue, Proceed, Request, Answered, Goto, AnsweredWith, Idle, Settle
<1>18. ASSUME NEW i \in Invitations, Age(i) PROVE (Carried /\ Addressed)'
    BY <1>18 DEF Age, At, Continue, Proceed, Request, Answered, Goto, AnsweredWith, Idle, Settle
<1>19. CASE UNCHANGED vars
    BY <1>19 DEF vars
<1> QED BY <1>1, <1>2, <1>3, <1>4, <1>5, <1>6, <1>7, <1>8, <1>9, <1>10,
           <1>11, <1>12, <1>13, <1>14, <1>15, <1>16, <1>17, <1>18, <1>19 DEF Next

\* Only custom roles are changed or removed.
LEMMA BuiltInStep ==
    TypeOK /\ Carried /\ BuiltInStays
      /\ [Next]_vars => BuiltInStays'
<1> SUFFICES ASSUME TypeOK, Carried, BuiltInStays, [Next]_vars
             PROVE  BuiltInStays'
    OBVIOUS
<1> USE MemberConstants, Names DEF TypeOK, Carried, BuiltInStays, At
<1>1. ASSUME NEW c \in Requests, Enter(c) PROVE BuiltInStays'
    BY <1>1 DEF Enter
<1>2. ASSUME NEW c \in Requests, MemberRead(c) PROVE BuiltInStays'
    BY <1>2 DEF MemberRead
<1>3. ASSUME NEW c \in Requests, MemberWrite(c) PROVE BuiltInStays'
    BY <1>3 DEF MemberWrite
<1>4. ASSUME NEW c \in Requests, CreateRole(c) PROVE BuiltInStays'
    BY <1>4 DEF CreateRole
<1>5. ASSUME NEW c \in Requests, UpdateRole(c) PROVE BuiltInStays'
    BY <1>5 DEF UpdateRole
<1>6. ASSUME NEW c \in Requests, RemoveRole(c) PROVE BuiltInStays'
    BY <1>6 DEF RemoveRole
<1>7. ASSUME NEW c \in Requests, DropRole(c) PROVE BuiltInStays'
    BY <1>7 DEF DropRole
<1>8. ASSUME NEW c \in Requests, Invite(c) PROVE BuiltInStays'
    BY <1>8 DEF Invite
<1>9. ASSUME NEW c \in Requests, LookUpMember(c) PROVE BuiltInStays'
    BY <1>9 DEF LookUpMember
<1>10. ASSUME NEW c \in Requests, Supersede(c) PROVE BuiltInStays'
    BY <1>10 DEF Supersede
<1>11. ASSUME NEW c \in Requests, Send(c) PROVE BuiltInStays'
    BY <1>11 DEF Send
<1>12. ASSUME NEW c \in Requests, Revoke(c) PROVE BuiltInStays'
    BY <1>12 DEF Revoke
<1>13. ASSUME NEW c \in Requests, Withdraw(c) PROVE BuiltInStays'
    BY <1>13 DEF Withdraw
<1>14. ASSUME NEW c \in Requests, Present(c) PROVE BuiltInStays'
    BY <1>14 DEF Present
<1>15. ASSUME NEW c \in Requests, Register(c) PROVE BuiltInStays'
    BY <1>15 DEF Register
<1>16. ASSUME NEW c \in Requests, Accept(c) PROVE BuiltInStays'
    BY <1>16 DEF Accept
<1>17. ASSUME ExpireInvitations PROVE BuiltInStays'
    BY <1>17 DEF ExpireInvitations
<1>18. ASSUME NEW i \in Invitations, Age(i) PROVE BuiltInStays'
    BY <1>18 DEF Age
<1>19. CASE UNCHANGED vars
    BY <1>19 DEF vars
<1> QED BY <1>1, <1>2, <1>3, <1>4, <1>5, <1>6, <1>7, <1>8, <1>9, <1>10,
           <1>11, <1>12, <1>13, <1>14, <1>15, <1>16, <1>17, <1>18, <1>19 DEF Next

\* Who joins has, or gets, an account.
LEMMA AccountsStep ==
    TypeOK /\ Carried /\ Addressed /\ MembersHaveAccounts /\ Fresh
      /\ [Next]_vars => MembersHaveAccounts'
<1> SUFFICES ASSUME TypeOK, Carried, Addressed, MembersHaveAccounts, Fresh, [Next]_vars
             PROVE  MembersHaveAccounts'
    OBVIOUS
<1> USE MemberConstants, Names DEF TypeOK, Carried, Addressed, MembersHaveAccounts, Fresh, At
<1>1. ASSUME NEW c \in Requests, Enter(c) PROVE MembersHaveAccounts'
    BY <1>1 DEF Enter
<1>2. ASSUME NEW c \in Requests, MemberRead(c) PROVE MembersHaveAccounts'
    BY <1>2 DEF MemberRead
<1>3. ASSUME NEW c \in Requests, MemberWrite(c) PROVE MembersHaveAccounts'
    BY <1>3 DEF MemberWrite
<1>4. ASSUME NEW c \in Requests, CreateRole(c) PROVE MembersHaveAccounts'
    BY <1>4 DEF CreateRole
<1>5. ASSUME NEW c \in Requests, UpdateRole(c) PROVE MembersHaveAccounts'
    BY <1>5 DEF UpdateRole
<1>6. ASSUME NEW c \in Requests, RemoveRole(c) PROVE MembersHaveAccounts'
    BY <1>6 DEF RemoveRole
<1>7. ASSUME NEW c \in Requests, DropRole(c) PROVE MembersHaveAccounts'
    BY <1>7 DEF DropRole
<1>8. ASSUME NEW c \in Requests, Invite(c) PROVE MembersHaveAccounts'
    BY <1>8 DEF Invite
<1>9. ASSUME NEW c \in Requests, LookUpMember(c) PROVE MembersHaveAccounts'
    BY <1>9 DEF LookUpMember
<1>10. ASSUME NEW c \in Requests, Supersede(c) PROVE MembersHaveAccounts'
    BY <1>10 DEF Supersede
<1>11. ASSUME NEW c \in Requests, Send(c) PROVE MembersHaveAccounts'
    BY <1>11 DEF Send
<1>12. ASSUME NEW c \in Requests, Revoke(c) PROVE MembersHaveAccounts'
    BY <1>12 DEF Revoke
<1>13. ASSUME NEW c \in Requests, Withdraw(c) PROVE MembersHaveAccounts'
    BY <1>13 DEF Withdraw
<1>14. ASSUME NEW c \in Requests, Present(c) PROVE MembersHaveAccounts'
    BY <1>14 DEF Present
<1>15. ASSUME NEW c \in Requests, Register(c) PROVE MembersHaveAccounts'
  <2>1. CASE Answered(c) /\ UNCHANGED <<accounts, member, inv, resigned>>
      BY <1>15, <2>1, RegisterCases, AnsweredFacts
  <2>2. CASE Claims(c) /\ accounts' = accounts \cup {inv[req[c].inv].email}
    <3> DEFINE i == req[c].inv
               u == inv[i].email
               o == inv[i].role
    <3>1. Claimed(c, i, u, o)
        BY <1>15, <2>2, RegisterCases, ClaimFacts
    <3>2. UNCHANGED <<roles, perms>> /\ accounts \subseteq accounts'
        BY <1>15, <2>2, RegisterCases
    <3>3. u \in accounts'
        BY <1>15, <2>2, RegisterCases
    <3> HIDE DEF i, u, o
    <3>4. /\ \A j \in Invitations :
               /\ inv'[j].email = inv[j].email /\ inv'[j].role = inv[j].role /\ inv'[j].cap = inv[j].cap
               /\ (inv'[j].status = "none") <=> (inv[j].status = "none")
               /\ inv'[j].status = "PENDING" => inv[j].status = "PENDING"
          /\ \A v \in Users : member'[v] = IF v = u THEN o ELSE member[v]
        BY <3>1 DEF Claimed
    <3>5. \A d \in Requests : req'[d].pc # "idle" => Kept(d)
        BY <3>1 DEF Claimed
    <3> QED BY <3>1, <3>2, <3>3, <3>4, <3>5 DEF Claimed, Kept
  <2> QED BY <1>15, RegisterCases, <2>1, <2>2
<1>16. ASSUME NEW c \in Requests, Accept(c) PROVE MembersHaveAccounts'
  <2>1. CASE Answered(c) /\ UNCHANGED <<accounts, member, inv, resigned>>
      BY <1>16, <2>1, AcceptCases, AnsweredFacts
  <2>2. CASE Claims(c) /\ accounts' = accounts
    <3> DEFINE i == req[c].inv
               u == inv[i].email
               o == inv[i].role
    <3>1. Claimed(c, i, u, o)
        BY <1>16, <2>2, AcceptCases, ClaimFacts
    <3>2. UNCHANGED <<roles, perms>> /\ accounts \subseteq accounts'
        BY <1>16, <2>2, AcceptCases
    <3>3. u \in accounts'
        BY <1>16, <2>2, AcceptCases
    <3> HIDE DEF i, u, o
    <3>4. /\ \A j \in Invitations :
               /\ inv'[j].email = inv[j].email /\ inv'[j].role = inv[j].role /\ inv'[j].cap = inv[j].cap
               /\ (inv'[j].status = "none") <=> (inv[j].status = "none")
               /\ inv'[j].status = "PENDING" => inv[j].status = "PENDING"
          /\ \A v \in Users : member'[v] = IF v = u THEN o ELSE member[v]
        BY <3>1 DEF Claimed
    <3>5. \A d \in Requests : req'[d].pc # "idle" => Kept(d)
        BY <3>1 DEF Claimed
    <3> QED BY <3>1, <3>2, <3>3, <3>4, <3>5 DEF Claimed, Kept
  <2> QED BY <1>16, AcceptCases, <2>1, <2>2
<1>17. ASSUME ExpireInvitations PROVE MembersHaveAccounts'
    BY <1>17 DEF ExpireInvitations
<1>18. ASSUME NEW i \in Invitations, Age(i) PROVE MembersHaveAccounts'
    BY <1>18 DEF Age
<1>19. CASE UNCHANGED vars
    BY <1>19 DEF vars
<1> QED BY <1>1, <1>2, <1>3, <1>4, <1>5, <1>6, <1>7, <1>8, <1>9, <1>10,
           <1>11, <1>12, <1>13, <1>14, <1>15, <1>16, <1>17, <1>18, <1>19 DEF Next

\* Foreign keys keep the roles that are referred to.
LEMMA RolesStep ==
    TypeOK /\ Carried /\ Addressed /\ RolesInUseStay /\ Fresh
      /\ [Next]_vars => RolesInUseStay'
<1> SUFFICES ASSUME TypeOK, Carried, Addressed, RolesInUseStay, Fresh, [Next]_vars
             PROVE  RolesInUseStay'
    OBVIOUS
<1> USE MemberConstants, Names DEF TypeOK, Carried, Addressed, RolesInUseStay, Referenced, At
<1>1. ASSUME NEW c \in Requests, Enter(c) PROVE RolesInUseStay'
    BY <1>1 DEF Enter, Settle
<1>2. ASSUME NEW c \in Requests, MemberRead(c) PROVE RolesInUseStay'
    BY <1>2 DEF MemberRead, Settle
<1>3. ASSUME NEW c \in Requests, MemberWrite(c) PROVE RolesInUseStay'
    BY <1>3 DEF MemberWrite, Settle
<1>4. ASSUME NEW c \in Requests, CreateRole(c) PROVE RolesInUseStay'
    BY <1>4 DEF CreateRole, Settle
<1>5. ASSUME NEW c \in Requests, UpdateRole(c) PROVE RolesInUseStay'
    BY <1>5 DEF UpdateRole, Settle
<1>6. ASSUME NEW c \in Requests, RemoveRole(c) PROVE RolesInUseStay'
    BY <1>6 DEF RemoveRole, Settle
<1>7. ASSUME NEW c \in Requests, DropRole(c) PROVE RolesInUseStay'
    BY <1>7 DEF DropRole, Settle
<1>8. ASSUME NEW c \in Requests, Invite(c) PROVE RolesInUseStay'
    BY <1>8 DEF Invite, Settle
<1>9. ASSUME NEW c \in Requests, LookUpMember(c) PROVE RolesInUseStay'
    BY <1>9 DEF LookUpMember, Settle
<1>10. ASSUME NEW c \in Requests, Supersede(c) PROVE RolesInUseStay'
    BY <1>10 DEF Supersede, Settle
<1>11. ASSUME NEW c \in Requests, Send(c) PROVE RolesInUseStay'
    BY <1>11 DEF Send, Settle
<1>12. ASSUME NEW c \in Requests, Revoke(c) PROVE RolesInUseStay'
    BY <1>12 DEF Revoke, Settle
<1>13. ASSUME NEW c \in Requests, Withdraw(c) PROVE RolesInUseStay'
    BY <1>13 DEF Withdraw, Settle
<1>14. ASSUME NEW c \in Requests, Present(c) PROVE RolesInUseStay'
  <2>1. ASSUME NEW i \in Invitations, Settle({i}, "EXPIRED"), UNCHANGED req PROVE RolesInUseStay'
      BY <1>14, <2>1, SettleFacts DEF Present
  <2>2. ASSUME NEW i \in Invitations, inv[i].status = "PENDING", UNCHANGED inv,
               Proceed(c, IF inv[i].email \in accounts THEN "accept" ELSE "register",
                       None, None, i, FALSE)
        PROVE  RolesInUseStay'
      BY <1>14, <2>2, ContinueFacts DEF Present, Proceed
  <2> QED BY <1>14, <2>1, <2>2, Zenon DEF Present
<1>15. ASSUME NEW c \in Requests, Register(c) PROVE RolesInUseStay'
  <2>1. CASE Answered(c) /\ UNCHANGED <<accounts, member, inv, resigned>>
      BY <1>15, <2>1, RegisterCases, AnsweredFacts
  <2>2. CASE Claims(c) /\ accounts' = accounts \cup {inv[req[c].inv].email}
    <3> DEFINE i == req[c].inv
               u == inv[i].email
               o == inv[i].role
    <3>1. Claimed(c, i, u, o)
        BY <1>15, <2>2, RegisterCases, ClaimFacts
    <3>2. UNCHANGED <<roles, perms>> /\ accounts \subseteq accounts'
        BY <1>15, <2>2, RegisterCases
    <3>3. u \in accounts'
        BY <1>15, <2>2, RegisterCases
    <3> HIDE DEF i, u, o
    <3>4. /\ \A j \in Invitations :
               /\ inv'[j].email = inv[j].email /\ inv'[j].role = inv[j].role /\ inv'[j].cap = inv[j].cap
               /\ (inv'[j].status = "none") <=> (inv[j].status = "none")
               /\ inv'[j].status = "PENDING" => inv[j].status = "PENDING"
          /\ \A v \in Users : member'[v] = IF v = u THEN o ELSE member[v]
        BY <3>1 DEF Claimed
    <3>5. \A d \in Requests : req'[d].pc # "idle" => Kept(d)
        BY <3>1 DEF Claimed
    <3> QED BY <3>1, <3>2, <3>3, <3>4, <3>5 DEF Claimed, Kept
  <2> QED BY <1>15, RegisterCases, <2>1, <2>2
<1>16. ASSUME NEW c \in Requests, Accept(c) PROVE RolesInUseStay'
  <2>1. CASE Answered(c) /\ UNCHANGED <<accounts, member, inv, resigned>>
      BY <1>16, <2>1, AcceptCases, AnsweredFacts
  <2>2. CASE Claims(c) /\ accounts' = accounts
    <3> DEFINE i == req[c].inv
               u == inv[i].email
               o == inv[i].role
    <3>1. Claimed(c, i, u, o)
        BY <1>16, <2>2, AcceptCases, ClaimFacts
    <3>2. UNCHANGED <<roles, perms>> /\ accounts \subseteq accounts'
        BY <1>16, <2>2, AcceptCases
    <3>3. u \in accounts'
        BY <1>16, <2>2, AcceptCases
    <3> HIDE DEF i, u, o
    <3>4. /\ \A j \in Invitations :
               /\ inv'[j].email = inv[j].email /\ inv'[j].role = inv[j].role /\ inv'[j].cap = inv[j].cap
               /\ (inv'[j].status = "none") <=> (inv[j].status = "none")
               /\ inv'[j].status = "PENDING" => inv[j].status = "PENDING"
          /\ \A v \in Users : member'[v] = IF v = u THEN o ELSE member[v]
        BY <3>1 DEF Claimed
    <3>5. \A d \in Requests : req'[d].pc # "idle" => Kept(d)
        BY <3>1 DEF Claimed
    <3> QED BY <3>1, <3>2, <3>3, <3>4, <3>5 DEF Claimed, Kept
  <2> QED BY <1>16, AcceptCases, <2>1, <2>2
<1>17. ASSUME ExpireInvitations PROVE RolesInUseStay'
    BY <1>17 DEF ExpireInvitations, Settle
<1>18. ASSUME NEW i \in Invitations, Age(i) PROVE RolesInUseStay'
    BY <1>18 DEF Age, Settle
<1>19. CASE UNCHANGED vars
    BY <1>19 DEF vars
<1> QED BY <1>1, <1>2, <1>3, <1>4, <1>5, <1>6, <1>7, <1>8, <1>9, <1>10,
           <1>11, <1>12, <1>13, <1>14, <1>15, <1>16, <1>17, <1>18, <1>19 DEF Next

\* Roles that change are given only by Owners.
LEMMA PowerStep ==
    TypeOK /\ Carried /\ Addressed /\ BuiltInStays /\ SendersPower
      /\ [Next]_vars => SendersPower'
<1> SUFFICES ASSUME TypeOK, Carried, Addressed, BuiltInStays, SendersPower, [Next]_vars
             PROVE  SendersPower'
    OBVIOUS
<1> USE MemberConstants, Names DEF At, TypeOK, Carried, Addressed, BuiltInStays, SendersPower, Owner, Subset,
           Assignable, Operations, Roles
<1>1. ASSUME NEW c \in Requests, Enter(c) PROVE SendersPower'
    BY <1>1 DEF Enter, At, Continue, Proceed, Request, Answered, Goto, AnsweredWith, Idle, Settle
<1>2. ASSUME NEW c \in Requests, MemberRead(c) PROVE SendersPower'
    BY <1>2 DEF MemberRead, At, Continue, Proceed, Request, Answered, Goto, AnsweredWith, Idle, Settle
<1>3. ASSUME NEW c \in Requests, MemberWrite(c) PROVE SendersPower'
  <2>1. CASE Answered(c) /\ UNCHANGED member
      BY <1>3, <2>1, AnsweredFacts DEF MemberWrite
  <2>2. CASE AnsweredWith(c, {req[c].who}, req[c].counted)
      BY <1>3, <2>2, AnsweredWithFacts DEF MemberWrite, Kept
  <2> QED BY <1>3, <2>1, <2>2, Zenon DEF MemberWrite
<1>4. ASSUME NEW c \in Requests, CreateRole(c) PROVE SendersPower'
    BY <1>4 DEF CreateRole, At, Continue, Proceed, Request, Answered, Goto, AnsweredWith, Idle, Settle
<1>5. ASSUME NEW c \in Requests, UpdateRole(c) PROVE SendersPower'
    BY <1>5 DEF UpdateRole, At, Continue, Proceed, Request, Answered, Goto, AnsweredWith, Idle, Settle
<1>6. ASSUME NEW c \in Requests, RemoveRole(c) PROVE SendersPower'
    BY <1>6 DEF RemoveRole, At, Continue, Proceed, Request, Answered, Goto, AnsweredWith, Idle, Settle
<1>7. ASSUME NEW c \in Requests, DropRole(c) PROVE SendersPower'
    BY <1>7 DEF DropRole, At, Continue, Proceed, Request, Answered, Goto, AnsweredWith, Idle, Settle
<1>8. ASSUME NEW c \in Requests, Invite(c) PROVE SendersPower'
    BY <1>8 DEF Invite, At, Continue, Proceed, Request, Answered, Goto, AnsweredWith, Idle, Settle
<1>9. ASSUME NEW c \in Requests, LookUpMember(c) PROVE SendersPower'
  <2>1. CASE Answered(c)
      BY <1>9, <2>1, AnsweredFacts DEF LookUpMember
  <2>2. CASE Goto(c, "supersede")
      BY <1>9, <2>2, GotoFacts DEF LookUpMember
  <2> QED BY <1>9, <2>1, <2>2, Zenon DEF LookUpMember
<1>10. ASSUME NEW c \in Requests, Supersede(c) PROVE SendersPower'
    BY <1>10 DEF Supersede, At, Continue, Proceed, Request, Answered, Goto, AnsweredWith, Idle, Settle
<1>11. ASSUME NEW c \in Requests, Send(c) PROVE SendersPower'
    BY <1>11 DEF Send, At, Continue, Proceed, Request, Answered, Goto, AnsweredWith, Idle, Settle
<1>12. ASSUME NEW c \in Requests, Revoke(c) PROVE SendersPower'
    BY <1>12 DEF Revoke, At, Continue, Proceed, Request, Answered, Goto, AnsweredWith, Idle, Settle
<1>13. ASSUME NEW c \in Requests, Withdraw(c) PROVE SendersPower'
    BY <1>13 DEF Withdraw, At, Continue, Proceed, Request, Answered, Goto, AnsweredWith, Idle, Settle
<1>14. ASSUME NEW c \in Requests, Present(c) PROVE SendersPower'
  <2>1. ASSUME NEW i \in Invitations, Settle({i}, "EXPIRED"), UNCHANGED req PROVE SendersPower'
      BY <1>14, <2>1, SettleFacts DEF Present
  <2>2. ASSUME NEW i \in Invitations, inv[i].status = "PENDING", UNCHANGED inv,
               Proceed(c, IF inv[i].email \in accounts THEN "accept" ELSE "register",
                       None, None, i, FALSE)
        PROVE  SendersPower'
      BY <1>14, <2>2, ContinueFacts DEF Present, Proceed
  <2> QED BY <1>14, <2>1, <2>2, Zenon DEF Present
<1>15. ASSUME NEW c \in Requests, Register(c) PROVE SendersPower'
  <2>1. CASE Answered(c) /\ UNCHANGED <<accounts, member, inv, resigned>>
      BY <1>15, <2>1, RegisterCases, AnsweredFacts
  <2>2. CASE Claims(c) /\ accounts' = accounts \cup {inv[req[c].inv].email}
    <3> DEFINE i == req[c].inv
               u == inv[i].email
               o == inv[i].role
    <3>1. Claimed(c, i, u, o)
        BY <1>15, <2>2, RegisterCases, ClaimFacts
    <3>2. UNCHANGED <<roles, perms>> /\ accounts \subseteq accounts'
        BY <1>15, <2>2, RegisterCases
    <3>3. u \in accounts'
        BY <1>15, <2>2, RegisterCases
    <3> HIDE DEF i, u, o
    <3>4. /\ \A j \in Invitations :
               /\ inv'[j].email = inv[j].email /\ inv'[j].role = inv[j].role /\ inv'[j].cap = inv[j].cap
               /\ (inv'[j].status = "none") <=> (inv[j].status = "none")
               /\ inv'[j].status = "PENDING" => inv[j].status = "PENDING"
          /\ \A v \in Users : member'[v] = IF v = u THEN o ELSE member[v]
        BY <3>1 DEF Claimed
    <3>5. \A d \in Requests : req'[d].pc # "idle" => Kept(d)
        BY <3>1 DEF Claimed
    <3> QED BY <3>2, <3>4, <3>5 DEF Kept
  <2> QED BY <1>15, RegisterCases, <2>1, <2>2
<1>16. ASSUME NEW c \in Requests, Accept(c) PROVE SendersPower'
  <2>1. CASE Answered(c) /\ UNCHANGED <<accounts, member, inv, resigned>>
      BY <1>16, <2>1, AcceptCases, AnsweredFacts
  <2>2. CASE Claims(c) /\ accounts' = accounts
    <3> DEFINE i == req[c].inv
               u == inv[i].email
               o == inv[i].role
    <3>1. Claimed(c, i, u, o)
        BY <1>16, <2>2, AcceptCases, ClaimFacts
    <3>2. UNCHANGED <<roles, perms>> /\ accounts \subseteq accounts'
        BY <1>16, <2>2, AcceptCases
    <3>3. u \in accounts'
        BY <1>16, <2>2, AcceptCases
    <3> HIDE DEF i, u, o
    <3>4. /\ \A j \in Invitations :
               /\ inv'[j].email = inv[j].email /\ inv'[j].role = inv[j].role /\ inv'[j].cap = inv[j].cap
               /\ (inv'[j].status = "none") <=> (inv[j].status = "none")
               /\ inv'[j].status = "PENDING" => inv[j].status = "PENDING"
          /\ \A v \in Users : member'[v] = IF v = u THEN o ELSE member[v]
        BY <3>1 DEF Claimed
    <3>5. \A d \in Requests : req'[d].pc # "idle" => Kept(d)
        BY <3>1 DEF Claimed
    <3> QED BY <3>2, <3>4, <3>5 DEF Kept
  <2> QED BY <1>16, AcceptCases, <2>1, <2>2
<1>17. ASSUME ExpireInvitations PROVE SendersPower'
    BY <1>17 DEF ExpireInvitations, At, Continue, Proceed, Request, Answered, Goto, AnsweredWith, Idle, Settle
<1>18. ASSUME NEW i \in Invitations, Age(i) PROVE SendersPower'
    BY <1>18 DEF Age, At, Continue, Proceed, Request, Answered, Goto, AnsweredWith, Idle, Settle
<1>19. CASE UNCHANGED vars
    BY <1>19 DEF vars
<1> QED BY <1>1, <1>2, <1>3, <1>4, <1>5, <1>6, <1>7, <1>8, <1>9, <1>10,
           <1>11, <1>12, <1>13, <1>14, <1>15, <1>16, <1>17, <1>18, <1>19 DEF Next

\* Who changes a row, or takes an Owner away, makes the transactions fail that rely on it.
LEMMA FreshStep ==
    TypeOK /\ Carried /\ Addressed /\ MembersHaveAccounts /\ Fresh
      /\ [Next]_vars => Fresh'
<1> SUFFICES ASSUME TypeOK, Carried, Addressed, MembersHaveAccounts, Fresh, [Next]_vars
             PROVE  Fresh'
    OBVIOUS
<1> USE MemberConstants, Names DEF At, TypeOK, Carried, Addressed, MembersHaveAccounts, Fresh, Owner, Demotes,
           OtherOwner
<1>1. ASSUME NEW c \in Requests, Enter(c) PROVE Fresh'
  <2>1. req'[c].pc # "write" /\ \A d \in Requests \ {c} : req'[d] = req[d]
      BY <1>1, AnsweredFacts, ContinueFacts, GotoFacts DEF Enter, Request, Operations
  <2> QED BY <1>1, <2>1 DEF Enter
<1>2. ASSUME NEW c \in Requests, MemberRead(c) PROVE Fresh'
  <2>1. CASE Answered(c)
      BY <1>2, <2>1, AnsweredFacts DEF MemberRead
  <2>2. ASSUME NEW u \in Users, NEW r \in roles \cup {None},
               member[u] # None, Manageable(c, member[u]), Demotes(u, r) => OtherOwner(u),
               Proceed(c, "write", u, r, None, Demotes(u, r))
        PROVE  Fresh'
    <3>1. req'[c] = [pc |-> "write", as |-> req[c].as, can |-> req[c].can, who |-> u, role |-> r,
                     inv |-> None, counted |-> Demotes(u, r), clash |-> FALSE]
          /\ \A d \in Requests \ {c} : req'[d] = req[d]
        BY <2>2, ContinueFacts DEF Proceed
    <3>2. UNCHANGED <<member, resigned>>
        BY <1>2 DEF MemberRead
    <3>3. member[u] = "OWNER" => req[c].as = "OWNER"
        BY <2>2 DEF Manageable, Owner
    <3> QED BY <2>2, <3>1, <3>2, <3>3
  <2> QED BY <1>2, <2>1, <2>2, Zenon DEF MemberRead
<1>3. ASSUME NEW c \in Requests, MemberWrite(c) PROVE Fresh'
  <2>1. CASE Answered(c) /\ UNCHANGED member
      BY <1>3, <2>1, AnsweredFacts DEF MemberWrite
  <2>2. CASE /\ ~req[c].clash
             /\ member' = [member EXCEPT ![req[c].who] = req[c].role]
             /\ AnsweredWith(c, {req[c].who}, req[c].counted)
    <3> DEFINE w == req[c].who
    <3>1. w \in Users /\ member[w] # None /\ UNCHANGED resigned
        BY <1>3, <2>2 DEF MemberWrite
    <3>2. req'[c].pc = "idle" /\ \A d \in Requests \ {c} : Kept(d) /\ Fails(d, {w}, req[c].counted)
        BY <2>2, AnsweredWithFacts
    <3>3. ASSUME NEW d \in Requests, At(d, "write")', ~req'[d].clash
          PROVE  /\ req'[d].who = req[d].who /\ req'[d].role = req[d].role
                 /\ req'[d].as = req[d].as /\ req'[d].counted = req[d].counted
                 /\ At(d, "write") /\ ~req[d].clash /\ req[d].who \in Users \ {w}
                 /\ ~(req[c].counted /\ req[d].counted)
      <4>1. d # c /\ Kept(d) /\ Fails(d, {w}, req[c].counted)
          BY <3>2, <3>3
      <4> QED BY <3>3, <4>1 DEF Kept, Fails
    <3>4. \A v \in Users : member'[v] = IF v = w THEN req[c].role ELSE member[v]
        BY <2>2
    <3>5. req[c].counted \/ ~(member[w] = "OWNER" /\ req[c].role # "OWNER")
        BY <1>3, <2>2 DEF MemberWrite
    <3> HIDE DEF w
    <3>6. ASSUME NEW d \in Requests, At(d, "write")', ~req'[d].clash
          PROVE  LET u == req[d].who IN
                 /\ u \in Users /\ member'[u] = member[u] /\ member[u] # None
                 /\ member[u] = "OWNER" => req[d].as = "OWNER"
                 /\ req[d].counted = (member[u] = "OWNER" /\ req[d].role # "OWNER")
                 /\ req[d].counted => resigned \/ \E v \in Users \ {u} : member'[v] = "OWNER"
      <4>1. /\ At(d, "write") /\ ~req[d].clash /\ req[d].who \in Users \ {w}
            /\ ~(req[c].counted /\ req[d].counted)
          BY <3>3, <3>6
      <4>2. req[d].counted => resigned \/ \E v \in Users \ {req[d].who} : member[v] = "OWNER"
          BY <4>1
      <4>3. req[d].counted => resigned \/ \E v \in Users \ {req[d].who} : member'[v] = "OWNER"
          BY <4>1, <4>2, <3>4, <3>5
      <4> QED BY <4>1, <4>3, <3>4
    <3> QED BY <3>1, <3>3, <3>6
  <2> QED BY <1>3, <2>1, <2>2, Zenon DEF MemberWrite
<1>4. ASSUME NEW c \in Requests, CreateRole(c) PROVE Fresh'
  <2>1. req'[c].pc # "write" /\ \A d \in Requests \ {c} : req'[d] = req[d]
      BY <1>4, AnsweredFacts, ContinueFacts, GotoFacts DEF CreateRole
  <2> QED BY <1>4, <2>1 DEF CreateRole
<1>5. ASSUME NEW c \in Requests, UpdateRole(c) PROVE Fresh'
  <2>1. req'[c].pc # "write" /\ \A d \in Requests \ {c} : req'[d] = req[d]
      BY <1>5, AnsweredFacts, ContinueFacts, GotoFacts DEF UpdateRole
  <2> QED BY <1>5, <2>1 DEF UpdateRole
<1>6. ASSUME NEW c \in Requests, RemoveRole(c) PROVE Fresh'
  <2>1. CASE Answered(c)
      BY <1>6, <2>1, AnsweredFacts DEF RemoveRole
  <2>2. ASSUME NEW r \in Custom \cap roles, Proceed(c, "dropRole", None, r, None, FALSE) PROVE Fresh'
    <3>1. req'[c].pc # "write" /\ \A d \in Requests \ {c} : req'[d] = req[d]
        BY <2>2, ContinueFacts DEF Proceed
    <3> QED BY <1>6, <3>1 DEF RemoveRole
  <2> QED BY <1>6, <2>1, <2>2, Zenon DEF RemoveRole
<1>7. ASSUME NEW c \in Requests, DropRole(c) PROVE Fresh'
  <2>1. req'[c].pc # "write" /\ \A d \in Requests \ {c} : req'[d] = req[d]
      BY <1>7, AnsweredFacts, ContinueFacts, GotoFacts DEF DropRole
  <2> QED BY <1>7, <2>1 DEF DropRole
<1>8. ASSUME NEW c \in Requests, Invite(c) PROVE Fresh'
  <2>1. CASE Answered(c)
      BY <1>8, <2>1, AnsweredFacts DEF Invite
  <2>2. ASSUME NEW u \in Users, NEW r \in roles, Proceed(c, "lookUp", u, r, None, FALSE) PROVE Fresh'
    <3>1. req'[c].pc # "write" /\ \A d \in Requests \ {c} : req'[d] = req[d]
        BY <2>2, ContinueFacts DEF Proceed
    <3> QED BY <1>8, <3>1 DEF Invite
  <2> QED BY <1>8, <2>1, <2>2, Zenon DEF Invite
<1>9. ASSUME NEW c \in Requests, LookUpMember(c) PROVE Fresh'
  <2>1. req'[c].pc # "write" /\ \A d \in Requests \ {c} : req'[d] = req[d]
      BY <1>9, AnsweredFacts, ContinueFacts, GotoFacts DEF LookUpMember
  <2> QED BY <1>9, <2>1 DEF LookUpMember
<1>10. ASSUME NEW c \in Requests, Supersede(c) PROVE Fresh'
  <2>1. req'[c].pc # "write" /\ \A d \in Requests \ {c} : req'[d] = req[d]
      BY <1>10, AnsweredFacts, ContinueFacts, GotoFacts DEF Supersede
  <2> QED BY <1>10, <2>1 DEF Supersede
<1>11. ASSUME NEW c \in Requests, Send(c) PROVE Fresh'
  <2>1. req'[c].pc # "write" /\ \A d \in Requests \ {c} : req'[d] = req[d]
      BY <1>11, AnsweredFacts, ContinueFacts, GotoFacts DEF Send
  <2> QED BY <1>11, <2>1 DEF Send
<1>12. ASSUME NEW c \in Requests, Revoke(c) PROVE Fresh'
  <2>1. CASE Answered(c)
      BY <1>12, <2>1, AnsweredFacts DEF Revoke
  <2>2. ASSUME NEW i \in Invitations, Proceed(c, "withdraw", None, None, i, FALSE) PROVE Fresh'
    <3>1. req'[c].pc # "write" /\ \A d \in Requests \ {c} : req'[d] = req[d]
        BY <2>2, ContinueFacts DEF Proceed
    <3> QED BY <1>12, <3>1 DEF Revoke
  <2> QED BY <1>12, <2>1, <2>2, Zenon DEF Revoke
<1>13. ASSUME NEW c \in Requests, Withdraw(c) PROVE Fresh'
  <2>1. req'[c].pc # "write" /\ \A d \in Requests \ {c} : req'[d] = req[d]
      BY <1>13, AnsweredFacts, ContinueFacts, GotoFacts DEF Withdraw
  <2> QED BY <1>13, <2>1 DEF Withdraw
<1>14. ASSUME NEW c \in Requests, Present(c) PROVE Fresh'
  <2>1. req'[c].pc # "write" /\ \A d \in Requests \ {c} : req'[d] = req[d]
      BY <1>14, ContinueFacts DEF Present, Proceed
  <2> QED BY <1>14, <2>1 DEF Present
<1>15. ASSUME NEW c \in Requests, Register(c) PROVE Fresh'
  <2>1. CASE Answered(c) /\ UNCHANGED <<accounts, member, inv>>
      BY <1>15, <2>1, RegisterCases, AnsweredFacts
  <2>2. CASE Claims(c) /\ inv[req[c].inv].email \notin accounts
    <3> DEFINE w == inv[req[c].inv].email
    <3>0. Claimed(c, req[c].inv, w, inv[req[c].inv].role)
        BY <1>15, <2>2, RegisterCases, ClaimFacts
    <3>1. /\ w \in Users /\ member[w] = None /\ UNCHANGED resigned
          /\ \A v \in Users \ {w} : member'[v] = member[v]
          /\ req'[c].pc = "idle" /\ \A d \in Requests \ {c} : Kept(d) /\ Fails(d, {w}, FALSE)
        BY <1>15, <2>2, <3>0, RegisterCases DEF Claimed
    <3>2. ASSUME NEW d \in Requests, At(d, "write")', ~req'[d].clash
          PROVE  /\ d # c /\ Kept(d) /\ At(d, "write") /\ ~req[d].clash /\ req[d].who # w
                 /\ req[d].who \in Users
        BY <3>1, <3>2 DEF Kept, Fails
    <3> HIDE DEF w
    <3> QED BY <3>1, <3>2 DEF Kept
  <2> QED BY <1>15, <2>1, <2>2, RegisterCases
<1>16. ASSUME NEW c \in Requests, Accept(c) PROVE Fresh'
  <2>1. CASE Answered(c) /\ UNCHANGED <<member, inv, resigned>>
      BY <1>16, <2>1, AcceptCases, AnsweredFacts
  <2>2. CASE Claims(c)
    <3> DEFINE w == inv[req[c].inv].email
               o == inv[req[c].inv].role
    <3>1. /\ w \in Users /\ \A v \in Users : member'[v] = IF v = w THEN o ELSE member[v]
          /\ req'[c].pc = "idle" /\ \A d \in Requests \ {c} : Kept(d) /\ Fails(d, {w}, FALSE)
        BY <1>16, <2>2, AcceptCases, ClaimFacts DEF Claimed
    <3>2. resigned' = (resigned \/ (member[w] = "OWNER" /\ o # "OWNER"))
        BY <1>16, <2>2, Zenon DEF Accept, Answered, Claims
    <3>3. ASSUME NEW d \in Requests, At(d, "write")', ~req'[d].clash
          PROVE  /\ d # c /\ Kept(d) /\ At(d, "write") /\ ~req[d].clash /\ req[d].who # w
                 /\ req[d].who \in Users
        BY <3>1, <3>3 DEF Kept, Fails
    <3> HIDE DEF w, o
    <3> QED BY <3>1, <3>2, <3>3 DEF Kept
  <2> QED BY <1>16, <2>1, <2>2, AcceptCases
<1>17. ASSUME ExpireInvitations PROVE Fresh'
    BY <1>17 DEF ExpireInvitations
<1>18. ASSUME NEW i \in Invitations, Age(i) PROVE Fresh'
    BY <1>18 DEF Age
<1>19. CASE UNCHANGED vars
    BY <1>19 DEF vars
<1> QED BY <1>1, <1>2, <1>3, <1>4, <1>5, <1>6, <1>7, <1>8, <1>9, <1>10,
           <1>11, <1>12, <1>13, <1>14, <1>15, <1>16, <1>17, <1>18, <1>19 DEF Next

\* A transaction that takes an Owner away and commits leaves another.
LEMMA OwnerStep ==
    TypeOK /\ Carried /\ Addressed /\ MembersHaveAccounts /\ Fresh /\ OwnerRemains
      /\ [Next]_vars => OwnerRemains'
<1> SUFFICES ASSUME TypeOK, Carried, Addressed, MembersHaveAccounts, Fresh, OwnerRemains, [Next]_vars
             PROVE  OwnerRemains'
    OBVIOUS
<1> USE MemberConstants, Names DEF At, TypeOK, Carried, Addressed, MembersHaveAccounts, Fresh, OwnerRemains,
           Demotes, OtherOwner
<1>1. ASSUME NEW c \in Requests, Enter(c) PROVE OwnerRemains'
    BY <1>1 DEF Enter
<1>2. ASSUME NEW c \in Requests, MemberRead(c) PROVE OwnerRemains'
    BY <1>2 DEF MemberRead
<1>3. ASSUME NEW c \in Requests, MemberWrite(c) PROVE OwnerRemains'
  <2>1. CASE UNCHANGED member
      BY <1>3, <2>1 DEF MemberWrite
  <2>2. CASE ~req[c].clash /\ member' = [member EXCEPT ![req[c].who] = req[c].role]
    <3> DEFINE w == req[c].who
    <3>1. w \in Users /\ UNCHANGED resigned
          /\ (req[c].counted = (member[w] = "OWNER" /\ req[c].role # "OWNER"))
          /\ (req[c].counted => resigned \/ \E v \in Users \ {w} : member[v] = "OWNER")
        BY <1>3, <2>2 DEF MemberWrite
    <3>2. \A v \in Users : member'[v] = IF v = w THEN req[c].role ELSE member[v]
        BY <2>2
    <3> HIDE DEF w
    <3> QED BY <3>1, <3>2
  <2> QED BY <1>3, <2>1, <2>2, Zenon DEF MemberWrite
<1>4. ASSUME NEW c \in Requests, CreateRole(c) PROVE OwnerRemains'
    BY <1>4 DEF CreateRole
<1>5. ASSUME NEW c \in Requests, UpdateRole(c) PROVE OwnerRemains'
    BY <1>5 DEF UpdateRole
<1>6. ASSUME NEW c \in Requests, RemoveRole(c) PROVE OwnerRemains'
    BY <1>6 DEF RemoveRole
<1>7. ASSUME NEW c \in Requests, DropRole(c) PROVE OwnerRemains'
    BY <1>7 DEF DropRole
<1>8. ASSUME NEW c \in Requests, Invite(c) PROVE OwnerRemains'
    BY <1>8 DEF Invite
<1>9. ASSUME NEW c \in Requests, LookUpMember(c) PROVE OwnerRemains'
    BY <1>9 DEF LookUpMember
<1>10. ASSUME NEW c \in Requests, Supersede(c) PROVE OwnerRemains'
    BY <1>10 DEF Supersede
<1>11. ASSUME NEW c \in Requests, Send(c) PROVE OwnerRemains'
    BY <1>11 DEF Send
<1>12. ASSUME NEW c \in Requests, Revoke(c) PROVE OwnerRemains'
    BY <1>12 DEF Revoke
<1>13. ASSUME NEW c \in Requests, Withdraw(c) PROVE OwnerRemains'
    BY <1>13 DEF Withdraw
<1>14. ASSUME NEW c \in Requests, Present(c) PROVE OwnerRemains'
    BY <1>14 DEF Present
<1>15. ASSUME NEW c \in Requests, Register(c) PROVE OwnerRemains'
  <2>1. CASE UNCHANGED member
      BY <1>15, <2>1, RegisterCases
  <2>2. CASE Claims(c) /\ inv[req[c].inv].email \notin accounts
    <3> DEFINE w == inv[req[c].inv].email
    <3>0. Claimed(c, req[c].inv, w, inv[req[c].inv].role)
        BY <1>15, <2>2, RegisterCases, ClaimFacts
    <3>1. /\ w \in Users /\ member[w] = None /\ UNCHANGED resigned
          /\ \A v \in Users \ {w} : member'[v] = member[v]
        BY <1>15, <2>2, <3>0, RegisterCases DEF Claimed
    <3> HIDE DEF w
    <3> QED BY <3>1
  <2> QED BY <1>15, <2>1, <2>2, RegisterCases
<1>16. ASSUME NEW c \in Requests, Accept(c) PROVE OwnerRemains'
  <2>1. CASE UNCHANGED <<member, resigned>>
      BY <1>16, <2>1
  <2>2. CASE Claims(c)
    <3> DEFINE w == inv[req[c].inv].email
               o == inv[req[c].inv].role
    <3>1. w \in Users /\ \A v \in Users : member'[v] = IF v = w THEN o ELSE member[v]
        BY <1>16, <2>2, AcceptCases, ClaimFacts DEF Claimed
    <3>2. resigned' = (resigned \/ (member[w] = "OWNER" /\ o # "OWNER"))
        BY <1>16, <2>2, Zenon DEF Accept, Answered, Claims
    <3> HIDE DEF w, o
    <3> QED BY <3>1, <3>2
  <2> QED BY <1>16, <2>1, <2>2, AcceptCases
<1>17. ASSUME ExpireInvitations PROVE OwnerRemains'
    BY <1>17 DEF ExpireInvitations
<1>18. ASSUME NEW i \in Invitations, Age(i) PROVE OwnerRemains'
    BY <1>18 DEF Age
<1>19. CASE UNCHANGED vars
    BY <1>19 DEF vars
<1> QED BY <1>1, <1>2, <1>3, <1>4, <1>5, <1>6, <1>7, <1>8, <1>9, <1>10,
           <1>11, <1>12, <1>13, <1>14, <1>15, <1>16, <1>17, <1>18, <1>19 DEF Next

\* The steps of the three action properties.
Joins == \A u \in Users : member[u] = None /\ member'[u] # None =>
         \E i \in Invitations \ late :
            /\ inv[i].status = "PENDING" /\ inv'[i].status = "ACCEPTED"
            /\ inv[i].email = u /\ inv[i].role = member'[u]

Falls == \A u \in Users : member[u] = "OWNER" /\ member'[u] # "OWNER" =>
         \/ \E c \in Requests : At(c, "write") /\ req[c].who = u /\ Owner(c)
         \/ \E i \in Invitations : inv[i].email = u /\ inv'[i].status # inv[i].status

Settles == \A i \in Invitations :
         /\ inv[i].status \in {"ACCEPTED", "REVOKED", "EXPIRED"} => inv'[i] = inv[i]
         /\ inv[i].status # "ACCEPTED" /\ inv'[i].status = "ACCEPTED" => i \notin late

\* Only claiming an invitation makes a member.
LEMMA JoinStep ==
    TypeOK /\ Carried /\ Addressed /\ MembersHaveAccounts /\ Fresh
      /\ [Next]_vars => Joins
<1> SUFFICES ASSUME TypeOK, Carried, Addressed, MembersHaveAccounts, Fresh, [Next]_vars
             PROVE  Joins
    OBVIOUS
<1> USE MemberConstants, Names DEF TypeOK, Carried, Addressed, MembersHaveAccounts, Fresh, At, Joins
<1>1. ASSUME NEW c \in Requests, Enter(c) PROVE Joins
    BY <1>1 DEF Enter
<1>2. ASSUME NEW c \in Requests, MemberRead(c) PROVE Joins
    BY <1>2 DEF MemberRead
<1>3. ASSUME NEW c \in Requests, MemberWrite(c) PROVE Joins
  <2>1. member' = member \/ (~req[c].clash /\ member' = [member EXCEPT ![req[c].who] = req[c].role])
      BY <1>3, Zenon DEF MemberWrite
  <2>2. At(c, "write")
      BY <1>3 DEF MemberWrite
  <2> QED BY <2>1, <2>2
<1>4. ASSUME NEW c \in Requests, CreateRole(c) PROVE Joins
    BY <1>4 DEF CreateRole
<1>5. ASSUME NEW c \in Requests, UpdateRole(c) PROVE Joins
    BY <1>5 DEF UpdateRole
<1>6. ASSUME NEW c \in Requests, RemoveRole(c) PROVE Joins
    BY <1>6 DEF RemoveRole
<1>7. ASSUME NEW c \in Requests, DropRole(c) PROVE Joins
    BY <1>7 DEF DropRole
<1>8. ASSUME NEW c \in Requests, Invite(c) PROVE Joins
    BY <1>8 DEF Invite
<1>9. ASSUME NEW c \in Requests, LookUpMember(c) PROVE Joins
    BY <1>9 DEF LookUpMember
<1>10. ASSUME NEW c \in Requests, Supersede(c) PROVE Joins
    BY <1>10 DEF Supersede
<1>11. ASSUME NEW c \in Requests, Send(c) PROVE Joins
    BY <1>11 DEF Send
<1>12. ASSUME NEW c \in Requests, Revoke(c) PROVE Joins
    BY <1>12 DEF Revoke
<1>13. ASSUME NEW c \in Requests, Withdraw(c) PROVE Joins
    BY <1>13 DEF Withdraw
<1>14. ASSUME NEW c \in Requests, Present(c) PROVE Joins
    BY <1>14 DEF Present
<1>15. ASSUME NEW c \in Requests, Register(c) PROVE Joins
  <2>1. CASE UNCHANGED <<member, inv>>
      BY <1>15, <2>1
  <2>2. CASE Claims(c) /\ inv[req[c].inv].email \notin accounts
    <3>1. Claimed(c, req[c].inv, inv[req[c].inv].email, inv[req[c].inv].role)
        BY <1>15, <2>2, RegisterCases, ClaimFacts
    <3> QED BY <2>2, <3>1 DEF Claimed
  <2> QED BY <1>15, <2>1, <2>2, RegisterCases
<1>16. ASSUME NEW c \in Requests, Accept(c) PROVE Joins
  <2>1. CASE UNCHANGED <<member, inv>>
      BY <1>16, <2>1
  <2>2. CASE Claims(c) /\ accounts' = accounts
    <3>1. Claimed(c, req[c].inv, inv[req[c].inv].email, inv[req[c].inv].role)
        BY <1>16, <2>2, AcceptCases, ClaimFacts
    <3> QED BY <2>2, <3>1 DEF Claimed
  <2> QED BY <1>16, <2>1, <2>2, AcceptCases
<1>17. ASSUME ExpireInvitations PROVE Joins
    BY <1>17 DEF ExpireInvitations
<1>18. ASSUME NEW i \in Invitations, Age(i) PROVE Joins
    BY <1>18 DEF Age
<1>19. CASE UNCHANGED vars
    BY <1>19 DEF vars
<1> QED BY <1>1, <1>2, <1>3, <1>4, <1>5, <1>6, <1>7, <1>8, <1>9, <1>10,
           <1>11, <1>12, <1>13, <1>14, <1>15, <1>16, <1>17, <1>18, <1>19 DEF Next

\* Only Owners write over the row of an Owner.
LEMMA FallStep ==
    TypeOK /\ Carried /\ Addressed /\ MembersHaveAccounts /\ Fresh
      /\ [Next]_vars => Falls
<1> SUFFICES ASSUME TypeOK, Carried, Addressed, MembersHaveAccounts, Fresh, [Next]_vars
             PROVE  Falls
    OBVIOUS
<1> USE MemberConstants, Names DEF TypeOK, Carried, Addressed, MembersHaveAccounts, Fresh, At, Falls, Owner
<1>1. ASSUME NEW c \in Requests, Enter(c) PROVE Falls
    BY <1>1 DEF Enter
<1>2. ASSUME NEW c \in Requests, MemberRead(c) PROVE Falls
    BY <1>2 DEF MemberRead
<1>3. ASSUME NEW c \in Requests, MemberWrite(c) PROVE Falls
  <2>1. member' = member \/ (~req[c].clash /\ member' = [member EXCEPT ![req[c].who] = req[c].role])
      BY <1>3, Zenon DEF MemberWrite
  <2>2. At(c, "write")
      BY <1>3 DEF MemberWrite
  <2> QED BY <2>1, <2>2
<1>4. ASSUME NEW c \in Requests, CreateRole(c) PROVE Falls
    BY <1>4 DEF CreateRole
<1>5. ASSUME NEW c \in Requests, UpdateRole(c) PROVE Falls
    BY <1>5 DEF UpdateRole
<1>6. ASSUME NEW c \in Requests, RemoveRole(c) PROVE Falls
    BY <1>6 DEF RemoveRole
<1>7. ASSUME NEW c \in Requests, DropRole(c) PROVE Falls
    BY <1>7 DEF DropRole
<1>8. ASSUME NEW c \in Requests, Invite(c) PROVE Falls
    BY <1>8 DEF Invite
<1>9. ASSUME NEW c \in Requests, LookUpMember(c) PROVE Falls
    BY <1>9 DEF LookUpMember
<1>10. ASSUME NEW c \in Requests, Supersede(c) PROVE Falls
    BY <1>10 DEF Supersede
<1>11. ASSUME NEW c \in Requests, Send(c) PROVE Falls
    BY <1>11 DEF Send
<1>12. ASSUME NEW c \in Requests, Revoke(c) PROVE Falls
    BY <1>12 DEF Revoke
<1>13. ASSUME NEW c \in Requests, Withdraw(c) PROVE Falls
    BY <1>13 DEF Withdraw
<1>14. ASSUME NEW c \in Requests, Present(c) PROVE Falls
    BY <1>14 DEF Present
<1>15. ASSUME NEW c \in Requests, Register(c) PROVE Falls
  <2>1. CASE UNCHANGED <<member, inv>>
      BY <1>15, <2>1
  <2>2. CASE Claims(c) /\ inv[req[c].inv].email \notin accounts
    <3>1. Claimed(c, req[c].inv, inv[req[c].inv].email, inv[req[c].inv].role)
        BY <1>15, <2>2, RegisterCases, ClaimFacts
    <3> QED BY <2>2, <3>1 DEF Claimed
  <2> QED BY <1>15, <2>1, <2>2, RegisterCases
<1>16. ASSUME NEW c \in Requests, Accept(c) PROVE Falls
  <2>1. CASE UNCHANGED <<member, inv>>
      BY <1>16, <2>1
  <2>2. CASE Claims(c) /\ accounts' = accounts
    <3>1. Claimed(c, req[c].inv, inv[req[c].inv].email, inv[req[c].inv].role)
        BY <1>16, <2>2, AcceptCases, ClaimFacts
    <3> QED BY <2>2, <3>1 DEF Claimed
  <2> QED BY <1>16, <2>1, <2>2, AcceptCases
<1>17. ASSUME ExpireInvitations PROVE Falls
    BY <1>17 DEF ExpireInvitations
<1>18. ASSUME NEW i \in Invitations, Age(i) PROVE Falls
    BY <1>18 DEF Age
<1>19. CASE UNCHANGED vars
    BY <1>19 DEF vars
<1> QED BY <1>1, <1>2, <1>3, <1>4, <1>5, <1>6, <1>7, <1>8, <1>9, <1>10,
           <1>11, <1>12, <1>13, <1>14, <1>15, <1>16, <1>17, <1>18, <1>19 DEF Next

\* Only PENDING invitations change, and late ones are not accepted.
LEMMA SettleStep ==
    TypeOK /\ Carried /\ Addressed
      /\ [Next]_vars => Settles
<1> SUFFICES ASSUME TypeOK, Carried, Addressed, [Next]_vars
             PROVE  Settles
    OBVIOUS
<1> USE MemberConstants, Names DEF TypeOK, Settles
<1>1. ASSUME NEW c \in Requests, Enter(c) PROVE Settles
    BY <1>1 DEF Enter
<1>2. ASSUME NEW c \in Requests, MemberRead(c) PROVE Settles
    BY <1>2 DEF MemberRead
<1>3. ASSUME NEW c \in Requests, MemberWrite(c) PROVE Settles
    BY <1>3 DEF MemberWrite
<1>4. ASSUME NEW c \in Requests, CreateRole(c) PROVE Settles
    BY <1>4 DEF CreateRole
<1>5. ASSUME NEW c \in Requests, UpdateRole(c) PROVE Settles
    BY <1>5 DEF UpdateRole
<1>6. ASSUME NEW c \in Requests, RemoveRole(c) PROVE Settles
    BY <1>6 DEF RemoveRole
<1>7. ASSUME NEW c \in Requests, DropRole(c) PROVE Settles
    BY <1>7 DEF DropRole
<1>8. ASSUME NEW c \in Requests, Invite(c) PROVE Settles
    BY <1>8 DEF Invite
<1>9. ASSUME NEW c \in Requests, LookUpMember(c) PROVE Settles
    BY <1>9 DEF LookUpMember
<1>10. ASSUME NEW c \in Requests, Supersede(c) PROVE Settles
  <2>1. \A i \in Invitations : inv'[i] = inv[i] \/ (inv[i].status = "PENDING" /\ inv'[i].status # "ACCEPTED")
    <3>1. \A i \in Invitations : inv[i] \in InvitationType
        BY DEF TypeOK
    <3> QED BY <1>10, <3>1 DEF Supersede, Settle, InvitationType
  <2> QED BY <2>1
<1>11. ASSUME NEW c \in Requests, Send(c) PROVE Settles
  <2>1. \A i \in Invitations : inv'[i] = inv[i] \/ (inv[i].status = "none" /\ inv'[i].status = "PENDING")
      BY <1>11 DEF Send
  <2> QED BY <2>1
<1>12. ASSUME NEW c \in Requests, Revoke(c) PROVE Settles
    BY <1>12 DEF Revoke
<1>13. ASSUME NEW c \in Requests, Withdraw(c) PROVE Settles
  <2>1. \A i \in Invitations : inv'[i] = inv[i] \/ (inv[i].status = "PENDING" /\ inv'[i].status # "ACCEPTED")
    <3>1. \A i \in Invitations : inv[i] \in InvitationType
        BY DEF TypeOK
    <3> QED BY <1>13, <3>1 DEF Withdraw, Settle, InvitationType
  <2> QED BY <2>1
<1>14. ASSUME NEW c \in Requests, Present(c) PROVE Settles
  <2>1. CASE UNCHANGED inv
      BY <1>14, <2>1
  <2>2. ASSUME NEW i \in Invitations, Settle({i}, "EXPIRED") PROVE Settles
    <3>1. \A j \in Invitations : inv[j] \in InvitationType
        BY DEF TypeOK
    <3>2. \A j \in Invitations : inv'[j] = inv[j] \/ (inv[j].status = "PENDING" /\ inv'[j].status # "ACCEPTED")
        BY <2>2, <3>1 DEF Settle, InvitationType
    <3> QED BY <3>2
  <2> QED BY <1>14, <2>1, <2>2, Zenon DEF Present
<1>15. ASSUME NEW c \in Requests, Register(c) PROVE Settles
  <2>1. CASE UNCHANGED inv
      BY <1>15, <2>1
  <2>2. CASE Claims(c)
    <3> DEFINE i == req[c].inv
    <3>1. i \in Invitations \ late /\ inv[i].status = "PENDING"
        BY <1>15, <2>2, RegisterCases DEF Claims, Claimable, Carried, At
    <3>2. \A j \in Invitations \ {i} : inv'[j] = inv[j]
        BY <2>2, <3>1 DEF Claims
    <3> HIDE DEF i
    <3> QED BY <3>1, <3>2
  <2> QED BY <1>15, <2>1, <2>2, RegisterCases
<1>16. ASSUME NEW c \in Requests, Accept(c) PROVE Settles
  <2>1. CASE UNCHANGED inv
      BY <1>16, <2>1
  <2>2. CASE Claims(c)
    <3> DEFINE i == req[c].inv
    <3>1. i \in Invitations \ late /\ inv[i].status = "PENDING"
        BY <1>16, <2>2, AcceptCases DEF Claims, Claimable, Carried, At
    <3>2. \A j \in Invitations \ {i} : inv'[j] = inv[j]
        BY <2>2, <3>1 DEF Claims
    <3> HIDE DEF i
    <3> QED BY <3>1, <3>2
  <2> QED BY <1>16, <2>1, <2>2, AcceptCases
<1>17. ASSUME ExpireInvitations PROVE Settles
  <2>1. \A i \in Invitations : inv'[i] = inv[i] \/ (inv[i].status = "PENDING" /\ inv'[i].status # "ACCEPTED")
    <3>1. \A i \in Invitations : inv[i] \in InvitationType
        BY DEF TypeOK
    <3> QED BY <1>17, <3>1 DEF ExpireInvitations, Settle, InvitationType
  <2> QED BY <2>1
<1>18. ASSUME NEW i \in Invitations, Age(i) PROVE Settles
    BY <1>18 DEF Age
<1>19. CASE UNCHANGED vars
    BY <1>19 DEF vars
<1> QED BY <1>1, <1>2, <1>3, <1>4, <1>5, <1>6, <1>7, <1>8, <1>9, <1>10,
           <1>11, <1>12, <1>13, <1>14, <1>15, <1>16, <1>17, <1>18, <1>19 DEF Next

-----------------------------------------------------------------------------
(* The theorems.                                                           *)

IInv == /\ TypeOK /\ Carried /\ Addressed /\ BuiltInStays /\ MembersHaveAccounts
        /\ Fresh /\ SendersPower /\ RolesInUseStay /\ OwnerRemains

\* The organization starts with an Owner, and without invitations or requests.
LEMMA InitHolds == Init => IInv
<1> SUFFICES ASSUME Init PROVE IInv
    OBVIOUS
<1> USE MemberConstants, Names DEF Init
<1>1. Unused \in InvitationType /\ Idle \in RequestType /\ Unused.status = "none" /\ Idle.pc = "idle"
    BY DEF Unused, InvitationType, Idle, Request, RequestType, RequestPc
<1>2. (\A i \in Invitations : inv[i] = Unused) /\ \A c \in Requests : req[c] = Idle
    OBVIOUS
<1>3. TypeOK
    BY <1>1 DEF TypeOK, Roles
<1>4. Carried /\ Addressed /\ Fresh /\ SendersPower
    BY <1>1, <1>2 DEF Carried, Addressed, Fresh, SendersPower, At
<1>5. BuiltInStays /\ MembersHaveAccounts /\ OwnerRemains
    BY DEF BuiltInStays, MembersHaveAccounts, OwnerRemains
<1>6. RolesInUseStay
    BY <1>1, <1>2 DEF RolesInUseStay, Roles
<1> QED BY <1>3, <1>4, <1>5, <1>6 DEF IInv

\* No step breaks a part of the inductive invariant.
LEMMA StepHolds == IInv /\ [Next]_vars => IInv'
BY TypeStep, CarriedStep, BuiltInStep, AccountsStep, FreshStep, PowerStep, RolesStep, OwnerStep
   DEF IInv

LEMMA Invariant == Spec => []IInv
BY InitHolds, StepHolds, PTL DEF Spec

\* Every variable keeps its type.
THEOREM Typing == Spec => []TypeOK
<1>1. IInv => TypeOK
    BY DEF IInv
<1> QED BY <1>1, Invariant, PTL

\* The SERIALIZABLE transactions of updateMember and removeMember never leave the organization
\* without an Owner; only an Owner who accepts an invitation to another role can.
THEOREM OwnersRemain == Spec => []OwnerRemains
<1>1. IInv => OwnerRemains
    BY DEF IInv
<1> QED BY <1>1, Invariant, PTL

\* A transaction that takes the role of an Owner away was decided by an Owner, also when the
\* target was made an Owner after it was read.
THEOREM OwnersFallByOwners == Spec => OwnersByOwners
<1>1. IInv /\ [Next]_vars => Falls
    BY FallStep DEF IInv
<1>2. IInv /\ [Next]_vars => [Falls]_vars
    BY <1>1
<1> QED BY <1>2, Invariant, PTL DEF Spec, OwnersByOwners, Falls

\* Whoever becomes a member has just used an invitation to their address, PENDING and in time.
THEOREM Joining == Spec => JoinByInvitation
<1>1. IInv /\ [Next]_vars => Joins
    BY JoinStep DEF IInv
<1>2. IInv /\ [Next]_vars => [Joins]_vars
    BY <1>1
<1> QED BY <1>2, Invariant, PTL DEF Spec, JoinByInvitation, Joins

\* claimInvitation, revokeInvitation and the expiry never undo one another.
THEOREM Settlement == Spec => InvitationsSettle
<1>1. IInv /\ [Next]_vars => Settles
    BY SettleStep DEF IInv
<1>2. IInv /\ [Next]_vars => [Settles]_vars
    BY <1>1
<1> QED BY <1>2, Invariant, PTL DEF Spec, InvitationsSettle, Settles

\* assertRoleAssignable keeps custom roles from being delegated, so that no later change of a
\* role makes an invitation worth more than its sender.
THEOREM DelegationHolds == Spec => []InvitesWithinPower
<1>1. IInv => InvitesWithinPower
  <2> SUFFICES ASSUME IInv, NEW i \in Invitations, inv[i].status = "PENDING"
               PROVE  perms[inv[i].role] \subseteq inv[i].cap
      BY DEF InvitesWithinPower
  <2>1. inv[i].role \in Roles
      BY DEF IInv, Addressed
  <2>2. perms[inv[i].role] \subseteq Permissions
      BY <2>1 DEF IInv, TypeOK
  <2> QED BY <2>2 DEF IInv, SendersPower
<1> QED BY <1>1, Invariant, PTL

\* The foreign keys close the window between counting the members of a role and deleting it.
THEOREM RolesStay == Spec => []RolesInUseStay
<1>1. IInv => RolesInUseStay
    BY DEF IInv
<1> QED BY <1>1, Invariant, PTL
=============================================================================
