----------------------------- MODULE Membership -----------------------------
(***************************************************************************)
(* Who belongs to a workspace, and which connected accounts they see:      *)
(* app/api/workspace/members, .../members/account-access,                  *)
(* .../invitations/accept, lib/workspace-access.ts and the account         *)
(* deletion of app/api/mobile/account.                                     *)
(*                                                                         *)
(* Every handler reads the caller's role first and the member it is about  *)
(* next, and writes by row id in the end; between two of these steps the   *)
(* other requests run.  A user stands for its e-mail address as well, and  *)
(* an account for an Instagram account or a Telegram bot.  MEMBER and      *)
(* EDITOR differ for campaigns only; MEMBER stands for both.               *)
(***************************************************************************)
EXTENDS Naturals, FiniteSets, FiniteSetsExt

CONSTANTS Users,        \* the people, the owner among them
          Owner,
          Accounts,     \* accounts the workspace may connect
          Requests,     \* HTTP requests that run at the same time
          MaxInvites    \* bound on the invitations sent

ASSUME MembershipAssumption ==
    /\ IsFiniteSet(Users) /\ Owner \in Users
    /\ IsFiniteSet(Accounts) /\ IsFiniteSet(Requests)
    /\ MaxInvites \in Nat

VARIABLES
    people,     \* User rows
    exists,     \* the Workspace row
    member,     \* WorkspaceMember and MemberAccountAccess
    invite,     \* WorkspaceInvitation, one per address
    connected,  \* the accounts connected now
    req,        \* the requests
    issued,     \* observer: invitations sent to an address
    joins,      \* observer: invitations an address used
    given,      \* observer: accounts a manager let somebody see since they joined
    lost        \* observer: members a deleted workspace had since before the check

observers == <<issued, joins, given, lost>>
vars      == <<people, exists, member, invite, connected, req, observers>>

Managers == {"OWNER", "ADMIN"}
Roles    == Managers \cup {"MEMBER"}

Offered  == {"ADMIN", "MEMBER"}

NoMember == [role |-> "none", restricted |-> TRUE, grants |-> {}]
NoInvite == [status |-> "none", role |-> "MEMBER", expired |-> FALSE]
Idle     == [at |-> "idle", by |-> Owner, as |-> "none", target |-> Owner, seen |-> "none",
             wanted |-> "none", gone |-> FALSE, joined |-> {}]
Steps    == {"idle", "context", "patch", "remove", "access", "claim", "expired", "delete"}

Members    == {u \in Users : member[u].role # "none"}
At(r, s)   == req[r].at = s
Answer(r)  == req' = [req EXCEPT ![r] = Idle]

TypeOK ==
    /\ people \subseteq Users /\ exists \in BOOLEAN
    /\ member \in [Users -> [role : Roles \cup {"none"}, restricted : BOOLEAN,
                             grants : SUBSET Accounts]]
    /\ invite \in [Users -> [status : {"none", "PENDING", "ACCEPTED", "EXPIRED", "REVOKED"},
                             role : {"ADMIN", "MEMBER"}, expired : BOOLEAN]]
    /\ connected \subseteq Accounts
    /\ req \in [Requests -> [at : Steps, by : Users, as : Roles \cup {"none"}, target : Users,
                             seen : Roles \cup {"none"}, wanted : Offered \cup {"none"},
                             gone : BOOLEAN, joined : SUBSET Users]]
    /\ issued \in [Users -> 0..MaxInvites] /\ joins \in [Users -> Nat]
    /\ given \in [Users -> SUBSET Accounts]
    /\ lost \subseteq Users

Init ==
    /\ people = Users /\ exists = TRUE
    /\ member = [u \in Users |-> IF u = Owner THEN [NoMember EXCEPT !.role = "OWNER"] ELSE NoMember]
    /\ invite = [u \in Users |-> NoInvite]
    /\ connected = Accounts
    /\ req = [r \in Requests |-> Idle]
    /\ issued = [u \in Users |-> 0] /\ joins = [u \in Users |-> 0]
    /\ given = [u \in Users |-> {}] /\ lost = {}

-----------------------------------------------------------------------------
(* lib/workspace-access.ts                                                 *)

CanManageWorkspace(role) == role \in Managers

\* getAccountAccessScope: the accounts somebody sees.
Scope(m, here) ==
    IF m.role = "none" THEN {}
    ELSE IF CanManageWorkspace(m.role) \/ (~m.restricted /\ m.grants = {}) THEN here
    ELSE m.grants \cap here

\* getCurrentWorkspaceContext and the role check every handler starts with.
Context(r, u) ==
    /\ At(r, "idle") /\ u \in Members
    /\ CanManageWorkspace(member[u].role)
    /\ req' = [req EXCEPT ![r] = [Idle EXCEPT !.at = "context", !.by = u, !.as = member[u].role]]
    /\ UNCHANGED <<people, exists, member, invite, connected, observers>>

-----------------------------------------------------------------------------
(* app/api/workspace/members                                               *)

\* POST: only the owner creates admins.  An address that was invited before
\* gets a new token, a new role and another 14 days.
Invite(r, v, role) ==
    /\ At(r, "context") /\ exists
    /\ role = "ADMIN" => req[r].as = "OWNER"
    /\ MapThenSumSet(LAMBDA u : issued[u], Users) < MaxInvites
    /\ invite' = [invite EXCEPT ![v] = [status |-> "PENDING", role |-> role, expired |-> FALSE]]
    /\ issued' = [issued EXCEPT ![v] = @ + 1]
    /\ Answer(r)
    /\ UNCHANGED <<people, exists, member, connected, joins, given, lost>>

\* DELETE with an invitation: only a PENDING one is revoked.
Revoke(r, v) ==
    /\ At(r, "context") /\ invite[v].status = "PENDING"
    /\ invite' = [invite EXCEPT ![v].status = "REVOKED"]
    /\ Answer(r)
    /\ UNCHANGED <<people, exists, member, connected, observers>>

Found(r, v, step, wanted) ==
    /\ At(r, "context") /\ v \in Members
    /\ req' = [req EXCEPT ![r].at = step, ![r].target = v, ![r].seen = member[v].role,
                          ![r].wanted = wanted]
    /\ UNCHANGED <<people, exists, member, invite, connected, observers>>

\* Admins are peers: only the owner promotes to, or changes, an admin.
MayPatch(role, v, wanted) ==
    /\ member[v].role # "OWNER"
    /\ role # "OWNER" => member[v].role # "ADMIN" /\ wanted # "ADMIN"

FindToPatch(r, v, wanted) ==
    /\ MayPatch(req[r].as, v, wanted)
    /\ Found(r, v, "patch", wanted)

\* The row is written by its id, whatever has happened to it since.  A row that
\* is gone makes the update throw.
Patch(r) ==
    /\ At(r, "patch")
    /\ IF req[r].gone THEN UNCHANGED member
       ELSE member' = [member EXCEPT ![req[r].target] =
              [role |-> req[r].wanted, grants |-> @.grants,
               restricted |-> @.restricted \/ (req[r].seen = "ADMIN" /\ req[r].wanted # "ADMIN")]]
    /\ Answer(r)
    /\ UNCHANGED <<people, exists, invite, connected, observers>>

FindToRemove(r, v) ==
    /\ v # req[r].by /\ member[v].role # "OWNER"
    /\ member[v].role = "ADMIN" => req[r].as = "OWNER"
    /\ Found(r, v, "remove", "none")

\* A membership ends and its grants cascade; other requests about it find the
\* row gone.
WithoutMember(v) ==
    /\ member' = [member EXCEPT ![v] = NoMember]
    /\ given' = [given EXCEPT ![v] = {}]

Remove(r) ==
    /\ At(r, "remove")
    /\ IF req[r].gone THEN UNCHANGED <<member, given>> ELSE WithoutMember(req[r].target)
    /\ req' = [q \in Requests |-> IF q = r THEN Idle
                                  ELSE [req[q] EXCEPT !.gone = @ \/ req[q].target = req[r].target]]
    /\ UNCHANGED <<people, exists, invite, connected, issued, joins, lost>>

-----------------------------------------------------------------------------
(* app/api/workspace/members/account-access                                *)

FindToScope(r, v) ==
    /\ member[v].role \notin Managers
    /\ Found(r, v, "access", "none")

\* PUT: the flag and the rows are replaced in one transaction.
SetAccess(r, unrestricted, selected) ==
    /\ At(r, "access") /\ ~req[r].gone
    /\ selected \subseteq connected
    /\ LET v == req[r].target IN
          /\ member' = [member EXCEPT ![v].restricted = ~unrestricted,
                                      ![v].grants = IF unrestricted THEN {} ELSE selected]
          /\ given' = [given EXCEPT ![v] = IF unrestricted THEN Accounts ELSE @ \cup selected]
    /\ Answer(r)
    /\ UNCHANGED <<people, exists, invite, connected, issued, joins, lost>>

SetAccessFails(r) ==
    /\ At(r, "access") /\ req[r].gone
    /\ Answer(r)
    /\ UNCHANGED <<people, exists, member, invite, connected, observers>>

\* An account is connected, or disconnected with its grants (cascade).
Connect(a) ==
    /\ exists /\ a \notin connected
    /\ connected' = connected \cup {a}
    /\ UNCHANGED <<people, exists, member, invite, req, observers>>

Disconnect(a) ==
    /\ exists /\ a \in connected
    /\ connected' = connected \ {a}
    /\ member' = [u \in Users |-> [member[u] EXCEPT !.grants = @ \ {a}]]
    /\ UNCHANGED <<people, exists, invite, req, observers>>

-----------------------------------------------------------------------------
(* app/api/workspace/invitations/accept                                    *)

\* The invitation as it is read: PENDING, the caller's address, in time or not.
OpenInvitation(r, u) ==
    /\ At(r, "idle") /\ u \in people
    /\ invite[u].status = "PENDING"
    /\ req' = [req EXCEPT ![r] = [Idle EXCEPT !.by = u, !.wanted = invite[u].role,
                                    !.at = IF invite[u].expired THEN "expired" ELSE "claim"]]
    /\ UNCHANGED <<people, exists, member, invite, connected, observers>>

\* Written by id alone: an invitation sent anew in between expires with it.
MarkExpired(r) ==
    /\ At(r, "expired")
    /\ invite' = [invite EXCEPT ![req[r].by].status = IF @ = "none" THEN @ ELSE "EXPIRED"]
    /\ Answer(r)
    /\ UNCHANGED <<people, exists, member, connected, observers>>

\* Somebody who is a member already keeps what they have.
Joined(u, role) ==
    IF u \in Members THEN UNCHANGED member
    ELSE member' = [member EXCEPT ![u] = [NoMember EXCEPT !.role = role]]

\* Seeded bug: the claim trusts the status that was read before.
ClaimAsRead(r) ==
    /\ At(r, "claim") /\ req[r].by \in people /\ exists
    /\ invite' = [invite EXCEPT ![req[r].by].status = "ACCEPTED"]
    /\ joins' = [joins EXCEPT ![req[r].by] = @ + 1]
    /\ Joined(req[r].by, req[r].wanted)
    /\ Answer(r)
    /\ UNCHANGED <<people, exists, connected, issued, given, lost>>

\* The transaction: the conditional claim, then the membership with the role as
\* it was read.  Requests that count members have somebody new to miss.
Claim(r) ==
    LET u == req[r].by IN
    /\ At(r, "claim") /\ invite[u].status = "PENDING" /\ ~invite[u].expired
    /\ u \in people
    /\ invite' = [invite EXCEPT ![u].status = "ACCEPTED"]
    /\ joins' = [joins EXCEPT ![u] = @ + 1]
    /\ Joined(u, req[r].wanted)
    /\ req' = [q \in Requests |-> IF q = r THEN Idle
                                  ELSE IF At(q, "delete") THEN [req[q] EXCEPT !.joined = @ \cup {u}]
                                  ELSE req[q]]
    /\ UNCHANGED <<people, exists, connected, issued, given, lost>>

\* Zero rows: somebody else claimed it, it was revoked, or its time is over.
ClaimFails(r) ==
    LET u == req[r].by IN
    /\ At(r, "claim") /\ (invite[u].status # "PENDING" \/ invite[u].expired \/ u \notin people)
    /\ Answer(r)
    /\ UNCHANGED <<people, exists, member, invite, connected, observers>>

\* Fourteen days pass.
Expire(u) ==
    /\ invite[u].status = "PENDING" /\ ~invite[u].expired
    /\ invite' = [invite EXCEPT ![u].expired = TRUE]
    /\ UNCHANGED <<people, exists, member, connected, req, observers>>

-----------------------------------------------------------------------------
(* DELETE of app/api/mobile/account                                        *)

\* An owned workspace with other members blocks the deletion.
BeginDelete(r, u) ==
    /\ At(r, "idle") /\ u \in people
    /\ u = Owner => Cardinality(Members) <= 1
    /\ req' = [req EXCEPT ![r] = [Idle EXCEPT !.at = "delete", !.by = u]]
    /\ UNCHANGED <<people, exists, member, invite, connected, observers>>

\* After the bots' webhooks: the User row goes, and by cascade the memberships
\* and the owned workspace with all that is in it.
Delete(r) ==
    LET u == req[r].by
        gone == IF u = Owner THEN Users ELSE {u} IN
    /\ At(r, "delete")
    /\ people' = people \ {u}
    /\ exists' = (exists /\ u # Owner)
    /\ member' = [v \in Users |-> IF v \in gone THEN NoMember ELSE member[v]]
    /\ given' = [v \in Users |-> IF v \in gone THEN {} ELSE given[v]]
    /\ invite' = [v \in Users |-> IF u = Owner THEN NoInvite ELSE invite[v]]
    /\ connected' = IF u = Owner THEN {} ELSE connected
    /\ lost' = IF u = Owner THEN lost \cup (Members \ (req[r].joined \cup {Owner})) ELSE lost
    /\ req' = [q \in Requests |-> IF q = r THEN Idle
                                  ELSE [req[q] EXCEPT !.gone = @ \/ req[q].target \in gone]]
    /\ UNCHANGED <<issued, joins>>

-----------------------------------------------------------------------------

Manage(r) ==
    \/ \E u \in Users : Context(r, u) \/ Revoke(r, u) \/ FindToRemove(r, u) \/ FindToScope(r, u)
    \/ \E v \in Users, role \in Offered : Invite(r, v, role) \/ FindToPatch(r, v, role)
    \/ Patch(r) \/ Remove(r) \/ SetAccessFails(r)
    \/ \E selected \in SUBSET Accounts : SetAccess(r, FALSE, selected)
    \/ SetAccess(r, TRUE, {})

Accept(r) ==
    \/ \E u \in Users : OpenInvitation(r, u)
    \/ MarkExpired(r) \/ Claim(r) \/ ClaimFails(r)

Leave(r) == (\E u \in Users : BeginDelete(r, u)) \/ Delete(r)

Next ==
    \/ \E r \in Requests : Manage(r) \/ Accept(r) \/ Leave(r)
    \/ \E a \in Accounts : Connect(a) \/ Disconnect(a)
    \/ \E u \in Users : Expire(u)

Spec == Init /\ [][Next]_vars

-----------------------------------------------------------------------------
(* Properties                                                              *)

\* A workspace has exactly one owner, the user its row names, whatever roles
\* are offered, changed, accepted or removed meanwhile.
OneOwner ==
    /\ exists => member[Owner].role = "OWNER"
    /\ \A u \in Users : member[u].role = "OWNER" => u = Owner /\ exists

\* Every invitation lets somebody in at most once, however many requests open
\* it at the same time and whether or not it was revoked in between.
InvitationsAreUsedOnce == \A u \in Users : joins[u] <= issued[u]

\* A member without a manager's role sees an account only if a manager let
\* them, since they joined: a removed member who comes back starts with nothing.
AccessWasGiven ==
    \A u \in Users : member[u].role = "MEMBER" => Scope(member[u], connected) \subseteq given[u]

\* A workspace is deleted with its owner only; whoever loses it joined after
\* the owner's request had counted the members.
NobodyIsLeftBehind == lost = {}

\* Only the owner, or a request that read the member's role before they became
\* an admin, takes the role of an admin away from somebody who stays.
AdminsArePeers ==
    [][\A u \in Users : member[u].role = "ADMIN" /\ member'[u].role # "ADMIN" =>
          \/ u \notin people' \/ ~exists'
          \/ \E r \in Requests : /\ req[r].at \in {"patch", "remove"} /\ req[r].target = u
                                 /\ req'[r] = Idle
                                 /\ req[r].as = "OWNER" \/ req[r].seen # "ADMIN"]_vars

\* Losing an account never lets anybody see more of the others.
DisconnectNeverWidens ==
    [][\A a \in Accounts : a \in connected /\ exists' /\ connected' = connected \ {a} =>
          \A u \in Users : Scope(member'[u], connected') \subseteq Scope(member[u], connected)]_vars

\* Roles and access, with requests between whose statements others run: one
\* owner, admins only the owner demotes, an invitation used once, access to
\* accounts only as given and never widened, nobody's workspace deleted with
\* somebody else's account.
MembershipIsSound ==
    /\ [](TypeOK /\ OneOwner /\ InvitationsAreUsedOnce /\ AccessWasGiven /\ NobodyIsLeftBehind)
    /\ AdminsArePeers
    /\ DisconnectNeverWidens

=============================================================================
