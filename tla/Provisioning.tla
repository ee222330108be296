---------------------------- MODULE Provisioning ----------------------------
(***************************************************************************)
(* Who signs in as whom: lib/auth/provision.ts and the look-ups of         *)
(* lib/auth/identity.ts, ensureWorkspaceForUser of lib/workspace.ts, and   *)
(* the magic link of the web (lib/auth.ts), whose adapter knows nothing of *)
(* mailboxes.                                                              *)
(*                                                                         *)
(* A sign-in looks for the provider account, the address and the mailbox,  *)
(* creates what is missing and makes sure there is a workspace, one        *)
(* statement after the other, with nothing around them.  User and          *)
(* workspace rows are numbered in the order they are created.              *)
(***************************************************************************)
EXTENDS Naturals, FiniteSets, Sequences

CONSTANTS Addresses, MailboxOf,  \* e-mail addresses, and canonicalizeEmail
          Subs, AddressOf,       \* Google and Apple accounts, and their verified address
          NoAddress,             \* what an account with no verified address has
          SignIns,               \* requests that run at the same time
          MaxUsers, MaxWorkspaces  \* bounds on the rows ever created

ASSUME ProvisioningAssumption ==
    /\ NoAddress \notin Addresses /\ "none" \notin Subs
    /\ AddressOf \in [Subs -> Addresses \cup {NoAddress}]
    /\ DOMAIN MailboxOf = Addresses \cup {NoAddress}
    /\ \A a \in Addresses : MailboxOf[a] # MailboxOf[NoAddress]
    /\ MaxUsers \in Nat /\ MaxWorkspaces \in Nat

VARIABLES
    user,       \* User rows, the deleted ones among them
    link,       \* Account rows: the user of a provider account
    workspace,  \* Workspace rows, by their owner
    signin,     \* the requests
    stranded    \* observer: users whose sign-in died or failed before its account was linked

provisionVars == <<user, link, workspace, signin, stranded>>

UserIds      == 1..MaxUsers
WorkspaceIds == 1..MaxWorkspaces
NoSignIn     == [at |-> "idle", web |-> FALSE, address |-> NoAddress, sub |-> "none", user |-> 0,
                 knew |-> {}]

ProvisionTypeOK ==
    /\ user \in Seq([address : Addresses \cup {NoAddress}, known : BOOLEAN, alive : BOOLEAN,
                     web : BOOLEAN, knew : SUBSET UserIds])
    /\ Len(user) <= MaxUsers
    /\ link \in [Subs -> 0..MaxUsers]
    /\ \A s \in Subs : link[s] # 0 => user[link[s]].alive
    /\ workspace \in Seq([owner : 0..MaxUsers, knew : SUBSET WorkspaceIds])
    /\ Len(workspace) <= MaxWorkspaces
    /\ signin \in [SignIns -> [at : {"idle", "exact", "mailbox", "create", "canonical", "link",
                                     "look", "workspace"},
                               web : BOOLEAN, address : Addresses \cup {NoAddress},
                               sub : Subs \cup {"none"}, user : 0..MaxUsers,
                               knew : SUBSET (UserIds \cup WorkspaceIds)]]
    /\ stranded \subseteq UserIds

ProvisionInit ==
    /\ user = << >> /\ workspace = << >>
    /\ link = [s \in Subs |-> 0]
    /\ signin = [p \in SignIns |-> NoSignIn]
    /\ stranded = {}

Alive        == {i \in DOMAIN user : user[i].alive}
SignInAt(p, step) == signin[p].at = step
Owned(i)     == {w \in DOMAIN workspace : workspace[w].owner = i}

\* ensureWorkspaceForUser is called with the user, and with nothing else.
Looks(p, i) == signin' = [signin EXCEPT ![p] = [NoSignIn EXCEPT !.at = "look", !.user = i]]

\* After the user is found or created: a provider account is linked, anybody
\* else goes on to their workspace.
Resolved(p, i) ==
    IF signin[p].sub = "none" THEN Looks(p, i)
    ELSE signin' = [signin EXCEPT ![p] = [NoSignIn EXCEPT !.at = "link", !.sub = signin[p].sub, !.user = i]]

\* The request throws, or dies.
Fails(p) == signin' = [signin EXCEPT ![p] = NoSignIn]

\* provisionUserByEmail, and the magic link of the web.
SignInByEmail(p, a, web) ==
    /\ SignInAt(p, "idle")
    /\ signin' = [signin EXCEPT ![p] = [NoSignIn EXCEPT !.at = "exact", !.address = a, !.web = web]]
    /\ UNCHANGED <<user, link, workspace, stranded>>

\* provisionUserByGoogleAccount, provisionUserByAppleAccount: the account first.
SignInByAccount(p, s) ==
    /\ SignInAt(p, "idle")
    /\ IF link[s] # 0 THEN Looks(p, link[s])
       ELSE signin' = [signin EXCEPT ![p] =
                [NoSignIn EXCEPT !.address = AddressOf[s], !.sub = s,
                                 !.at = IF AddressOf[s] = NoAddress THEN "create" ELSE "exact"]]
    /\ UNCHANGED <<user, link, workspace, stranded>>

\* findUserByEmail: the exact address.  The web's adapter looks no further, and
\* signs an existing user in without a look at their workspace.
FindExact(p) ==
    LET found == {i \in Alive : user[i].address = signin[p].address} IN
    /\ SignInAt(p, "exact")
    /\ IF found # {}
       THEN IF signin[p].web THEN Fails(p) ELSE \E i \in found : Resolved(p, i)
       ELSE signin' = [signin EXCEPT ![p].at = IF signin[p].web THEN "create" ELSE "mailbox"]
    /\ UNCHANGED <<user, link, workspace, stranded>>

Known(address) == {i \in Alive : user[i].known /\ MailboxOf[user[i].address] = MailboxOf[address]}

\* The oldest user of the mailbox.
FindMailbox(p) ==
    LET found == Known(signin[p].address) IN
    /\ SignInAt(p, "mailbox")
    /\ IF found # {} THEN Resolved(p, CHOOSE i \in found : \A j \in found : i <= j)
       ELSE signin' = [signin EXCEPT ![p].at = "create",
                                    ![p].knew = {i \in Alive : user[i].known}]
    /\ UNCHANGED <<user, link, workspace, stranded>>

\* The unique address makes a second creation throw.  The web's row gets its
\* mailbox later.
CreateUser(p) ==
    LET a == signin[p].address IN
    /\ SignInAt(p, "create")
    /\ \/ /\ a # NoAddress /\ \E i \in Alive : user[i].address = a
          /\ Fails(p)
          /\ UNCHANGED user
       \/ /\ a = NoAddress \/ \A i \in Alive : user[i].address # a
          /\ Len(user) < MaxUsers
          /\ user' = Append(user, [address |-> a, known |-> a # NoAddress /\ ~signin[p].web,
                                   alive |-> TRUE, web |-> signin[p].web, knew |-> signin[p].knew])
          /\ IF signin[p].web
             THEN signin' = [signin EXCEPT ![p].user = Len(user) + 1, ![p].at = "canonical"]
             ELSE Resolved(p, Len(user) + 1)
    /\ UNCHANGED <<link, workspace, stranded>>

\* events.createUser
SetCanonical(p) ==
    LET i == signin[p].user IN
    /\ SignInAt(p, "canonical")
    /\ IF user[i].alive
       THEN /\ user' = [user EXCEPT ![i].known = TRUE]
            /\ Looks(p, i)
       ELSE Fails(p) /\ UNCHANGED user
    /\ UNCHANGED <<link, workspace, stranded>>

\* Seeded bug: a new account is not linked to the user it created.
LinkLater(p) ==
    /\ SignInAt(p, "link")
    /\ Looks(p, signin[p].user)
    /\ UNCHANGED <<user, link, workspace, stranded>>

\* account.create: a second link of the account, or a user that is gone, throws.
Link(p) ==
    LET i == signin[p].user
        s == signin[p].sub IN
    /\ SignInAt(p, "link")
    /\ IF user[i].alive /\ link[s] = 0
       THEN /\ link' = [link EXCEPT ![s] = i]
            /\ Looks(p, i)
            /\ UNCHANGED stranded
       ELSE Fails(p) /\ stranded' = stranded \cup {i} /\ UNCHANGED link
    /\ UNCHANGED <<user, workspace>>

\* Any request of a user with no workspace ends in ensureWorkspaceForUser too.
Request(p, i) ==
    /\ SignInAt(p, "idle") /\ i \in Alive
    /\ Looks(p, i)
    /\ UNCHANGED <<user, link, workspace, stranded>>

\* ensureWorkspaceForUser looks for a membership, then creates.
LookForWorkspace(p) ==
    /\ SignInAt(p, "look")
    /\ IF Owned(signin[p].user) # {} THEN Fails(p)
       ELSE signin' = [signin EXCEPT ![p].at = "workspace", ![p].knew = DOMAIN workspace]
    /\ UNCHANGED <<user, link, workspace, stranded>>

CreateWorkspace(p) ==
    LET i == signin[p].user IN
    /\ SignInAt(p, "workspace")
    /\ user[i].alive => Len(workspace) < MaxWorkspaces
    /\ workspace' = IF user[i].alive THEN Append(workspace, [owner |-> i, knew |-> signin[p].knew])
                    ELSE workspace
    /\ Fails(p)
    /\ UNCHANGED <<user, link, stranded>>

\* The account is deleted: links and owned workspaces go by cascade.
DeleteUser(i) ==
    /\ i \in Alive
    /\ user' = [user EXCEPT ![i].alive = FALSE]
    /\ link' = [s \in Subs |-> IF link[s] = i THEN 0 ELSE link[s]]
    /\ workspace' = [w \in DOMAIN workspace |->
                        IF workspace[w].owner = i THEN [workspace[w] EXCEPT !.owner = 0]
                        ELSE workspace[w]]
    /\ UNCHANGED <<signin, stranded>>

\* The server dies, or the database throws.
SignInDies(p) ==
    /\ ~SignInAt(p, "idle")
    /\ stranded' = IF SignInAt(p, "link") THEN stranded \cup {signin[p].user} ELSE stranded
    /\ Fails(p)
    /\ UNCHANGED <<user, link, workspace>>

ProvisionNext ==
    \/ \E p \in SignIns :
          \/ \E a \in Addresses, web \in BOOLEAN : SignInByEmail(p, a, web)
          \/ \E s \in Subs : SignInByAccount(p, s)
          \/ \E i \in UserIds : Request(p, i)
          \/ FindExact(p) \/ FindMailbox(p) \/ CreateUser(p) \/ SetCanonical(p) \/ Link(p)
          \/ LookForWorkspace(p) \/ CreateWorkspace(p) \/ SignInDies(p)
    \/ \E i \in UserIds : DeleteUser(i)

ProvisionSpec == ProvisionInit /\ [][ProvisionNext]_provisionVars

-----------------------------------------------------------------------------
(* Properties                                                              *)

\* identity.ts: a mailbox belongs to one user.  A second one is the work of the
\* web's magic link, or of a sign-in that looked before the first one's mailbox
\* was known.
TwinsAreExplained ==
    \A i, j \in Alive :
        i < j /\ user[i].address # NoAddress /\ MailboxOf[user[i].address] = MailboxOf[user[j].address]
            => user[j].web \/ i \notin user[j].knew

\* A user gets a second workspace only from a request that had looked before the
\* first one was there.
OnlyRacesDuplicateWorkspaces ==
    \A v, w \in DOMAIN workspace :
        v < w /\ workspace[v].owner # 0 /\ workspace[v].owner = workspace[w].owner
            => v \notin workspace[w].knew

\* Nobody can sign in as a user with neither an address nor a linked account:
\* such a row is left by a sign-in that died, or lost a race, before the link.
UnreachableUsersAreExplained ==
    \A i \in Alive : user[i].address = NoAddress /\ (\A s \in Subs : link[s] # i) =>
        i \in stranded \/ \E p \in SignIns : SignInAt(p, "link") /\ signin[p].user = i

\* A provider account signs in as the user it was linked to until they are gone.
LinksAreStable ==
    [][\A s \in Subs : link[s] # 0 /\ link'[s] # link[s] => ~user'[link[s]].alive]_provisionVars

\* Check-then-create of users, links and workspaces: duplicates and users nobody
\* can reach come only of named races, and a linked account stays linked.
IdentitiesAreSound ==
    /\ [](/\ ProvisionTypeOK
          /\ TwinsAreExplained
          /\ OnlyRacesDuplicateWorkspaces
          /\ UnreachableUsersAreExplained)
    /\ LinksAreStable

=============================================================================
