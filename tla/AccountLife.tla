---------------------------- MODULE AccountLife -----------------------------
(***************************************************************************)
(* The life of an account after sign-in: mobile sessions                   *)
(* (lib/auth/mobile-session.ts, lib/auth/bearer.ts), the one verified      *)
(* phone (lib/auth/phone-verification.ts), the direct messages of its own  *)
(* workspace, and its deletion (app/api/mobile/account), which leaves a    *)
(* claim on this month's allowance with the phone and the mailbox          *)
(* (lib/auth/identity.ts).                                                 *)
(*                                                                         *)
(* A user is a row: somebody who signs up again is another one.  All       *)
(* happens in one calendar month, and every user owns one workspace on the *)
(* free plan.                                                              *)
(***************************************************************************)
EXTENDS Naturals, FiniteSets, FiniteSetsExt

CONSTANTS Rows,          \* User rows
          MailboxOfRow,  \* the mailbox of each
          Phones, NoPhone,
          FreeLimit,     \* messages of the free plan in a month
          Sessions,      \* Session rows that may be created
          Jobs           \* requests that run at the same time

ASSUME AccountLifeAssumption ==
    /\ IsFiniteSet(Rows) /\ IsFiniteSet(Phones) /\ IsFiniteSet(Sessions) /\ IsFiniteSet(Jobs)
    /\ NoPhone \notin Phones /\ FreeLimit \in Nat
    /\ DOMAIN MailboxOfRow = Rows

VARIABLES
    row,      \* the users: whether they are there, their phone and their messages
    claim,    \* IdentityUsageClaim
    session,  \* Session and MobileSessionMeta
    job,      \* the requests
    spent,    \* observer: messages sent under a phone
    slipped,  \* observer: those sent after a deletion had read the usage
    late      \* observer: sessions that were made, or described, behind a deletion's back

lifeVars == <<row, claim, session, job, spent, slipped, late>>

Mailboxes  == {MailboxOfRow[u] : u \in Rows}
Identities == Phones \cup Mailboxes
NoJob == [at |-> "idle", row |-> "none", session |-> "none", phone |-> NoPhone,
          listed |-> {}, used |-> 0]

LifeTypeOK ==
    /\ row \in [Rows -> [alive : BOOLEAN, phone : Phones \cup {NoPhone}, used : 0..FreeLimit]]
    /\ claim \in [Identities -> 0..FreeLimit]
    /\ session \in [Sessions -> [at : {"unused", "live", "gone"}, row : Rows \cup {"none"}, meta : BOOLEAN,
                                 expiry : {"far", "near", "over"}]]
    /\ job \in [Jobs -> [at : {"idle", "meta", "attach", "listed", "recorded", "found", "unmeta",
                                "bearer"},
                         row : Rows \cup {"none"}, session : Sessions \cup {"none"},
                         phone : Phones \cup {NoPhone}, listed : SUBSET Sessions, used : 0..FreeLimit]]
    /\ spent \in [Phones -> Nat] /\ slipped \in [Phones -> Nat]
    /\ late \subseteq Sessions

LifeInit ==
    /\ row = [u \in Rows |-> [alive |-> TRUE, phone |-> NoPhone, used |-> 0]]
    /\ claim = [i \in Identities |-> 0]
    /\ session = [s \in Sessions |-> [at |-> "unused", row |-> "none", meta |-> FALSE,
                                      expiry |-> "far"]]
    /\ job = [j \in Jobs |-> NoJob]
    /\ spent = [p \in Phones |-> 0] /\ slipped = [p \in Phones |-> 0]
    /\ late = {}

JobAt(j, step) == job[j].at = step
Over(j)        == job' = [job EXCEPT ![j] = NoJob]

-----------------------------------------------------------------------------
(* mobile-session.ts, bearer.ts                                            *)

\* createMobileSession: the session, then what it says of the device, whose
\* sessionId is no foreign key.
CreateSession(j, u, s) ==
    /\ JobAt(j, "idle") /\ row[u].alive /\ session[s].at = "unused"
    /\ session' = [session EXCEPT ![s].at = "live", ![s].row = u]
    /\ job' = [job EXCEPT ![j] = [NoJob EXCEPT !.at = "meta", !.session = s]]
    /\ UNCHANGED <<row, claim, spent, slipped, late>>

CreateMeta(j) ==
    LET s == job[j].session IN
    /\ JobAt(j, "meta")
    /\ session' = [session EXCEPT ![s].meta = TRUE]
    /\ late' = IF session[s].at = "gone" THEN late \cup {s} ELSE late
    /\ Over(j)
    /\ UNCHANGED <<row, claim, spent, slipped>>

\* Only the caller of createMobileSession learns the token, when it is over.
TokenIsKnown(s) == \A j \in Jobs : ~(JobAt(j, "meta") /\ job[j].session = s)

\* getBearerSessionUserId finds a session in time, and near its end gives it
\* another thirty days.  A row that is gone makes the update throw.
Bearer(j, s) ==
    /\ JobAt(j, "idle") /\ TokenIsKnown(s)
    /\ session[s].at = "live" /\ session[s].expiry = "near"
    /\ job' = [job EXCEPT ![j] = [NoJob EXCEPT !.at = "bearer", !.session = s]]
    /\ UNCHANGED <<row, claim, session, spent, slipped, late>>

Refresh(j) ==
    LET s == job[j].session IN
    /\ JobAt(j, "bearer")
    /\ session' = IF session[s].at = "live" THEN [session EXCEPT ![s].expiry = "far"] ELSE session
    /\ Over(j)
    /\ UNCHANGED <<row, claim, spent, slipped, late>>

\* Time passes for a session.
SessionAges(s) ==
    /\ session[s].at = "live" /\ session[s].expiry # "over"
    /\ session' = [session EXCEPT ![s].expiry = IF @ = "far" THEN "near" ELSE "over"]
    /\ UNCHANGED <<row, claim, job, spent, slipped, late>>

\* revokeMobileSession: three statements.
Logout(j, s) ==
    /\ JobAt(j, "idle") /\ session[s].at = "live" /\ TokenIsKnown(s)
    /\ job' = [job EXCEPT ![j] = [NoJob EXCEPT !.at = "found", !.session = s]]
    /\ UNCHANGED <<row, claim, session, spent, slipped, late>>

DeleteMeta(j) ==
    /\ JobAt(j, "found")
    /\ session' = [session EXCEPT ![job[j].session].meta = FALSE]
    /\ job' = [job EXCEPT ![j].at = "unmeta"]
    /\ UNCHANGED <<row, claim, spent, slipped, late>>

DeleteSession(j) ==
    /\ JobAt(j, "unmeta")
    /\ session' = [session EXCEPT ![job[j].session].at = "gone"]
    /\ Over(j)
    /\ UNCHANGED <<row, claim, spent, slipped, late>>

-----------------------------------------------------------------------------
(* phone-verification.ts, identity.ts                                      *)

HasVerifiedPhone(u) == row[u].phone # NoPhone

\* attachVerifiedPhone reads the user; somebody verified is told so.
VerifyPhone(j, u, phone) ==
    /\ JobAt(j, "idle") /\ row[u].alive /\ ~HasVerifiedPhone(u)
    /\ job' = [job EXCEPT ![j] = [NoJob EXCEPT !.at = "attach", !.row = u, !.phone = phone]]
    /\ UNCHANGED <<row, claim, session, spent, slipped, late>>

\* applyIdentityUsage: the most any of the user's identities has used this month.
Carried(phone, u) == Max({claim[phone], claim[MailboxOfRow[u]]})

\* Seeded bug: only the mailbox brings its usage along.
AttachMailboxOnly(j) ==
    LET u == job[j].row
        phone == job[j].phone IN
    /\ JobAt(j, "attach")
    /\ row' = IF /\ row[u].alive /\ ~HasVerifiedPhone(u)
                 /\ \A v \in Rows : row[v].alive => row[v].phone # phone
              THEN [row EXCEPT ![u].phone = phone, ![u].used = Max({@, claim[MailboxOfRow[u]]})]
              ELSE row
    /\ Over(j)
    /\ UNCHANGED <<claim, session, spent, slipped, late>>

\* The rest of the transaction: the update is conditional, the index on the
\* phone rejects one that somebody else has, and the usage comes along.
Attach(j) ==
    LET u == job[j].row
        phone == job[j].phone IN
    /\ JobAt(j, "attach")
    /\ row' = IF /\ row[u].alive /\ ~HasVerifiedPhone(u)
                 /\ \A v \in Rows : row[v].alive => row[v].phone # phone
              THEN [row EXCEPT ![u].phone = phone, ![u].used = Max({@, Carried(phone, u)})]
              ELSE row
    /\ Over(j)
    /\ UNCHANGED <<claim, session, spent, slipped, late>>

Deleting(u) == \E j \in Jobs : JobAt(j, "recorded") /\ job[j].row = u

\* The worker charges the workspace of somebody who got as far as a campaign,
\* which takes a verified phone (getCurrentUserId).
SendDM(u) ==
    /\ row[u].alive /\ HasVerifiedPhone(u) /\ row[u].used < FreeLimit
    /\ row' = [row EXCEPT ![u].used = @ + 1]
    /\ spent' = [spent EXCEPT ![row[u].phone] = @ + 1]
    /\ slipped' = IF Deleting(u) THEN [slipped EXCEPT ![row[u].phone] = @ + 1] ELSE slipped
    /\ UNCHANGED <<claim, session, job, late>>

-----------------------------------------------------------------------------
(* DELETE of app/api/mobile/account                                        *)

\* The sessions are listed, then the bots' webhooks are removed.
ListSessions(j, u) ==
    /\ JobAt(j, "idle") /\ row[u].alive
    /\ job' = [job EXCEPT ![j] = [NoJob EXCEPT !.at = "listed", !.row = u,
         !.listed = {s \in Sessions : session[s].at = "live" /\ session[s].row = u}]]
    /\ UNCHANGED <<row, claim, session, spent, slipped, late>>

\* recordIdentityUsage, in the transaction: what the user has used, and by which
\* identities.
ReadUsed(j) ==
    /\ JobAt(j, "listed")
    /\ IF row[job[j].row].alive
       THEN job' = [job EXCEPT ![j].at = "recorded", ![j].used = row[job[j].row].used,
                               ![j].phone = row[job[j].row].phone]
       ELSE Over(j)
    /\ UNCHANGED <<row, claim, session, spent, slipped, late>>

Claimed(j) ==
    [i \in Identities |->
        IF i \in {MailboxOfRow[job[j].row], job[j].phone} THEN Max({claim[i], job[j].used}) ELSE claim[i]]

\* The claims, the device rows of the sessions listed, and the user with all
\* their sessions; the second of two deletions throws and is rolled back.
DeleteAccount(j) ==
    LET u == job[j].row
        live == {s \in Sessions : session[s].at = "live" /\ session[s].row = u} IN
    /\ JobAt(j, "recorded")
    /\ IF row[u].alive
       THEN /\ row' = [row EXCEPT ![u].alive = FALSE, ![u].phone = NoPhone]
            /\ claim' = Claimed(j)
            /\ session' = [s \in Sessions |->
                 [session[s] EXCEPT !.at = IF s \in live THEN "gone" ELSE @,
                                    !.meta = @ /\ s \notin job[j].listed]]
            /\ late' = late \cup (live \ job[j].listed)
       ELSE UNCHANGED <<row, claim, session, late>>
    /\ Over(j)
    /\ UNCHANGED <<spent, slipped>>

\* The server dies, or the database throws: an open transaction is rolled back.
JobDies(j) ==
    /\ ~JobAt(j, "idle")
    /\ Over(j)
    /\ UNCHANGED <<row, claim, session, spent, slipped, late>>

LifeNext ==
    \/ \E j \in Jobs :
          \/ \E u \in Rows, s \in Sessions : CreateSession(j, u, s)
          \/ \E s \in Sessions : Bearer(j, s) \/ Logout(j, s)
          \/ \E u \in Rows, phone \in Phones : VerifyPhone(j, u, phone)
          \/ \E u \in Rows : ListSessions(j, u)
          \/ CreateMeta(j) \/ Refresh(j) \/ DeleteMeta(j) \/ DeleteSession(j) \/ Attach(j)
          \/ ReadUsed(j) \/ DeleteAccount(j) \/ JobDies(j)
    \/ \E s \in Sessions : SessionAges(s)
    \/ \E u \in Rows : SendDM(u)

LifeSpec == LifeInit /\ [][LifeNext]_lifeVars

-----------------------------------------------------------------------------
(* Properties                                                              *)

\* A phone that was verified stays with its account, however many verifications
\* run at the same time.
PhonesAreFixed ==
    [][\A u \in Rows : HasVerifiedPhone(u) /\ row'[u].alive => row'[u].phone = row[u].phone]_lifeVars

\* Deleting an account and signing up again brings no second allowance: what
\* goes out under one phone in a month is the plan's limit, and what slipped in
\* between a deletion's look at the usage and its end.
AllowanceSurvivesDeletion == \A p \in Phones : spent[p] <= FreeLimit + slipped[p]

\* What a session says of somebody's device goes with the account; what is left
\* was written after the deletion had listed the sessions.
NoDeviceIsRemembered ==
    \A s \in Sessions : session[s].at = "gone" /\ session[s].meta => s \in late

\* A session that is signed out or deleted never comes back.
RevokedSessionsStayDead ==
    [][\A s \in Sessions : session[s].at = "gone" => session'[s].at = "gone"]_lifeVars

\* What outlives an account and what must not: the month's usage does, its phone
\* and devices do not, and no session comes back.
AccountsAreSound ==
    /\ [](LifeTypeOK /\ AllowanceSurvivesDeletion /\ NoDeviceIsRemembered)
    /\ PhonesAreFixed
    /\ RevokedSessionsStayDead

=============================================================================
