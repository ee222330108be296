---------------------------- MODULE PushDevices -----------------------------
(***************************************************************************)
(* The devices notifications go to: one phone and the people who sign in   *)
(* on it, the app's registration and preferences (mobile/src/push and the  *)
(* notifications screen), the routes mobile/push/register and preferences, *)
(* and the sending (resolveTargetDevices and processPush).                 *)
(* The phone has one FCM token at a time; reinstalling or restoring the    *)
(* app gives it another, and the old one dies.                             *)
(***************************************************************************)
EXTENDS Naturals, FiniteSets

CONSTANTS Nobody,      \* no user
          People,      \* users who sign in on the phone, all members of the workspace
          MaxToken,    \* bound on the tokens of the phone
          MaxAttempts  \* attempts of a push job

ASSUME DevicesAssumption ==
    Nobody \notin People /\ IsFiniteSet(People) /\ MaxToken \in Nat \ {0} /\ MaxAttempts \in Nat \ {0}

AlertKinds  == {"lead", "failure"}     \* leadAlerts and failureAlerts
Tokens == 1..MaxToken

VARIABLES
    signedIn,   \* the phone: who is signed in
    fcm,        \* the phone: its FCM token
    tokenKept,  \* keychain: autoreply.fcmToken, 0 for none
    kept,       \* keychain: autoreply.pushPreferences
    switches,   \* the notifications screen's preferences
    primer,     \* the one-time explainer has not been shown yet
    enabling,   \* registerForPushNotificationsAsync under way: 0, or the token it got
    toggle,     \* handleToggle under way, one per switch
    device,     \* PushDevice rows
    job,        \* a push job of the worker
    parted,     \* observer: somebody signed out here, and nobody registered since
    blurred     \* observer: two toggles overlapped, an answer was lost, or the row was new

deviceVars == <<signedIn, fcm, tokenKept, kept, switches, primer, enabling, toggle,
                device, job, parted, blurred>>

AllOn    == [k \in AlertKinds |-> TRUE]
NotEnabling == [at |-> "off", by |-> Nobody, token |-> 0]
NoToggle == [at |-> "off", by |-> Nobody, value |-> TRUE, before |-> AllOn, read |-> AllOn]
NoDevice == [user |-> Nobody, on |-> AllOn, disabled |-> FALSE]
NoPush   == [at |-> "idle", kind |-> "lead", to |-> {}, attempts |-> 0]

DevicesTypeOK ==
    /\ signedIn \in People \cup {Nobody} /\ fcm \in Tokens /\ tokenKept \in 0..fcm
    /\ kept \in [AlertKinds -> BOOLEAN] /\ switches \in [AlertKinds -> BOOLEAN] /\ primer \in BOOLEAN
    /\ enabling \in [at : {"off", "post", "store"}, by : People \cup {Nobody}, token : 0..MaxToken]
    /\ toggle \in [AlertKinds -> [at : {"off", "patch", "read", "write"},
                             by : People \cup {Nobody}, value : BOOLEAN,
                             before : [AlertKinds -> BOOLEAN], read : [AlertKinds -> BOOLEAN]]]
    /\ device \in [Tokens -> [user : People \cup {Nobody}, on : [AlertKinds -> BOOLEAN], disabled : BOOLEAN]]
    /\ \A t \in Tokens : device[t].disabled => t < fcm
    /\ job.at \in {"idle", "send", "disable"} /\ job.kind \in AlertKinds /\ job.to \subseteq Tokens
    /\ job.attempts \in 0..MaxAttempts
    /\ parted \in BOOLEAN /\ blurred \in BOOLEAN

DevicesInit ==
    /\ signedIn = Nobody /\ fcm = 1 /\ tokenKept = 0
    /\ kept = AllOn /\ switches = AllOn /\ primer = TRUE
    /\ enabling = NotEnabling /\ toggle = [k \in AlertKinds |-> NoToggle]
    /\ device = [t \in Tokens |-> NoDevice] /\ job = NoPush
    /\ parted = FALSE /\ blurred = FALSE

-----------------------------------------------------------------------------
(* The phone                                                               *)

Settled == enabling.at = "off" /\ \A k \in AlertKinds : toggle[k].at = "off"

SignInHere(u) ==
    /\ signedIn = Nobody
    /\ signedIn' = u
    /\ UNCHANGED <<fcm, tokenKept, kept, switches, primer, enabling, toggle, device, job,
                   parted, blurred>>

\* AuthContext.signOut: the session and the caches go; the token, the
\* preferences and the server's row stay.  A call under way goes on, and its
\* answer is refused when somebody else is signed in by then.
SignOutHere ==
    /\ signedIn # Nobody
    /\ signedIn' = Nobody
    /\ parted' = TRUE
    /\ UNCHANGED <<fcm, tokenKept, kept, switches, primer, enabling, toggle, device, job, blurred>>

\* The app is reinstalled or restored: FCM gives it another token.  The
\* keychain may survive that.
NewToken(survives) ==
    /\ signedIn = Nobody /\ Settled /\ fcm < MaxToken
    /\ fcm' = fcm + 1
    /\ tokenKept' = IF survives THEN tokenKept ELSE 0
    /\ kept' = IF survives THEN kept ELSE AllOn
    /\ primer' = (primer \/ ~survives)
    /\ blurred' = (blurred \/ tokenKept # 0)
    /\ UNCHANGED <<signedIn, switches, enabling, toggle, device, job, parted>>

\* The explainer once, or the notifications screen while no token is stored.
BeginEnable ==
    /\ signedIn # Nobody /\ enabling.at = "off" /\ (primer \/ tokenKept = 0)
    /\ primer' = FALSE
    /\ enabling' = [at |-> "post", by |-> signedIn, token |-> fcm]
    /\ UNCHANGED <<signedIn, fcm, tokenKept, kept, switches, toggle, device, job, parted, blurred>>

SkipPrimer ==
    /\ signedIn # Nobody /\ primer /\ enabling.at = "off"
    /\ primer' = FALSE
    /\ UNCHANGED <<signedIn, fcm, tokenKept, kept, switches, enabling, toggle, device,
                   job, parted, blurred>>

\* The screen gains focus: load()
Focus ==
    /\ signedIn # Nobody /\ \A k \in AlertKinds : toggle[k].at = "off"
    /\ switches' = kept
    /\ UNCHANGED <<signedIn, fcm, tokenKept, kept, primer, enabling, toggle, device, job,
                   parted, blurred>>

-----------------------------------------------------------------------------
(* mobile/push/register and preferences                                    *)

\* Seeded bug: the row stays with the user who registered it first.
RegisterKeepsUser(answered) ==
    LET t == enabling.token IN
    /\ enabling.at = "post" /\ (answered => enabling.by = signedIn)
    /\ device' = [device EXCEPT ![t].user = IF @ = Nobody THEN enabling.by ELSE @, ![t].disabled = FALSE]
    /\ enabling' = IF answered THEN [enabling EXCEPT !.at = "store"] ELSE NotEnabling
    /\ blurred' = (blurred \/ kept # AllOn)
    /\ UNCHANGED <<signedIn, fcm, tokenKept, kept, switches, primer, toggle, job, parted>>

\* POST: an upsert by token; a row that is there changes hands and is enabled
\* again, with the preferences it has.
Register(answered) ==
    LET t == enabling.token IN
    /\ enabling.at = "post" /\ (answered => enabling.by = signedIn)
    /\ device' = [device EXCEPT ![t].user = enabling.by, ![t].disabled = FALSE]
    /\ enabling' = IF answered THEN [enabling EXCEPT !.at = "store"] ELSE NotEnabling
    /\ blurred' = (blurred \/ (device[t].user = Nobody /\ kept # AllOn))
    /\ UNCHANGED <<signedIn, fcm, tokenKept, kept, switches, primer, toggle, job, parted>>

EnableFails ==
    /\ enabling.at # "off"
    /\ enabling' = NotEnabling
    /\ UNCHANGED <<signedIn, fcm, tokenKept, kept, switches, primer, toggle, device, job,
                   parted, blurred>>

StoreToken ==
    /\ enabling.at = "store"
    /\ tokenKept' = enabling.token
    /\ enabling' = NotEnabling
    /\ switches' = kept
    /\ parted' = (parted /\ enabling.by # signedIn)
    /\ UNCHANGED <<signedIn, fcm, kept, primer, toggle, device, job, blurred>>

\* handleToggle shows the new value at once.
BeginToggle(k) ==
    /\ signedIn # Nobody /\ tokenKept # 0 /\ toggle[k].at = "off"
    /\ toggle' = [toggle EXCEPT ![k] = [NoToggle EXCEPT !.at = "patch", !.by = signedIn,
                                                    !.value = ~switches[k], !.before = switches]]
    /\ switches' = [switches EXCEPT ![k] = ~@]
    /\ blurred' = (blurred \/ \E l \in AlertKinds : toggle[l].at # "off")
    /\ UNCHANGED <<signedIn, fcm, tokenKept, kept, primer, enabling, device, job, parted>>

\* PATCH, for the caller's own row only; an answer that fails or gets lost
\* brings all of the old preferences back on the screen.
Patch(k, answered) ==
    LET own == device[tokenKept].user = toggle[k].by IN
    /\ toggle[k].at = "patch" /\ (answered => toggle[k].by = signedIn)
    /\ device' = IF own THEN [device EXCEPT ![tokenKept].on[k] = toggle[k].value] ELSE device
    /\ IF answered /\ own THEN toggle' = [toggle EXCEPT ![k].at = "read"] /\ UNCHANGED switches
       ELSE toggle' = [toggle EXCEPT ![k] = NoToggle] /\ switches' = toggle[k].before
    /\ blurred' = (blurred \/ (own /\ ~answered))
    /\ UNCHANGED <<signedIn, fcm, tokenKept, kept, primer, enabling, job, parted>>

PatchFails(k) ==
    /\ toggle[k].at = "patch"
    /\ toggle' = [toggle EXCEPT ![k] = NoToggle] /\ switches' = toggle[k].before
    /\ UNCHANGED <<signedIn, fcm, tokenKept, kept, primer, enabling, device, job, parted, blurred>>

\* The keychain's copy is read, changed and written.
ReadKept(k) ==
    /\ toggle[k].at = "read"
    /\ toggle' = [toggle EXCEPT ![k].at = "write", ![k].read = kept]
    /\ UNCHANGED <<signedIn, fcm, tokenKept, kept, switches, primer, enabling, device,
                   job, parted, blurred>>

WriteKept(k) ==
    /\ toggle[k].at = "write"
    /\ kept' = [toggle[k].read EXCEPT ![k] = toggle[k].value]
    /\ toggle' = [toggle EXCEPT ![k] = NoToggle]
    /\ UNCHANGED <<signedIn, fcm, tokenKept, switches, primer, enabling, device, job, parted, blurred>>

-----------------------------------------------------------------------------
(* push-worker.ts                                                          *)

\* resolveTargetDevices: the members' enabled devices that want this kind.
Resolve(kind) ==
    LET to == {t \in Tokens : device[t].user # Nobody /\ ~device[t].disabled /\ device[t].on[kind]} IN
    /\ job.at = "idle" /\ to # {}
    /\ job' = [at |-> "send", kind |-> kind, to |-> to, attempts |-> job.attempts]
    /\ UNCHANGED <<signedIn, fcm, tokenKept, kept, switches, primer, enabling, toggle, device, parted,
                   blurred>>

\* sendFcmPushNotifications: the tickets of dead tokens say so.
Send ==
    /\ job.at = "send"
    /\ job' = IF \E t \in job.to : t # fcm
              THEN [job EXCEPT !.at = "disable", !.to = {t \in @ : t # fcm}] ELSE NoPush
    /\ UNCHANGED <<signedIn, fcm, tokenKept, kept, switches, primer, enabling, toggle, device, parted,
                   blurred>>

Disable ==
    /\ job.at = "disable"
    /\ device' = [t \in Tokens |-> IF t \in job.to THEN [device[t] EXCEPT !.disabled = TRUE] ELSE device[t]]
    /\ job' = NoPush
    /\ UNCHANGED <<signedIn, fcm, tokenKept, kept, switches, primer, enabling, toggle, parted, blurred>>

\* FCM or the database fails, or the worker dies: the job is tried again from the start.
PushFails ==
    /\ job.at # "idle"
    /\ job' = IF job.attempts + 1 < MaxAttempts
              THEN [NoPush EXCEPT !.attempts = job.attempts + 1] ELSE NoPush
    /\ UNCHANGED <<signedIn, fcm, tokenKept, kept, switches, primer, enabling, toggle, device, parted,
                   blurred>>

DevicesNext ==
    \/ \E u \in People : SignInHere(u)
    \/ SignOutHere \/ BeginEnable \/ SkipPrimer \/ Focus \/ EnableFails \/ StoreToken
    \/ \E survives \in BOOLEAN : NewToken(survives)
    \/ \E answered \in BOOLEAN : Register(answered)
    \/ \E k \in AlertKinds :
          \/ BeginToggle(k) \/ PatchFails(k) \/ ReadKept(k) \/ WriteKept(k) \/ Resolve(k)
          \/ \E answered \in BOOLEAN : Patch(k, answered)
    \/ Send \/ Disable \/ PushFails

DevicesSpec == DevicesInit /\ [][DevicesNext]_deviceVars

-----------------------------------------------------------------------------
(* Properties                                                              *)

\* What the phone remembers of its preferences is what the server goes by, but
\* for toggles that overlapped or whose answer was lost: the server has no way
\* of asking for them, so nothing sets the copy right.
PreferencesAgree ==
    Settled /\ ~blurred /\ tokenKept # 0 /\ device[tokenKept].user = signedIn /\ signedIn # Nobody =>
        kept = device[tokenKept].on

\* A phone that shows notifications as on has a device that is its user's,
\* unless somebody signed out here since it was registered: signing out leaves both the
\* stored token and the row behind.
OnMeansOn ==
    Settled /\ signedIn # Nobody /\ tokenKept # 0 => parted \/ device[tokenKept].user = signedIn

\* A preference is changed by nobody but the device's own user.
PreferencesAreOnesOwn ==
    [][\A t \in Tokens : device[t].user # Nobody /\ device'[t].on # device[t].on =>
          \E k \in AlertKinds : toggle[k].at = "patch" /\ toggle[k].by = device[t].user]_deviceVars

\* The switches on a phone that changes hands: they show what is in force, for
\* the user they are shown to, and only that user changes them.
PreferencesAreSound ==
    /\ [](DevicesTypeOK /\ PreferencesAgree /\ OnMeansOn)
    /\ PreferencesAreOnesOwn

=============================================================================
