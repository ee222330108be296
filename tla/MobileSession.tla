----------------------------- MODULE MobileSession -----------------------------
(***************************************************************************)
(* Who is signed in on one phone: what is in memory (the profile that the  *)
(* screens go by, the token and the workspace header every request takes   *)
(* along, the answers that are cached) and what is in secure storage, and  *)
(* the asynchronous functions that change both, one action from await to   *)
(* await.  The screens shown decide which of them can be started.          *)
(***************************************************************************)
EXTENDS Integers

CONSTANTS Persons,      \* people who sign in on this phone
          Spaces,       \* workspaces; at first everybody here is a member of all
          Primary,      \* the workspace of a request that names none
          Nil,          \* nobody, and no workspace
          MaxSignIns,   \* bound: sessions
          MaxRuns       \* bound: refreshes, switches and starts of the app

ASSUME SessionAssumption ==
    /\ Primary \in Spaces /\ Nil \notin Spaces
    /\ {MaxSignIns, MaxRuns} \subseteq Nat

VARIABLES owner,        \* owner[t]: who session t belongs to
          alive,        \* sessions the server accepts
          joined,       \* workspaces they are still members of
        verified,     \* people with a verified phone
          profile,      \* the profile in memory
          token,        \* the token in memory, 0 for none
          header,       \* the workspace header
          cached,       \* cached answers: whose data they are
          savedToken,   \* secure storage
          savedProfile,
          task,         \* task[k]: the asynchronous function k
          query,        \* a screen's request
          runs,         \* refreshes, switches and starts so far
          crossed       \* a clean-up met a sign-in or a save, or was killed

sessionVars == <<owner, alive, joined, verified, profile, token, header, cached, savedToken, savedProfile,
                 task, query, runs, crossed>>

Sessions  == 1 .. MaxSignIns
Kinds     == {"sign in", "sign out", "refresh", "switch", "unauthorized", "boot"}
NoProfile == [user |-> Nil, ws |-> Nil]
Off       == [at |-> "off"]

Idle(k)    == task[k] = Off
Quiet      == \A k \in Kinds : Idle(k)
SignedIn   == profile # NoProfile
Switching  == ~Idle("switch")
\* The splash screen and the spinner leave nothing to press.
Screens    == Idle("boot") /\ ~Switching
Authorized == SignedIn /\ profile.ws # Nil

\* Something another function has in hand: a clean-up that meets a sign-in or a
\* save on its way, or the other way round.
CleansUp == \E k \in {"sign out", "unauthorized"} : ~Idle(k)
Writes   == ~Idle("sign in") \/ \E k \in {"refresh", "switch"} : task[k].at \in {"answered", "save"}

SessionInit ==
    /\ owner = [t \in Sessions |-> Nil]
    /\ alive = {}
    /\ joined = Spaces
    /\ verified \in {Persons, {}}
    /\ profile = NoProfile
    /\ token = 0 /\ header = Nil
    /\ cached = {}
    /\ savedToken = 0 /\ savedProfile = NoProfile
    /\ task = [k \in Kinds |-> Off]
    /\ query = Off
    /\ runs = 0
    /\ crossed = FALSE

-----------------------------------------------------------------------------
(* The client *)

\* Setting the token or the workspace to another value makes every request on
\* its way one of an earlier context: its answer is an error.
Stale(r) == IF "fresh" \in DOMAIN r THEN [r EXCEPT !.fresh = FALSE] ELSE r

Context(t, w, flows) ==
    /\ token' = t /\ header' = w
    /\ IF t = token /\ w = header
       THEN task' = flows /\ UNCHANGED query
       ELSE /\ task' = [k \in Kinds |-> Stale(flows[k])]
            /\ query' = Stale(query)

\* A session that is alive, and a workspace the user is a member of.
Known(t, w) == t \in alive /\ w \in joined \cup {Nil}

Request(t, w) == [at |-> "sent", token |-> t, ws |-> w, fresh |-> TRUE, valid |-> Known(t, w)]

\* What the session route answers: the profile, or 401.
Accepted(r) == r.valid
Rejected(r) == ~Known(r.token, r.ws)
Answer(r)   ==
    LET u == owner[r.token] IN
    [user |-> u, ws |-> IF u \notin verified THEN Nil ELSE IF r.ws = Nil THEN Primary ELSE r.ws]

\* A screen asks for its data; of an earlier context, the answer is dropped.
Ask ==
    /\ Authorized /\ Screens /\ query = Off
    /\ query' = Request(token, header)
    /\ UNCHANGED <<owner, alive, joined, verified, profile, token, header, cached, savedToken, savedProfile,
                   task, runs, crossed>>

Loaded ==
    /\ query # Off /\ query.valid
    /\ cached' = IF query.fresh THEN cached \cup {<<owner[query.token], query.ws>>} ELSE cached
    /\ query' = Off
    /\ UNCHANGED <<owner, alive, joined, verified, profile, token, header, savedToken, savedProfile, task,
                   runs, crossed>>

AskFails ==
    /\ query # Off
    /\ query' = Off
    /\ UNCHANGED <<owner, alive, joined, verified, profile, token, header, cached, savedToken, savedProfile,
                   task, runs, crossed>>

\* 401 of the current context: the token is dropped, with no new context, and
\* the clean-up starts.  Only one clean-up runs.
Unauthorized ==
    /\ query # Off /\ query.fresh /\ Rejected(query)
    /\ Idle("unauthorized")
    /\ token' = 0
    /\ query' = Off
    /\ task' = [task EXCEPT !["unauthorized"] = [at |-> "clear token"]]
    /\ crossed' = (crossed \/ Writes)
    /\ UNCHANGED <<owner, alive, joined, verified, profile, header, cached, savedToken,
                   savedProfile, runs>>

-----------------------------------------------------------------------------
(* What the functions share *)

\* resetLocalState up to its first await.
Reset(k, next) ==
    /\ profile' = NoProfile
    /\ Context(0, Nil, [task EXCEPT ![k] = next])

\* applyProfile up to its first await; without a workspace the cache is emptied.
Apply(k, p, next) ==
    /\ profile' = p
    /\ Context(token, p.ws, [task EXCEPT ![k] = next])
    /\ cached' = IF p.ws = Nil THEN {} ELSE cached

ClearCache(k, next) ==
    /\ cached' = {}
    /\ task' = [task EXCEPT ![k] = next]
    /\ UNCHANGED <<owner, alive, joined, verified, profile, token, header, savedToken,
                   savedProfile, query, runs, crossed>>

ForgetToken(k, next) ==
    /\ savedToken' = 0
    /\ task' = [task EXCEPT ![k] = next]
    /\ UNCHANGED <<owner, alive, joined, verified, profile, token, header, cached, savedProfile,
                   query, runs, crossed>>

ForgetProfile(k, next) ==
    /\ savedProfile' = NoProfile
    /\ task' = [task EXCEPT ![k] = next]
    /\ UNCHANGED <<owner, alive, joined, verified, profile, token, header, cached, savedToken,
                   query, runs, crossed>>

SaveProfile(k) ==
    /\ task[k].at = "save"
    /\ savedProfile' = task[k].profile
    /\ task' = [task EXCEPT ![k] = Off]
    /\ UNCHANGED <<owner, alive, joined, verified, profile, token, header, cached, savedToken,
                   query, runs, crossed>>

-----------------------------------------------------------------------------
(* Signing in and out *)

\* The server has opened a session for u; the rest of an older one goes first.
SignIn(u) ==
    /\ ~SignedIn /\ Screens /\ Idle("sign in")
    /\ \E t \in Sessions :
          /\ owner[t] = Nil /\ \A s \in 1 .. t - 1 : owner[s] # Nil
          /\ owner' = [owner EXCEPT ![t] = u]
          /\ alive' = alive \cup {t}
          /\ Reset("sign in", [at |-> "reset", token |-> t])
    /\ crossed' = (crossed \/ CleansUp \/ ~Idle("refresh"))
    /\ UNCHANGED <<joined, verified, cached, savedToken, savedProfile, runs>>

SignInEmpty ==
    /\ task["sign in"].at = "reset"
    /\ ClearCache("sign in", [task["sign in"] EXCEPT !.at = "cleared"])

SetToken ==
    /\ task["sign in"].at = "cleared"
    /\ Context(task["sign in"].token, header, [task EXCEPT !["sign in"].at = "token"])
    /\ UNCHANGED <<owner, alive, joined, verified, profile, cached, savedToken, savedProfile, runs,
                   crossed>>

SaveToken ==
    /\ task["sign in"].at = "token"
    /\ savedToken' = task["sign in"].token
    /\ task' = [task EXCEPT !["sign in"].at = "saved"]
    /\ UNCHANGED <<owner, alive, joined, verified, profile, token, header, cached, savedProfile,
                   query, runs, crossed>>

SignInApply ==
    /\ task["sign in"].at = "saved"
    /\ LET t == task["sign in"].token
           p == [user |-> owner[t], ws |-> IF owner[t] \in verified THEN Primary ELSE Nil] IN
       Apply("sign in", p, [at |-> "save", profile |-> p])
    /\ UNCHANGED <<owner, alive, joined, verified, savedToken, savedProfile, runs, crossed>>

\* The screens go first; then the server is told, and however that ends the
\* phone forgets.
SignOut ==
    /\ SignedIn /\ Screens /\ Idle("sign out")
    /\ profile' = NoProfile
    /\ task' = [task EXCEPT !["sign out"] = [at |-> "asked", token |-> token]]
    /\ crossed' = (crossed \/ Writes)
    /\ UNCHANGED <<owner, alive, joined, verified, token, header, cached, savedToken, savedProfile,
                   query, runs>>

SignOutReaches ==
    /\ task["sign out"].at = "asked"
    /\ task["sign out"].token \in alive
    /\ alive' = alive \ {task["sign out"].token}
    /\ UNCHANGED <<owner, joined, verified, profile, token, header, cached, savedToken,
                   savedProfile, task, query, runs, crossed>>

SignOutReset ==
    /\ task["sign out"].at = "asked"
    /\ Reset("sign out", [at |-> "reset"])
    /\ UNCHANGED <<owner, alive, joined, verified, cached, savedToken, savedProfile, runs, crossed>>

SignOutCleans ==
    \/ task["sign out"].at = "reset" /\ ClearCache("sign out", [at |-> "clear token"])
    \/ task["sign out"].at = "clear token" /\ ForgetToken("sign out", [at |-> "clear profile"])
    \/ task["sign out"].at = "clear profile" /\ ForgetProfile("sign out", Off)

\* The clean-up after a 401: storage first.
UnauthorizedCleans ==
    \/ task["unauthorized"].at = "clear token" /\ ForgetToken("unauthorized", [at |-> "clear profile"])
    \/ task["unauthorized"].at = "clear profile" /\ ForgetProfile("unauthorized", [at |-> "reset"])
    \/ /\ task["unauthorized"].at = "reset"
       /\ Reset("unauthorized", [at |-> "empty"])
       /\ crossed' = (crossed \/ Writes)
       /\ UNCHANGED <<owner, alive, joined, verified, cached, savedToken, savedProfile, runs>>
    \/ task["unauthorized"].at = "empty" /\ ClearCache("unauthorized", Off)

-----------------------------------------------------------------------------
(* Refreshing and switching *)

Refresh ==
    /\ SignedIn /\ Screens /\ Idle("refresh") /\ runs < MaxRuns
    /\ runs' = runs + 1
    /\ task' = [task EXCEPT !["refresh"] = Request(token, header)]
    /\ UNCHANGED <<owner, alive, joined, verified, profile, token, header, cached, savedToken,
                   savedProfile, query, crossed>>

Refreshed ==
    /\ task["refresh"].at = "sent" /\ task["refresh"].fresh /\ Accepted(task["refresh"])
    /\ LET p == Answer(task["refresh"]) IN Apply("refresh", p, [at |-> "save", profile |-> p])
    /\ crossed' = (crossed \/ CleansUp)
    /\ UNCHANGED <<owner, alive, joined, verified, savedToken, savedProfile, runs>>

RefreshFails ==
    /\ task["refresh"].at = "sent"
    /\ task' = [task EXCEPT !["refresh"] = Off]
    /\ UNCHANGED <<owner, alive, joined, verified, profile, token, header, cached, savedToken,
                   savedProfile, query, runs, crossed>>

\* The phone of the user is verified, on the screen for it.
Verify ==
    /\ SignedIn /\ Screens /\ profile.ws = Nil /\ token \in alive
    /\ profile.user \notin verified
    /\ verified' = verified \cup {owner[token]}
    /\ UNCHANGED <<owner, alive, joined, profile, token, header, cached, savedToken, savedProfile,
                   task, query, runs, crossed>>

Switch(w) ==
    /\ Authorized /\ Screens /\ w # profile.ws /\ runs < MaxRuns
    /\ runs' = runs + 1
    /\ Context(token, w, [task EXCEPT !["switch"] =
                             [at |-> "sent", token |-> token, ws |-> w,
                              valid |-> Known(token, w), old |-> profile.ws]])
    /\ UNCHANGED <<owner, alive, joined, verified, profile, cached, savedToken, savedProfile, crossed>>

\* The request left after the new header was set: it is of that context.
SwitchFresh == task["switch"].token = token /\ task["switch"].ws = header

SwitchAnswered ==
    /\ task["switch"].at = "sent" /\ SwitchFresh /\ Accepted(task["switch"])
    /\ task' = [task EXCEPT !["switch"].at = "answered"]
    /\ UNCHANGED <<owner, alive, joined, verified, profile, token, header, cached, savedToken,
                   savedProfile, query, runs, crossed>>

\* Mutant: the cache of the old workspace stays.
SwitchKeepsCache ==
    /\ task["switch"].at = "answered"
    /\ LET p == Answer(task["switch"]) IN
       /\ profile' = p
       /\ Context(token, p.ws, [task EXCEPT !["switch"] = [at |-> "save", profile |-> p]])
    /\ crossed' = (crossed \/ CleansUp)
    /\ UNCHANGED <<owner, alive, joined, verified, cached, savedToken, savedProfile, runs>>

SwitchApply ==
    /\ task["switch"].at = "answered"
    /\ LET p == Answer(task["switch"]) IN
       /\ profile' = p
       /\ Context(token, p.ws, [task EXCEPT !["switch"] = [at |-> "save", profile |-> p]])
    /\ cached' = {}
    /\ crossed' = (crossed \/ CleansUp)
    /\ UNCHANGED <<owner, alive, joined, verified, savedToken, savedProfile, runs>>

\* Any failure of the request puts the old header back.
SwitchFails ==
    /\ task["switch"].at = "sent"
    /\ Context(token, task["switch"].old, [task EXCEPT !["switch"] = Off])
    /\ UNCHANGED <<owner, alive, joined, verified, profile, cached, savedToken, savedProfile, runs,
                   crossed>>

-----------------------------------------------------------------------------
(* Starting the app *)

\* The app is killed, at any await, and started.
Launch ==
    /\ runs < MaxRuns
    /\ runs' = runs + 1
    /\ profile' = NoProfile
    /\ cached' = {}
    /\ query' = Off
    /\ token' = savedToken
    /\ header' = IF savedToken # 0 THEN savedProfile.ws ELSE Nil
    /\ task' = [k \in Kinds |->
                   IF k = "boot" /\ savedToken # 0
                   THEN [at |-> "sent", token |-> savedToken, ws |-> savedProfile.ws,
                         valid |-> Known(savedToken, savedProfile.ws)]
                   ELSE Off]
    /\ crossed' = (crossed \/ CleansUp \/ task["boot"].at \in {"clear token", "clear profile"})
    /\ UNCHANGED <<owner, alive, joined, verified, savedToken, savedProfile>>

BootApply ==
    /\ task["boot"].at = "sent" /\ Accepted(task["boot"])
    /\ LET p == Answer(task["boot"]) IN Apply("boot", p, [at |-> "save", profile |-> p])
    /\ UNCHANGED <<owner, alive, joined, verified, savedToken, savedProfile, runs, crossed>>

\* 401 may be about the workspace: asked again without one.
BootRetry ==
    /\ task["boot"].at = "sent" /\ Rejected(task["boot"]) /\ task["boot"].ws # Nil
    /\ Context(token, Nil, [task EXCEPT !["boot"].ws = Nil, !["boot"].valid = Known(token, Nil)])
    /\ UNCHANGED <<owner, alive, joined, verified, profile, cached, savedToken, savedProfile, runs,
                   crossed>>

\* No network: the saved profile is shown, when it is a day old at most.
BootOffline ==
    /\ task["boot"].at = "sent" /\ savedProfile # NoProfile
    /\ Apply("boot", savedProfile, Off)
    /\ UNCHANGED <<owner, alive, joined, verified, savedToken, savedProfile, runs, crossed>>

\* Anything else ends in a phone nobody is signed in to.
BootFails ==
    \/ /\ task["boot"].at = "sent"
       /\ Reset("boot", [at |-> "clear token"])
       /\ UNCHANGED <<owner, alive, joined, verified, cached, savedToken, savedProfile, runs, crossed>>
    \/ task["boot"].at = "clear token" /\ ForgetToken("boot", [at |-> "clear profile"])
    \/ task["boot"].at = "clear profile" /\ ForgetProfile("boot", Off)

\* A session ends at the server: it expires, or the account is deleted.
Expire(t) ==
    /\ t \in alive
    /\ alive' = alive \ {t}
    /\ UNCHANGED <<owner, joined, verified, profile, token, header, cached, savedToken,
                   savedProfile, task, query, runs, crossed>>

\* Everybody is taken out of a workspace.
TakeOut(w) ==
    /\ w \in joined \ {Primary}
    /\ joined' = joined \ {w}
    /\ UNCHANGED <<owner, alive, verified, profile, token, header, cached, savedToken,
                   savedProfile, task, query, runs, crossed>>

SessionNext ==
    \/ Ask \/ Loaded \/ AskFails \/ Unauthorized
    \/ \E u \in Persons : SignIn(u)
    \/ SignInEmpty \/ SetToken \/ SaveToken \/ SignInApply
    \/ SignOut \/ SignOutReaches \/ SignOutReset \/ SignOutCleans \/ UnauthorizedCleans
    \/ Refresh \/ Refreshed \/ RefreshFails \/ Verify
    \/ \E w \in Spaces : Switch(w) \/ TakeOut(w)
    \/ SwitchAnswered \/ SwitchApply \/ SwitchFails
    \/ Launch \/ BootApply \/ BootRetry \/ BootOffline \/ BootFails
    \/ \E k \in {"sign in", "refresh", "switch", "boot"} : SaveProfile(k)
    \/ \E t \in Sessions : Expire(t)

SessionSpec == SessionInit /\ [][SessionNext]_sessionVars

-----------------------------------------------------------------------------
(* Properties *)

\* The type invariant: among others, the sessions the server accepts have owners.
SessionTypeOK ==
    /\ owner \in [Sessions -> Persons \cup {Nil}]
    /\ alive \subseteq {t \in Sessions : owner[t] # Nil}
    /\ joined \subseteq Spaces /\ verified \subseteq Persons
    /\ profile = NoProfile \/ profile \in [user : Persons, ws : Spaces \cup {Nil}]
    /\ token \in 0 .. MaxSignIns /\ header \in Spaces \cup {Nil}
    /\ cached \subseteq Persons \X Spaces
    /\ savedToken \in 0 .. MaxSignIns
    /\ savedProfile = NoProfile \/ savedProfile \in [user : Persons, ws : Spaces \cup {Nil}]
    /\ runs \in 0 .. MaxRuns

\* What a screen can show of the cache is of the person and the workspace it
\* says it is of, unless a sign-in or a save of a profile overlapped a clean-up
\* or a clean-up was killed.
ScreensShowOwnData ==
    (Authorized /\ Screens /\ ~crossed) => cached \subseteq {<<profile.user, profile.ws>>}

\* While nothing is under way, requests go out for the profile on the screen,
\* with the same exception.
RequestsAreOwn ==
    (Quiet /\ SignedIn /\ ~crossed) =>
        /\ token # 0 => owner[token] = profile.user
        /\ header = profile.ws

\* A phone nobody is signed in to has nothing in storage, with the same exception.
SignedOutIsForgotten ==
    (Quiet /\ ~SignedIn /\ ~crossed) => savedToken = 0 /\ savedProfile = NoProfile

\* The profile in storage is the token's, with the same exception: a start with no
\* network would show it.
SavedProfileIsOwn ==
    (savedToken # 0 /\ savedProfile # NoProfile /\ ~crossed) => owner[savedToken] = savedProfile.user

\* One phone, several people one after the other: what it shows, sends and
\* stores is of the one who is signed in.
PhoneIsOnesOwn ==
    /\ SessionTypeOK
    /\ ScreensShowOwnData
    /\ RequestsAreOwn
    /\ SignedOutIsForgotten
    /\ SavedProfileIsOwn

=============================================================================
