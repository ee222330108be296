---------------------------- MODULE Connections -----------------------------
(***************************************************************************)
(* How Instagram accounts and Telegram bots come to a workspace and leave  *)
(* it: the OAuth round trip (lib/meta/oauth-flow.ts, the routes start,     *)
(* connect, callback, complete and exchange), what follows it              *)
(* (lib/instagram-oauth.ts), app/api/telegram/connect, and the plan's      *)
(* limit on connected accounts (canConnectAnotherAccount).                 *)
(*                                                                         *)
(* A flow is kept in Redis until the callback takes it; a mobile flow      *)
(* leaves a result there, which the app takes.  Connecting is a row of     *)
(* reads and one write, and another request runs between any two.          *)
(* A person who signs up with Instagram gets a workspace of their own,     *)
(* the home of that account.                                               *)
(***************************************************************************)
EXTENDS Naturals, FiniteSets

CONSTANTS Nowhere,      \* no workspace
          Workspaces,   \* workspaces with a manager who connects accounts
          Instagrams, Bots,
          AccountLimit, \* accounts a workspace's plan has room for
          Flows,        \* OAuth round trips
          Visits,       \* HTTP requests that run at the same time
          MaxSecrets    \* bound on the webhook secrets drawn

ASSUME ConnectionsAssumption ==
    /\ IsFiniteSet(Workspaces) /\ IsFiniteSet(Instagrams) /\ IsFiniteSet(Bots)
    /\ IsFiniteSet(Visits) /\ Visits # {} /\ AccountLimit \in Nat \ {0} /\ MaxSecrets \in Nat
    /\ "none" \notin Flows \cup Instagrams \cup Bots
    /\ Nowhere \notin Workspaces
    /\ \A i \in Instagrams : <<"home", i>> \notin Workspaces \cup {Nowhere}

VARIABLES
    flow,       \* Redis: the flows
    result,     \* Redis: what a mobile flow was authorized for
    account,    \* InstagramAccount: the workspace it is in
    linked,     \* the Instagram accounts somebody signed up with
    bot,        \* TelegramAccount
    hook,       \* Telegram: the secret it sends with a bot's updates
    secrets,    \* webhook secrets drawn so far
    visit,      \* the requests
    slipped,    \* observer: accounts an overtaken request brought to a workspace, uncounted since
    completed,  \* observer: connections and sign-ins a flow led to
    astray,     \* observer: flows that went on with somebody who had not started them
    cut         \* observer: bots whose webhook and row two requests, or half a request, wrote

connectVars == <<flow, result, account, linked, bot, hook, secrets, visit, slipped, completed,
                 astray, cut>>

Home(i)       == <<"home", i>>
AllWorkspaces == Workspaces \cup {Home(i) : i \in Instagrams}
Clients       == {"web", "mobile", "mobile-signup"}
NoFlow   == [at |-> "none", client |-> "web", ws |-> Nowhere]
NoResult == [at |-> "none", ig |-> "none"]
NoBot    == [ws |-> Nowhere, secret |-> 0]
NoVisit  == [at |-> "idle", flow |-> "none", ig |-> "none", bot |-> "none", ws |-> Nowhere,
             secret |-> 0, overtaken |-> FALSE]

ConnectTypeOK ==
    /\ flow \in [Flows -> [at : {"none", "open", "gone"}, client : Clients,
                           ws : Workspaces \cup {Nowhere}]]
    /\ result \in [Flows -> [at : {"none", "stored", "gone"}, ig : Instagrams \cup {"none"}]]
    /\ account \in [Instagrams -> AllWorkspaces \cup {Nowhere}]
    /\ linked \subseteq Instagrams
    /\ \A i \in Instagrams : account[i] \in {Home(j) : j \in Instagrams}
                               => account[i] = Home(i) /\ i \in linked
    /\ bot \in [Bots -> [ws : Workspaces \cup {Nowhere}, secret : 0..MaxSecrets]]
    /\ hook \in [Bots -> 0..MaxSecrets] /\ secrets \in 0..MaxSecrets
    /\ visit \in [Visits -> [at : {"idle", "authorize", "check", "new", "count", "upsert", "look",
                                   "homeCount", "homeCreate", "signup", "bot", "webhook", "create",
                                   "unhook", "drop"},
                             flow : Flows \cup {"none"}, ig : Instagrams \cup {"none"},
                             bot : Bots \cup {"none"}, ws : AllWorkspaces \cup {Nowhere},
                             secret : 0..MaxSecrets, overtaken : BOOLEAN]]
    /\ slipped \subseteq Instagrams \X AllWorkspaces
    /\ completed \in [Flows -> Nat] /\ astray \subseteq Flows /\ cut \subseteq Bots

ConnectInit ==
    /\ flow = [f \in Flows |-> NoFlow] /\ result = [f \in Flows |-> NoResult]
    /\ account = [i \in Instagrams |-> Nowhere] /\ linked = {}
    /\ bot = [b \in Bots |-> NoBot] /\ hook = [b \in Bots |-> 0] /\ secrets = 0
    /\ visit = [v \in Visits |-> NoVisit]
    /\ slipped = {} /\ completed = [f \in Flows |-> 0] /\ astray = {} /\ cut = {}

VisitAt(v, step) == visit[v].at = step
Goes(v, step)    == visit' = [visit EXCEPT ![v].at = step]
Ends(v)          == visit' = [visit EXCEPT ![v] = NoVisit]

-----------------------------------------------------------------------------
(* oauth-flow.ts and the routes around it                                  *)

\* startOAuthFlow: a web or mobile connection names a workspace, a sign-in none.
Start(f, client, w) ==
    /\ flow[f].at = "none"
    /\ (client = "mobile-signup") <=> (w = Nowhere)
    /\ flow' = [flow EXCEPT ![f] = [at |-> "open", client |-> client, ws |-> w]]
    /\ UNCHANGED <<result, account, linked, bot, hook, secrets, visit, slipped, completed, astray, cut>>

\* consumeOAuthFlow takes the flow out of Redis, whoever brings it.  Then a web
\* flow has to be in the browser, and the session, that started it.
Callback(v, f, starter) ==
    /\ VisitAt(v, "idle") /\ flow[f].at = "open"
    /\ flow' = [flow EXCEPT ![f].at = "gone"]
    /\ visit' = IF flow[f].client = "web" /\ ~starter THEN visit
                ELSE [visit EXCEPT ![v] = [NoVisit EXCEPT !.at = "authorize", !.flow = f]]
    /\ UNCHANGED <<result, account, linked, bot, hook, secrets, slipped, completed, astray, cut>>

\* authorizeInstagram.  The web connects at once, a mobile flow stores the result.
Authorize(v, i) ==
    LET f == visit[v].flow IN
    /\ VisitAt(v, "authorize")
    /\ IF flow[f].client = "web"
       THEN /\ visit' = [visit EXCEPT ![v].at = "check", ![v].ig = i, ![v].ws = flow[f].ws]
            /\ UNCHANGED result
       ELSE /\ result' = [result EXCEPT ![f] = [at |-> "stored", ig |-> i]]
            /\ Ends(v)
    /\ UNCHANGED <<flow, account, linked, bot, hook, secrets, slipped, completed, astray, cut>>

\* Seeded bug: the result is good for whoever holds its code.
RedeemAnyVerifier(v, f, starter) ==
    /\ VisitAt(v, "idle") /\ result[f].at = "stored"
    /\ result' = [result EXCEPT ![f].at = "gone"]
    /\ visit' = [visit EXCEPT ![v] = [NoVisit EXCEPT !.flow = f, !.ig = result[f].ig,
                     !.ws = flow[f].ws,
                     !.at = IF flow[f].client = "mobile" THEN "check" ELSE "look"]]
    /\ astray' = IF starter THEN astray ELSE astray \cup {f}
    /\ UNCHANGED <<flow, account, linked, bot, hook, secrets, slipped, completed, cut>>

\* complete and exchange: consumeOAuthResult takes the result out of Redis, and
\* only the app with the verifier goes on.
Redeem(v, f, starter) ==
    /\ VisitAt(v, "idle") /\ result[f].at = "stored"
    /\ result' = [result EXCEPT ![f].at = "gone"]
    /\ visit' = IF ~starter THEN visit
                ELSE [visit EXCEPT ![v] = [NoVisit EXCEPT !.flow = f, !.ig = result[f].ig,
                          !.ws = flow[f].ws,
                          !.at = IF flow[f].client = "mobile" THEN "check" ELSE "look"]]
    /\ UNCHANGED <<flow, account, linked, bot, hook, secrets, slipped, completed, astray, cut>>

\* Ten minutes for a flow, two for a result.
FlowExpires(f) ==
    /\ flow[f].at = "open" \/ result[f].at = "stored"
    /\ flow' = [flow EXCEPT ![f].at = "gone"]
    /\ result' = IF result[f].at = "stored" THEN [result EXCEPT ![f].at = "gone"] ELSE result
    /\ UNCHANGED <<account, linked, bot, hook, secrets, visit, slipped, completed, astray, cut>>

-----------------------------------------------------------------------------
(* instagram-oauth.ts                                                      *)

Connected(w) == Cardinality({i \in Instagrams : account[i] = w})
                + Cardinality({b \in Bots : bot[b].ws = w})

\* connectAuthorizedInstagramAccount: the phone and the role (they may have
\* changed: Refused), then whether another workspace has the account.
Check(v) ==
    /\ VisitAt(v, "check")
    /\ IF account[visit[v].ig] \in {Nowhere, visit[v].ws} THEN Goes(v, "new") ELSE Ends(v)
    /\ UNCHANGED <<flow, result, account, linked, bot, hook, secrets, slipped, completed, astray, cut>>

\* isNewConnection: only a new account needs room in the plan.
LookIfNew(v) ==
    /\ VisitAt(v, "new")
    /\ Goes(v, IF account[visit[v].ig] = Nowhere THEN "count" ELSE "upsert")
    /\ UNCHANGED <<flow, result, account, linked, bot, hook, secrets, slipped, completed, astray, cut>>

\* canConnectAnotherAccount
Count(v) ==
    /\ VisitAt(v, "count")
    /\ IF Connected(visit[v].ws) < AccountLimit
       THEN Goes(v, "upsert") /\ slipped' = slipped \ {<<visit[v].ig, visit[v].ws>>}
       ELSE Ends(v) /\ UNCHANGED slipped
    /\ UNCHANGED <<flow, result, account, linked, bot, hook, secrets, completed, astray, cut>>

\* An account goes to a workspace; a request that has checked it for another
\* workspace has been overtaken.
Arrives(v, i, w) ==
    /\ account' = [account EXCEPT ![i] = w]
    /\ visit' = [u \in Visits |-> IF u = v THEN NoVisit
                                  ELSE IF /\ visit[u].at \in {"new", "count", "upsert"}
                                          /\ visit[u].ig = i /\ visit[u].ws # w
                                  THEN [visit[u] EXCEPT !.overtaken = TRUE]
                                  ELSE visit[u]]
    /\ slipped' = IF visit[v].overtaken THEN slipped \cup {<<i, w>>} ELSE slipped
    /\ completed' = [completed EXCEPT ![visit[v].flow] = @ + 1]

\* After the subscription to its webhooks, which may fail: created, or moved
\* here from wherever it is by now.
Upsert(v) ==
    /\ VisitAt(v, "upsert")
    /\ Arrives(v, visit[v].ig, visit[v].ws)
    /\ UNCHANGED <<flow, result, linked, bot, hook, secrets, astray, cut>>

\* signInWithInstagram.  An account somebody signed up with signs them in, and
\* is connected to their home if nobody has it; one that others connected signs
\* nobody in.
LookForSignIn(v) ==
    LET i == visit[v].ig IN
    /\ VisitAt(v, "look")
    /\ IF i \in linked
       THEN IF account[i] = Nowhere THEN Goes(v, "homeCount") /\ UNCHANGED completed
            ELSE Ends(v) /\ completed' = [completed EXCEPT ![visit[v].flow] = @ + 1]
       ELSE IF account[i] = Nowhere THEN Goes(v, "signup") /\ UNCHANGED completed
            ELSE Ends(v) /\ UNCHANGED completed
    /\ UNCHANGED <<flow, result, account, linked, bot, hook, secrets, slipped, astray, cut>>

HomeCount(v) ==
    /\ VisitAt(v, "homeCount")
    /\ IF Connected(Home(visit[v].ig)) < AccountLimit
       THEN Goes(v, "homeCreate") /\ UNCHANGED completed
       ELSE Ends(v) /\ completed' = [completed EXCEPT ![visit[v].flow] = @ + 1]
    /\ UNCHANGED <<flow, result, account, linked, bot, hook, secrets, slipped, astray, cut>>

\* Created, unless somebody else was faster: a unique violation is ignored.
HomeCreate(v) ==
    LET i == visit[v].ig IN
    /\ VisitAt(v, "homeCreate")
    /\ IF account[i] = Nowhere THEN Arrives(v, i, Home(i))
       ELSE /\ Ends(v) /\ completed' = [completed EXCEPT ![visit[v].flow] = @ + 1]
            /\ UNCHANGED <<account, slipped>>
    /\ UNCHANGED <<flow, result, linked, bot, hook, secrets, astray, cut>>

\* The sign-up: user, link, workspace and account in one transaction; a unique
\* violation rolls all of it back.
SignUp(v) ==
    LET i == visit[v].ig IN
    /\ VisitAt(v, "signup")
    /\ IF i \notin linked /\ account[i] = Nowhere
       THEN Arrives(v, i, Home(i)) /\ linked' = linked \cup {i}
       ELSE Ends(v) /\ UNCHANGED <<account, linked, slipped, completed>>
    /\ UNCHANGED <<flow, result, bot, hook, secrets, astray, cut>>

\* POST of app/api/instagram/disconnect: one account of the workspace.
Disconnect(i) ==
    /\ account[i] # Nowhere
    /\ account' = [account EXCEPT ![i] = Nowhere]
    /\ UNCHANGED <<flow, result, linked, bot, hook, secrets, visit, slipped, completed, astray, cut>>

-----------------------------------------------------------------------------
(* app/api/telegram/connect                                                *)

\* POST: room in the plan, then the bot behind the token.
ConnectBot(v, b, w) ==
    /\ VisitAt(v, "idle") /\ Connected(w) < AccountLimit
    /\ visit' = [visit EXCEPT ![v] = [NoVisit EXCEPT !.at = "bot", !.bot = b, !.ws = w]]
    /\ UNCHANGED <<flow, result, account, linked, bot, hook, secrets, slipped, completed, astray, cut>>

LookForBot(v) ==
    /\ VisitAt(v, "bot")
    /\ IF bot[visit[v].bot].ws = Nowhere THEN Goes(v, "webhook") ELSE Ends(v)
    /\ UNCHANGED <<flow, result, account, linked, bot, hook, secrets, slipped, completed, astray, cut>>

\* Another request has set the bot's webhook and not written its row yet.
Crosses(v) == \E u \in Visits \ {v} : VisitAt(u, "create") /\ visit[u].bot = visit[v].bot

\* setWebhook with a new secret replaces whatever Telegram had.
SetWebhook(v) ==
    /\ VisitAt(v, "webhook") /\ secrets < MaxSecrets
    /\ secrets' = secrets + 1
    /\ hook' = [hook EXCEPT ![visit[v].bot] = secrets']
    /\ visit' = [visit EXCEPT ![v].at = "create", ![v].secret = secrets']
    /\ cut' = IF Crosses(v) THEN cut \cup {visit[v].bot} ELSE cut
    /\ UNCHANGED <<flow, result, account, linked, bot, slipped, completed, astray>>

\* The row, unless another request was faster: then this one throws.
CreateBot(v) ==
    LET b == visit[v].bot IN
    /\ VisitAt(v, "create")
    /\ IF bot[b].ws = Nowhere
       THEN bot' = [bot EXCEPT ![b] = [ws |-> visit[v].ws, secret |-> visit[v].secret]] /\ UNCHANGED cut
       ELSE cut' = cut \cup {b} /\ UNCHANGED bot
    /\ Ends(v)
    /\ UNCHANGED <<flow, result, account, linked, hook, secrets, slipped, completed, astray>>

\* DELETE: the bot is found, Telegram is told, the row goes.
FindBot(v, b) ==
    /\ VisitAt(v, "idle") /\ bot[b].ws # Nowhere
    /\ visit' = [visit EXCEPT ![v] = [NoVisit EXCEPT !.at = "unhook", !.bot = b,
                                                    !.secret = bot[b].secret]]
    /\ UNCHANGED <<flow, result, account, linked, bot, hook, secrets, slipped, completed, astray, cut>>

\* deleteWebhook, with an answer or (token revoked) without.
RemoveWebhook(v, removed) ==
    /\ VisitAt(v, "unhook")
    /\ hook' = IF removed THEN [hook EXCEPT ![visit[v].bot] = 0] ELSE hook
    /\ cut' = IF removed /\ (bot[visit[v].bot].secret # visit[v].secret \/ Crosses(v))
              THEN cut \cup {visit[v].bot} ELSE cut
    /\ Goes(v, "drop")
    /\ UNCHANGED <<flow, result, account, linked, bot, secrets, slipped, completed, astray>>

\* The row goes by its id: a bot that was connected anew has another one.
DropBot(v) ==
    LET b == visit[v].bot IN
    /\ VisitAt(v, "drop")
    /\ bot' = IF bot[b].secret = visit[v].secret THEN [bot EXCEPT ![b] = NoBot] ELSE bot
    /\ Ends(v)
    /\ UNCHANGED <<flow, result, account, linked, hook, secrets, slipped, completed, astray, cut>>

\* The server dies, Meta or Telegram fails, or the visitor may not do this any more.
VisitFails(v) ==
    /\ ~VisitAt(v, "idle")
    /\ cut' = IF VisitAt(v, "create") \/ VisitAt(v, "drop") THEN cut \cup {visit[v].bot} ELSE cut
    /\ Ends(v)
    /\ UNCHANGED <<flow, result, account, linked, bot, hook, secrets, slipped, completed, astray>>

ConnectNext ==
    \/ \E f \in Flows :
          \/ \E client \in Clients, w \in Workspaces \cup {Nowhere} : Start(f, client, w)
          \/ \E v \in Visits, starter \in BOOLEAN : Callback(v, f, starter) \/ Redeem(v, f, starter)
          \/ FlowExpires(f)
    \/ \E v \in Visits :
          \/ \E i \in Instagrams : Authorize(v, i)
          \/ Check(v) \/ LookIfNew(v) \/ Count(v) \/ Upsert(v)
          \/ LookForSignIn(v) \/ HomeCount(v) \/ HomeCreate(v) \/ SignUp(v)
          \/ \E b \in Bots, w \in Workspaces : ConnectBot(v, b, w)
          \/ \E b \in Bots : FindBot(v, b)
          \/ \E removed \in BOOLEAN : RemoveWebhook(v, removed)
          \/ LookForBot(v) \/ SetWebhook(v) \/ CreateBot(v) \/ DropBot(v)
          \/ VisitFails(v)
    \/ \E i \in Instagrams : Disconnect(i)

ConnectSpec == ConnectInit /\ [][ConnectNext]_connectVars

-----------------------------------------------------------------------------
(* Properties                                                              *)

\* A flow connects or signs in once, however often its link is opened, and only
\* for the browser or the app that started it.
FlowsWorkOnce == \A f \in Flows : completed[f] <= 1
FlowsStayWithTheirStarter == astray = {}

\* Counting the accounts and adding one are two steps: a workspace has at most
\* one account more than its plan for every other request under way.  An account
\* that an overtaken request brought here was not counted, nor will be until it has
\* gone and is connected anew.
PlansHoldTheirAccounts ==
    \A w \in AllWorkspaces :
        Cardinality({i \in Instagrams : account[i] = w /\ <<i, w>> \notin slipped})
            + Cardinality({b \in Bots : bot[b].ws = w})
          <= AccountLimit + Cardinality(Visits) - 1

\* The upsert moves an account out of another workspace without a word; this
\* happens only to a request that checked before the account got there.
OnlyRacesMoveAccounts ==
    [][\A i \in Instagrams : account[i] # Nowhere /\ account'[i] \notin {Nowhere, account[i]} =>
          \E v \in Visits : visit[v].ig = i /\ visit[v].overtaken /\ visit'[v] = NoVisit]_connectVars

\* A person signs up with an account together with the account: there is no
\* user whose first workspace never had it.
SignUpsAreWhole ==
    [][\A i \in Instagrams : i \in linked' \ linked => account'[i] = Home(i)]_connectVars

\* A connected bot answers: Telegram sends the secret its row has.  Otherwise a
\* request is still at it, or one lost a race or died half way.
DeafBotsAreExplained ==
    \A b \in Bots : bot[b].ws # Nowhere /\ hook[b] # bot[b].secret =>
        b \in cut \/ \E v \in Visits : visit[v].bot = b

\* Connecting accounts: a flow works once and for whoever started it, the plan's
\* number of accounts and their workspaces give way only to requests that race,
\* a sign-up is whole, and a deaf bot is explained.
ConnectionsAreSound ==
    /\ [](/\ ConnectTypeOK
          /\ FlowsWorkOnce
          /\ FlowsStayWithTheirStarter
          /\ PlansHoldTheirAccounts
          /\ DeafBotsAreExplained)
    /\ OnlyRacesMoveAccounts
    /\ SignUpsAreWhole

=============================================================================
