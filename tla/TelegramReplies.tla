-------------------------- MODULE TelegramReplies ---------------------------
(***************************************************************************)
(* The replies of one Telegram bot: its webhook                            *)
(* (app/api/webhook/telegram/[botId]), handled inside the request and not  *)
(* through a queue, and the automations it answers with                    *)
(* (app/api/telegram/automations).  Telegram delivers an update until it   *)
(* is acknowledged, so the handler claims the update's id in Redis first.  *)
(* The allowance is the one of WorkspaceUsage, within one month.           *)
(***************************************************************************)
EXTENDS Naturals, FiniteSets, FiniteSetsExt

CONSTANTS Updates,          \* messages to the bot
          Words,            \* keywords
          Says,             \* Says[u]: the keywords the text of u has
          Requests,         \* webhook requests that run at the same time
          MaxAutomations, ReplyLimit,
          MaxDeliveries,    \* bound on the deliveries of one update
          MaxEdits          \* bound on what the workspace does meanwhile

ASSUME TelegramAssumption ==
    /\ Says \in [Updates -> SUBSET Words] /\ IsFiniteSet(Requests) /\ IsFiniteSet(Updates)
    /\ MaxAutomations \in Nat /\ ReplyLimit \in Nat /\ MaxDeliveries \in Nat /\ MaxEdits \in Nat

VARIABLES
    connected,    \* the TelegramAccount is there
    verified,     \* its owner has a verified phone
    automation,   \* TelegramAutomation, by age
    claimed,      \* Redis: tg:update keys
    used,         \* Workspace.dmsSentThisPeriod
    log,          \* TelegramMessageLog: the newest row of an update
    request,      \* the webhook requests
    delivered,    \* Telegram: deliveries of an update
    acked,        \* Telegram: updates it has been told are handled
    replies,      \* Telegram: replies it sent to an update
    edits,        \* bound
    blind,        \* observer: updates handled while Redis was away
    silent,       \* observer: updates that called for no reply
    interrupted,  \* observer: updates a claimed delivery of which died or threw
    refunded,     \* observer: how often an update was answered and then taken for failed
    leaked        \* observer: reservations that nobody gave back

tgVars == <<connected, verified, automation, claimed, used, log, request, delivered, acked,
            replies, edits, blind, silent, interrupted, refunded, leaked>>

Automations == 1..MaxAutomations
NoAutomation == [exists |-> FALSE, active |-> FALSE, words |-> {}]
NoRequest == [at |-> "idle", update |-> "none", automation |-> 0, sent |-> FALSE]

TgTypeOK ==
    /\ connected \in BOOLEAN /\ verified \in BOOLEAN
    /\ \A a \in Automations :
          /\ automation[a].words \subseteq Words
          /\ automation[a].exists => connected /\ automation[a].words # {}
    /\ claimed \subseteq Updates /\ acked \subseteq Updates /\ used \in 0..ReplyLimit
    /\ log \in [Updates -> {"none", "gone", "PENDING", "SENT", "FAILED", "SKIPPED_PLAN_LIMIT"}]
    /\ request \in [Requests -> [at : {"idle", "claim", "match", "reserve", "skip", "log", "send",
                                       "record", "undo", "failed"},
                                 update : Updates \cup {"none"}, automation : 0..MaxAutomations,
                                 sent : BOOLEAN]]
    /\ delivered \in [Updates -> 0..MaxDeliveries] /\ replies \in [Updates -> Nat]
    /\ edits \in 0..MaxEdits /\ leaked \in Nat
    /\ blind \subseteq Updates /\ silent \subseteq Updates
    /\ interrupted \subseteq Updates /\ refunded \in [Updates -> Nat]

TgInit ==
    /\ connected = TRUE /\ verified \in BOOLEAN
    /\ automation = [a \in Automations |-> NoAutomation]
    /\ claimed = {} /\ used = 0 /\ log = [u \in Updates |-> "none"]
    /\ request = [r \in Requests |-> NoRequest]
    /\ delivered = [u \in Updates |-> 0] /\ acked = {} /\ replies = [u \in Updates |-> 0]
    /\ edits = 0 /\ blind = {} /\ silent = {} /\ interrupted = {}
    /\ refunded = [u \in Updates |-> 0] /\ leaked = 0

-----------------------------------------------------------------------------
(* api/telegram/automations, and what else the workspace may do            *)

Edit == edits < MaxEdits /\ edits' = edits + 1
WebhookQuiet == UNCHANGED <<claimed, used, request, delivered, acked, replies, blind, silent,
                            interrupted, refunded, leaked>>

\* POST: a new automation is the youngest.
CreateAutomation(a, words) ==
    /\ Edit /\ connected /\ ~automation[a].exists /\ words # {}
    /\ \A b \in Automations : automation[b].exists => b < a
    /\ automation' = [automation EXCEPT ![a] = [exists |-> TRUE, active |-> TRUE, words |-> words]]
    /\ UNCHANGED <<connected, verified, log>> /\ WebhookQuiet

\* PATCH: what the body has replaces what the row has.
PatchAutomation(a, active, words) ==
    /\ Edit /\ automation[a].exists /\ words # {}
    /\ automation' = [automation EXCEPT ![a].active = active, ![a].words = words]
    /\ UNCHANGED <<connected, verified, log>> /\ WebhookQuiet

\* DELETE: the logs stay, without the automation.
DeleteAutomation(a) ==
    /\ Edit /\ automation[a].exists
    /\ automation' = [automation EXCEPT ![a] = NoAutomation]
    /\ UNCHANGED <<connected, verified, log>> /\ WebhookQuiet

\* The bot is disconnected: automations and logs go with it.
DisconnectBot ==
    /\ Edit /\ connected
    /\ connected' = FALSE
    /\ automation' = [a \in Automations |-> NoAutomation]
    /\ log' = [u \in Updates |-> IF log[u] = "none" THEN "none" ELSE "gone"]
    /\ UNCHANGED verified /\ WebhookQuiet

VerifyOwner ==
    /\ Edit /\ ~verified /\ verified' = TRUE
    /\ UNCHANGED <<connected, automation, log>> /\ WebhookQuiet

-----------------------------------------------------------------------------
(* POST of the webhook, an action per round trip                           *)

At(r, step) == request[r].at = step
To(r, step) == request' = [request EXCEPT ![r].at = step]
Done(r)     == request' = [request EXCEPT ![r] = NoRequest]
Update(r)   == request[r].update
Acks(r)     == Done(r) /\ acked' = acked \cup {Update(r)}
Rows        == <<connected, verified, automation, delivered, edits>>

\* The exception leaves the handler: 500, and Telegram tries again.
Throws(r, holding) ==
    /\ Done(r)
    /\ interrupted' = interrupted \cup {Update(r)}
    /\ leaked' = leaked + (IF holding THEN 1 ELSE 0)

\* The bot is known; nothing is sent for an owner without a verified phone.
TgArrive(r, u) ==
    /\ At(r, "idle") /\ u \notin acked /\ delivered[u] < MaxDeliveries
    /\ delivered' = [delivered EXCEPT ![u] = @ + 1]
    /\ IF ~connected THEN UNCHANGED <<request, acked, silent>>
       ELSE IF ~verified THEN /\ acked' = acked \cup {u} /\ silent' = silent \cup {u}
                              /\ UNCHANGED request
       ELSE /\ request' = [request EXCEPT ![r] = [NoRequest EXCEPT !.at = "claim", !.update = u]]
            /\ UNCHANGED <<acked, silent>>
    /\ UNCHANGED <<connected, verified, automation, claimed, used, log, replies, edits, blind,
                   interrupted, refunded, leaked>>

\* Seeded bug: the claim is read here, and written with the log.
ClaimIsRead(r, up) ==
    /\ At(r, "claim")
    /\ IF up /\ Update(r) \in claimed THEN Acks(r) ELSE To(r, "match") /\ UNCHANGED acked
    /\ blind' = IF up THEN blind ELSE blind \cup {Update(r)}
    /\ UNCHANGED <<claimed, used, log, replies, silent, interrupted, refunded, leaked>> /\ UNCHANGED Rows

\* SET NX.  Without Redis every delivery counts as the first.
TgClaim(r, up) ==
    /\ At(r, "claim")
    /\ IF up /\ Update(r) \in claimed THEN Acks(r) ELSE To(r, "match") /\ UNCHANGED acked
    /\ claimed' = IF up THEN claimed \cup {Update(r)} ELSE claimed
    /\ blind' = IF up THEN blind ELSE blind \cup {Update(r)}
    /\ UNCHANGED <<used, log, replies, silent, interrupted, refunded, leaked>> /\ UNCHANGED Rows

Fitting(u) == {a \in Automations : automation[a].active /\ automation[a].words \cap Says[u] # {}}

\* The oldest active automation that a keyword fits; a message that fits none
\* is not even stored.
TgMatch(r) ==
    LET fits == Fitting(Update(r)) IN
    /\ At(r, "match")
    /\ IF fits = {}
       THEN Acks(r) /\ silent' = silent \cup {Update(r)}
       ELSE /\ request' = [request EXCEPT ![r].at = "reserve", ![r].automation = Min(fits)]
            /\ UNCHANGED <<acked, silent>>
    /\ UNCHANGED <<claimed, used, log, replies, blind, interrupted, refunded, leaked>> /\ UNCHANGED Rows

TgReserve(r) ==
    /\ At(r, "reserve")
    /\ IF used < ReplyLimit THEN used' = used + 1 /\ To(r, "log") ELSE To(r, "skip") /\ UNCHANGED used
    /\ UNCHANGED <<claimed, log, acked, replies, blind, silent, interrupted, refunded, leaked>>
    /\ UNCHANGED Rows

\* The row needs the automation and the bot it refers to.
LogSkip(r) ==
    /\ At(r, "skip")
    /\ IF automation[request[r].automation].exists
       THEN /\ log' = [log EXCEPT ![Update(r)] = "SKIPPED_PLAN_LIMIT"]
            /\ Acks(r) /\ UNCHANGED <<interrupted, leaked>>
       ELSE Throws(r, FALSE) /\ UNCHANGED <<log, acked>>
    /\ UNCHANGED <<claimed, used, replies, blind, silent, refunded>> /\ UNCHANGED Rows

LogPending(r) ==
    /\ At(r, "log")
    /\ IF automation[request[r].automation].exists
       THEN /\ log' = [log EXCEPT ![Update(r)] = "PENDING"]
            /\ To(r, "send") /\ UNCHANGED <<interrupted, leaked>>
       ELSE Throws(r, TRUE) /\ UNCHANGED log
    /\ UNCHANGED <<claimed, used, acked, replies, blind, silent, refunded>> /\ UNCHANGED Rows

\* sendMessage: Telegram may send the reply and its answer be lost.
SendReply(r, sent, answered) ==
    /\ At(r, "send") /\ (answered => sent)
    /\ replies' = IF sent THEN [replies EXCEPT ![Update(r)] = @ + 1] ELSE replies
    /\ request' = [request EXCEPT ![r].at = IF answered THEN "record" ELSE "undo", ![r].sent = sent]
    /\ UNCHANGED <<claimed, used, log, acked, blind, silent, interrupted, refunded, leaked>>
    /\ UNCHANGED Rows

\* A row that went with the bot, or a database that fails, ends in the same
\* catch as a refusal by Telegram.
RecordReply(r, up) ==
    /\ At(r, "record")
    /\ IF up /\ log[Update(r)] # "gone"
       THEN log' = [log EXCEPT ![Update(r)] = "SENT"] /\ Acks(r)
       ELSE To(r, "undo") /\ UNCHANGED <<log, acked>>
    /\ UNCHANGED <<claimed, used, replies, blind, silent, interrupted, refunded, leaked>>
    /\ UNCHANGED Rows

\* The catch: releaseWorkspaceDMReservation, whatever became of the reply.
Undo(r) ==
    /\ At(r, "undo")
    /\ used' = used - 1
    /\ To(r, "failed")
    /\ refunded' = IF request[r].sent THEN [refunded EXCEPT ![Update(r)] = @ + 1] ELSE refunded
    /\ UNCHANGED <<claimed, log, acked, replies, blind, silent, interrupted, leaked>>
    /\ UNCHANGED Rows

RecordFailed(r) ==
    /\ At(r, "failed")
    /\ IF log[Update(r)] # "gone"
       THEN log' = [log EXCEPT ![Update(r)] = "FAILED"] /\ Acks(r) /\ UNCHANGED <<interrupted, leaked>>
       ELSE Throws(r, FALSE) /\ UNCHANGED <<log, acked>>
    /\ UNCHANGED <<claimed, used, replies, blind, silent, refunded>> /\ UNCHANGED Rows

\* The server dies, or the database fails: only a reservation is left over.
TgDies(r) ==
    /\ ~At(r, "idle")
    /\ Throws(r, request[r].at \in {"log", "send", "undo"} /\ ~request[r].sent)
    /\ UNCHANGED <<claimed, used, log, acked, replies, blind, silent, refunded>> /\ UNCHANGED Rows

TgNext ==
    \/ \E a \in Automations :
          \/ \E words \in SUBSET Words :
                CreateAutomation(a, words) \/ \E active \in BOOLEAN : PatchAutomation(a, active, words)
          \/ DeleteAutomation(a)
    \/ DisconnectBot \/ VerifyOwner
    \/ \E r \in Requests :
          \/ \E u \in Updates : TgArrive(r, u)
          \/ \E up \in BOOLEAN : TgClaim(r, up) \/ RecordReply(r, up)
          \/ \E sent, answered \in BOOLEAN : SendReply(r, sent, answered)
          \/ TgMatch(r) \/ TgReserve(r) \/ LogSkip(r) \/ LogPending(r) \/ Undo(r)
          \/ RecordFailed(r) \/ TgDies(r)

TgSpec == TgInit /\ [][TgNext]_tgVars

-----------------------------------------------------------------------------
(* Properties                                                              *)

Handled(u) == u \in acked /\ \A r \in Requests : Update(r) # u

\* However often Telegram delivers an update it is answered once, unless Redis
\* was away.
RepliesAreSentOnce == \A u \in Updates \ blind : replies[u] <= 1

\* An update that Telegram has been told is handled was answered, called for no
\* answer, is in the log as skipped or failed, or lost its only delivery: the
\* id is claimed before the reply is sent, and nobody tries again.
SilenceIsExplained ==
    \A u \in Updates : Handled(u) /\ replies[u] = 0 =>
        \/ u \in silent \cup interrupted
        \/ log[u] \in {"FAILED", "SKIPPED_PLAN_LIMIT", "gone"}

\* The allowance counts every reply and every reservation under way, but for
\* the replies that were taken for failed, and with the reservations of
\* handlers that died.
RepliesAreCounted ==
    used + MapThenSumSet(LAMBDA u : refunded[u], Updates) =
    MapThenSumSet(LAMBDA u : replies[u], Updates) + leaked
    + Cardinality({r \in Requests : request[r].at \in {"log", "send", "undo"} /\ ~request[r].sent})

\* The log says SENT of what was sent, and FAILED of nothing that was sent but
\* replies whose answer or whose row was lost.
TheLogTellsTheTruth ==
    \A u \in Updates \ blind :
        /\ log[u] = "SENT" => replies[u] = 1
        /\ log[u] = "FAILED" /\ replies[u] = 1 => refunded[u] = 1

\* A bot's update, delivered again and again: one reply, silence only with a
\* reason, allowance and log agreeing with what was sent.
RepliesAreSound ==
    /\ TgTypeOK
    /\ RepliesAreSentOnce
    /\ SilenceIsExplained
    /\ RepliesAreCounted
    /\ TheLogTellsTheTruth

=============================================================================
