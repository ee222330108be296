---------------------------- MODULE Conversations ----------------------------
(***************************************************************************)
(* What one person says to one account, and what comes back.  The webhook  *)
(* route turns a payload of direct messages and button taps into BullMQ    *)
(* jobs; processMessage and processPostback in lib/queue/dm-worker.ts run  *)
(* them, a message against every campaign it matches, a tap against its    *)
(* own.  A gated campaign gives its link to a confirmed follower only;     *)
(* anybody else is asked to follow: for a message by a metered reply, for  *)
(* a tap by an unmetered and throttled one.                                *)
(*                                                                         *)
(* One action per await that another slot of the worker, the webhook or    *)
(* the person can get in before.  The usage counter and the limiter are    *)
(* atomic here and detailed in WorkspaceUsage and RateLimiter.  The 24     *)
(* hours of Meta's messaging window and of the repeat window are one day.  *)
(***************************************************************************)
EXTENDS Naturals, FiniteSets, FiniteSetsExt

CONSTANTS
    NumCampaigns,                \* campaigns, numbered by createdAt
    Gated,                       \* campaigns with requireFollow
    AnyWord,                     \* campaigns with matchAnyWord
    Messages,                    \* direct messages, by message id
    Matches,                     \* the campaigns whose keywords a message has
    Taps,                        \* button taps, by mid
    TapOf,                       \* the campaign a button belongs to
    Payloads,                    \* the interactions of every webhook payload
    Workers,                     \* the worker's concurrent job slots
    DmLimit,                     \* the plan's monthly cap
    JOB_ATTEMPTS,                \* BullMQ attempts per job
    MAX_BURST_REQUEUE_ATTEMPTS,
    MaxHourlyRequeues,           \* bound: the code requeues without end
    Blocks,                      \* which windows of the limiter can block
    Pausable,                    \* campaigns the owner may switch off
    Events,                      \* which of the optional events can happen
    MaxPayloads,                 \* bound on the payloads of a behaviour
    MaxDeliveries,               \* bound on the deliveries of a payload
    MaxFaults,                   \* bound on crashes and failing calls
    LastDay                      \* bound on the calendar

Campaigns    == 1..NumCampaigns
Interactions == Messages \cup Taps
JobIds       == Interactions \X (0..MaxHourlyRequeues) \X (0..MAX_BURST_REQUEUE_ATTEMPTS)

\* What can go wrong: the process dies; Meta or the database did it but the answer
\* is lost; the limiter or the throttle cannot be reached; a completed job is
\* forgotten; a query, a token or Meta refuses; a window of the limiter is full.
Faults == {"crash", "lostAnswer", "limiter", "throttle", "evict", "refused", "blocked"}

ASSUME ConversationsAssumption ==
    /\ NumCampaigns \in Nat \ {0}
    /\ Gated \subseteq Campaigns /\ AnyWord \subseteq Campaigns
    /\ IsFiniteSet(Interactions) /\ Interactions # {} /\ Messages \cap Taps = {}
    /\ Matches \in [Messages -> SUBSET Campaigns]
    /\ TapOf \in [Taps -> Campaigns]
    /\ Payloads \subseteq SUBSET Interactions
    /\ IsFiniteSet(Workers)
    /\ DmLimit \in Nat /\ JOB_ATTEMPTS \in Nat \ {0}
    /\ MAX_BURST_REQUEUE_ATTEMPTS \in Nat /\ MaxHourlyRequeues \in Nat
    /\ Blocks \subseteq {"burst", "hourly"}
    /\ Events \subseteq Faults \cup {"unknownFollow"}
    /\ Pausable \subseteq Campaigns
    /\ MaxPayloads \in Nat /\ MaxDeliveries \in Nat /\ MaxFaults \in Nat /\ LastDay \in Nat

VARIABLES
    hook,       \* the webhook request and WebhookEvent of every payload
    job,        \* BullMQ: the job stored under every id
    wk,         \* the slots of the worker
    log,        \* DmLog, one row per campaign and interaction
    used,       \* Workspace.dmsSentThisPeriod
    throttled,  \* Redis: campaigns whose followprompt: key is alive
    active,     \* campaigns with isActive
    day,        \* the clock
    arrived,    \* interactionTimestamp: the day an interaction happened
    follows,    \* Instagram: the person follows the account
    links,      \* Instagram: links the person got
    asks,       \* Instagram: metered follow prompts the person got
    prompts,    \* Instagram: unmetered follow prompts, per campaign
    followed,   \* observer: interactions since which the person followed
    races,      \* observer: taps that were handled at the same time
    expiries,   \* observer: times a followprompt: key expired
    faults      \* faults of every kind so far

queueVars == <<hook, job>>
metaVars  == <<links, asks, prompts>>
envVars   == <<active, day, arrived, follows, followed, faults>>
vars      == <<queueVars, wk, log, used, throttled, metaVars, races, expiries, envVars>>

Rows     == Campaigns \X Interactions
Statuses == {"none", "SENT", "FAILED", "SKIPPED_PLAN_LIMIT", "SKIPPED_RATE_LIMIT"}
Steps    == {"idle", "check", "follow", "prompt", "reserve", "slot", "send", "sent"}

NoId   == <<CHOOSE i \in Interactions : TRUE, 0, 0>>
Idle   == [at |-> "idle", id |-> NoId, todo |-> {}, confirmed |-> FALSE]
NoJob  == [state |-> "none", tries |-> 0, stalls |-> 0]

TypeOK ==
    /\ hook \in [Payloads -> [state : {"none", "adding", "FAILED", "PROCESSED"},
                              left : SUBSET Interactions, deliveries : 0..MaxDeliveries]]
    /\ job \in [JobIds -> [state : {"none", "waiting", "active", "completed", "failed"},
                           tries : 0..JOB_ATTEMPTS, stalls : 0..1]]
    /\ wk \in [Workers -> [at : Steps, id : JobIds, todo : SUBSET Campaigns,
                           confirmed : BOOLEAN]]
    /\ log \in [Rows -> [status : Statuses, stage : {"none", "FOLLOW_PROMPT", "DELIVERY"},
                         dmSentAt : 0..LastDay]]
    /\ used \in 0..DmLimit
    /\ throttled \subseteq Campaigns /\ active \subseteq Campaigns
    /\ day \in 0..LastDay /\ arrived \in [Interactions -> 0..LastDay]
    /\ follows \in BOOLEAN
    /\ links \in [Rows -> Nat] /\ asks \in [Rows -> Nat]
    /\ prompts \in [Campaigns -> Nat] /\ expiries \in [Campaigns -> Nat]
    /\ followed \subseteq Interactions
    /\ races \subseteq SUBSET Interactions
    /\ faults \in [Faults -> Nat]

Init ==
    /\ hook = [p \in Payloads |-> [state |-> "none", left |-> {}, deliveries |-> 0]]
    /\ job = [id \in JobIds |-> NoJob]
    /\ wk = [w \in Workers |-> Idle]
    /\ log = [r \in Rows |-> [status |-> "none", stage |-> "none", dmSentAt |-> 0]]
    /\ used = 0 /\ throttled = {} /\ active = Campaigns
    /\ day = 0 /\ arrived = [i \in Interactions |-> 0]
    /\ follows \in BOOLEAN
    /\ links = [r \in Rows |-> 0] /\ asks = [r \in Rows |-> 0]
    /\ prompts = [c \in Campaigns |-> 0] /\ expiries = [c \in Campaigns |-> 0]
    /\ followed = {} /\ races = {}
    /\ faults = [f \in Faults |-> 0]

FaultCount == MapThenSumSet(LAMBDA f : faults[f], Faults)

Fault(f) ==
    /\ f \in Events /\ FaultCount < MaxFaults
    /\ faults' = [faults EXCEPT ![f] = @ + 1]

-----------------------------------------------------------------------------
(* POST of app/api/webhook/route.ts                                        *)

Added(id) == IF job[id].state = "none" THEN [job EXCEPT ![id].state = "waiting"] ELSE job

Arrived == UNION {p \in Payloads : hook[p].deliveries > 0}

\* Meta delivers a payload: the signature is right, the event is stored.  The
\* first delivery is when the person wrote or tapped.  Another delivery of what
\* was PROCESSED adds nothing while BullMQ remembers the jobs, and is left out.
Deliver(p) ==
    /\ \/ hook[p].state \in {"none", "FAILED"}
       \/ hook[p].state = "PROCESSED" /\ \E i \in p : job[<<i, 0, 0>>].state = "none"
    /\ hook[p].deliveries < MaxDeliveries
    /\ Cardinality({q \in Payloads \ {p} : hook[q].state # "none"}) < MaxPayloads
    /\ hook' = [hook EXCEPT ![p] = [state |-> "adding", left |-> p, deliveries |-> @.deliveries + 1]]
    /\ arrived' = [i \in Interactions |-> IF i \in p \ Arrived THEN day ELSE arrived[i]]
    /\ followed' = IF follows THEN followed \cup p ELSE followed
    /\ UNCHANGED <<job, wk, log, used, throttled, metaVars, races, expiries, active, day, follows,
                   faults>>

\* Message jobs are added before postback jobs, one await each.
Enqueue(p) ==
    /\ hook[p].state = "adding" /\ hook[p].left # {}
    /\ \E i \in IF hook[p].left \cap Messages # {} THEN hook[p].left \cap Messages ELSE hook[p].left :
          /\ job' = Added(<<i, 0, 0>>)
          /\ hook' = [hook EXCEPT ![p].left = @ \ {i}]
    /\ UNCHANGED <<wk, log, used, throttled, metaVars, races, expiries, envVars>>

Processed(p) ==
    /\ hook[p].state = "adding" /\ hook[p].left = {}
    /\ hook' = [hook EXCEPT ![p].state = "PROCESSED"]
    /\ UNCHANGED <<job, wk, log, used, throttled, metaVars, races, expiries, envVars>>

\* catch: the event is FAILED and the 500 makes Meta deliver the whole payload
\* again.  The jobs added before stay.
EnqueueFails(p) ==
    /\ hook[p].state = "adding" /\ Fault("refused")
    /\ hook' = [hook EXCEPT ![p].state = "FAILED"]
    /\ UNCHANGED <<job, wk, log, used, throttled, metaVars, races, expiries, active, day, arrived,
                   follows, followed>>

\* removeOnComplete { count: 1000 }
EvictCompleted(id) ==
    /\ job[id].state = "completed" /\ Fault("evict")
    /\ job' = [job EXCEPT ![id] = NoJob]
    /\ UNCHANGED <<hook, wk, log, used, throttled, metaVars, races, expiries, active, day, arrived,
                   follows, followed>>

-----------------------------------------------------------------------------
(* The worker's place in a job                                             *)

About(w) == wk[w].id[1]
IsTap(w) == About(w) \in Taps
Here(w)  == Min(wk[w].todo)
Row(w)   == <<Here(w), About(w)>>
At(w, s) == wk[w].at = s
Goto(w, s) == wk' = [wk EXCEPT ![w].at = s]

\* A job that looks at campaigns, the oldest first.
Looking(id, campaigns) == [at |-> "check", id |-> id, todo |-> campaigns, confirmed |-> FALSE]

\* `return`: the job is completed, whatever is left of the loop.
Return(w) ==
    /\ job' = [job EXCEPT ![wk[w].id].state = "completed"]
    /\ wk' = [wk EXCEPT ![w] = Idle]

\* Done with this campaign: a message goes on with the next one.
Continue(w) ==
    /\ wk' = [wk EXCEPT ![w] = Looking(wk[w].id, wk[w].todo \ {Here(w)})]
    /\ UNCHANGED job

Throw(w) ==
    LET id == wk[w].id IN
    /\ job' = [job EXCEPT ![id].tries = @ + 1,
                          ![id].state = IF job[id].tries + 1 < JOB_ATTEMPTS THEN "waiting" ELSE "failed"]
    /\ wk' = [wk EXCEPT ![w] = Idle]

Write(w, s, stage) ==
    log' = [log EXCEPT ![Row(w)] = [status |-> s,
                                    stage |-> IF s = "SENT" THEN stage ELSE @.stage,
                                    dmSentAt |-> IF s = "SENT" THEN day ELSE @.dmSentAt]]

-----------------------------------------------------------------------------
(* processMessage and processPostback                                      *)

WithinMessagingWindow(i) == arrived[i] = day

\* The campaigns a job will look at, as they are when it starts.
Concerned(i) ==
    active \cap (IF i \in Taps THEN {TapOf[i]} ELSE AnyWord \cup Matches[i])

Take(w, id) ==
    /\ At(w, "idle") /\ job[id].state = "waiting"
    /\ IF WithinMessagingWindow(id[1])
       THEN /\ wk' = [wk EXCEPT ![w] = Looking(id, Concerned(id[1]))]
            /\ job' = [job EXCEPT ![id].state = "active"]
            /\ races' = races \cup ({{About(v), id[1]} : v \in {v \in Workers : wk[v].at # "idle"}}
                                        \cap SUBSET Taps)
       ELSE /\ job' = [job EXCEPT ![id].state = "completed"]
            /\ UNCHANGED <<wk, races>>
    /\ UNCHANGED <<hook, log, used, throttled, metaVars, expiries, envVars>>

\* The loop is over, or the campaign of the button is gone.
Finish(w) ==
    /\ At(w, "check") /\ wk[w].todo = {}
    /\ Return(w)
    /\ UNCHANGED <<hook, log, used, throttled, metaVars, races, expiries, envVars>>

\* A reply of this campaign, to an interaction of the same kind, within 24 h.
SentRecently(c, kind) ==
    \E i \in kind : log[<<c, i>>].status = "SENT" /\ log[<<c, i>>].dmSentAt = day

Revealed(c, t) == log[<<c, t>>].status = "SENT" \/ SentRecently(c, Taps)

Replied(c, m) ==
    \/ log[<<c, m>>].status \in {"SENT", "SKIPPED_PLAN_LIMIT"}
    \/ c \in AnyWord /\ SentRecently(c, Messages)

AlreadyAnswered(c, i) == IF i \in Taps THEN Revealed(c, i) ELSE Replied(c, i)

Check(w) ==
    /\ At(w, "check") /\ wk[w].todo # {}
    /\ IF AlreadyAnswered(Here(w), About(w)) THEN Continue(w)
       ELSE Goto(w, "follow") /\ UNCHANGED job
    /\ UNCHANGED <<hook, log, used, throttled, metaVars, races, expiries, envVars>>

\* No token, or one that does not decrypt: a message leaves a FAILED row.
NoToken(w) ==
    /\ At(w, "follow") /\ Fault("refused")
    /\ IF IsTap(w) THEN UNCHANGED log ELSE Write(w, "FAILED", "none")
    /\ Continue(w)
    /\ UNCHANGED <<hook, used, throttled, metaVars, races, expiries, active, day, arrived, follows,
                   followed>>

\* Seeded bug: a status Meta does not tell counts as a follow.
FollowStatusUnlessFalse(w) ==
    {TRUE} \cup (IF follows THEN {} ELSE {FALSE})

\* getUserFollowStatus: null, for a failing call too, is not a follow.
FollowStatus(w) ==
    IF "unknownFollow" \in Events THEN {follows, FALSE} ELSE {follows}

ReadFollow(w) ==
    /\ At(w, "follow")
    /\ \E confirmed \in IF Here(w) \in Gated THEN FollowStatus(w) ELSE {TRUE} :
          wk' = [wk EXCEPT ![w].confirmed = confirmed,
                           ![w].at = IF IsTap(w) /\ ~confirmed THEN "prompt" ELSE "reserve"]
    /\ UNCHANGED <<queueVars, log, used, throttled, metaVars, races, expiries, envVars>>

\* allowFollowPrompt and the prompt of a tap.  It is neither metered nor
\* logged, a failing send changes nothing, a failing Redis lets it pass.
Prompt(w) ==
    /\ At(w, "prompt")
    /\ \/ /\ Here(w) \in throttled
          /\ UNCHANGED <<prompts, throttled, faults>>
       \/ /\ Here(w) \notin throttled
          /\ throttled' = throttled \cup {Here(w)}
          /\ prompts' \in {prompts, [prompts EXCEPT ![Here(w)] = @ + 1]}
          /\ UNCHANGED faults
       \/ /\ Fault("throttle")
          /\ prompts' = [prompts EXCEPT ![Here(w)] = @ + 1]
          /\ UNCHANGED throttled
    /\ Return(w)
    /\ UNCHANGED <<hook, log, used, links, asks, races, expiries, active, day, arrived, follows,
                   followed>>

Reserve(w) ==
    /\ At(w, "reserve") /\ used < DmLimit
    /\ used' = used + 1
    /\ Goto(w, "slot")
    /\ UNCHANGED <<queueVars, log, throttled, metaVars, races, expiries, envVars>>

TapOverPlanLimit(w) ==
    /\ At(w, "reserve") /\ IsTap(w) /\ used >= DmLimit
    /\ Write(w, "SKIPPED_PLAN_LIMIT", "none")
    /\ Return(w)
    /\ UNCHANGED <<hook, used, throttled, metaVars, races, expiries, envVars>>

MessageOverPlanLimit(w) ==
    /\ At(w, "reserve") /\ ~IsTap(w) /\ used >= DmLimit
    /\ Write(w, "SKIPPED_PLAN_LIMIT", "none")
    /\ Continue(w)
    /\ UNCHANGED <<hook, used, throttled, metaVars, races, expiries, envVars>>

-----------------------------------------------------------------------------
(* acquireSendSlot                                                         *)

SlotGranted(w) ==
    /\ At(w, "slot")
    /\ Goto(w, "send")
    /\ UNCHANGED <<queueVars, log, used, throttled, metaVars, races, expiries, envVars>>

\* reserveDMSlot throws and no try block is around it: the job throws, and the
\* monthly reservation stays.
SlotFails(w) ==
    /\ At(w, "slot") /\ Fault("limiter")
    /\ Throw(w)
    /\ UNCHANGED <<hook, log, used, throttled, metaVars, races, expiries, active, day, arrived,
                   follows, followed>>

RetryId(id, window) ==
    IF window = "burst" THEN <<id[1], id[2], id[3] + 1>> ELSE <<id[1], id[2] + 1, id[3]>>

\* Blocked: the reservation is released and the whole job comes back later
\* under an _rl_ id; the loop of a message ends here.
SlotBlocked(w, window) ==
    /\ At(w, "slot") /\ Fault("blocked")
    /\ RetryId(wk[w].id, window) \in JobIds
    /\ used' = used - 1
    /\ job' = [Added(RetryId(wk[w].id, window)) EXCEPT ![wk[w].id].state = "completed"]
    /\ wk' = [wk EXCEPT ![w] = Idle]
    /\ UNCHANGED <<hook, log, throttled, metaVars, races, expiries, active, day, arrived, follows,
                   followed>>

\* Seeded bug: the return leaves no trace.
SlotSkippedSilently(w) ==
    /\ At(w, "slot") /\ "burst" \in Blocks
    /\ wk[w].id[3] >= MAX_BURST_REQUEUE_ATTEMPTS
    /\ used' = used - 1
    /\ Return(w)
    /\ UNCHANGED <<hook, log, throttled, metaVars, races, expiries, envVars>>

\* The burst requeues are used up: the row says so and the loop ends as well.
SlotSkipped(w) ==
    /\ At(w, "slot") /\ "burst" \in Blocks
    /\ wk[w].id[3] >= MAX_BURST_REQUEUE_ATTEMPTS
    /\ used' = used - 1
    /\ Write(w, "SKIPPED_RATE_LIMIT", "none")
    /\ Return(w)
    /\ UNCHANGED <<hook, throttled, metaVars, races, expiries, envVars>>

-----------------------------------------------------------------------------
(* The send                                                                *)

\* catch: release, FAILED, rethrow.
SendFails(w) ==
    /\ used' = used - 1
    /\ Write(w, "FAILED", "none")
    /\ Throw(w)

Rejected(w) ==
    /\ At(w, "send") /\ Fault("refused")
    /\ SendFails(w)
    /\ UNCHANGED <<hook, throttled, metaVars, races, expiries, active, day, arrived, follows, followed>>

\* Meta takes the message; its answer may not reach the worker.
Taken(w) ==
    /\ \/ Goto(w, "sent") /\ UNCHANGED <<job, log, used, faults>>
       \/ Fault("lostAnswer") /\ SendFails(w)
    /\ UNCHANGED <<hook, throttled, prompts, races, expiries, active, day, arrived, follows, followed>>

\* The link as a button, or inline when Meta refuses the template, and a thank-you.
Reveal(w) ==
    /\ At(w, "send") /\ IsTap(w)
    /\ links' = [links EXCEPT ![Row(w)] = @ + 1]
    /\ Taken(w)
    /\ UNCHANGED asks

\* A follow prompt for a sender who does not follow, else the link.
Reply(w) ==
    /\ At(w, "send") /\ ~IsTap(w)
    /\ IF wk[w].confirmed
       THEN links' = [links EXCEPT ![Row(w)] = @ + 1] /\ UNCHANGED asks
       ELSE asks' = [asks EXCEPT ![Row(w)] = @ + 1] /\ UNCHANGED links
    /\ Taken(w)

Stored(w, stage) ==
    /\ Write(w, "SENT", stage)
    /\ Continue(w)
    /\ UNCHANGED <<used, faults>>

\* Seeded bug: the reservation is given back when everything went well.
RecordRevealReleased(w) ==
    /\ At(w, "sent") /\ IsTap(w)
    /\ Write(w, "SENT", "DELIVERY")
    /\ used' = used - 1
    /\ Continue(w)
    /\ UNCHANGED <<hook, throttled, metaVars, races, expiries, envVars>>

RecordReveal(w) ==
    /\ At(w, "sent") /\ IsTap(w)
    /\ \/ Stored(w, "DELIVERY")
       \/ Fault("lostAnswer") /\ SendFails(w)
    /\ UNCHANGED <<hook, throttled, metaVars, races, expiries, active, day, arrived, follows, followed>>

RecordReply(w) ==
    /\ At(w, "sent") /\ ~IsTap(w)
    /\ \/ Stored(w, IF wk[w].confirmed THEN "DELIVERY" ELSE "FOLLOW_PROMPT")
       \/ Fault("lostAnswer") /\ SendFails(w)
    /\ UNCHANGED <<hook, throttled, metaVars, races, expiries, active, day, arrived, follows, followed>>

\* A query outside every try block fails.
DatabaseFails(w) ==
    /\ wk[w].at \in {"check", "follow", "reserve"} /\ wk[w].todo # {}
    /\ Fault("refused")
    /\ Throw(w)
    /\ UNCHANGED <<hook, log, used, throttled, metaVars, races, expiries, active, day, arrived,
                   follows, followed>>

-----------------------------------------------------------------------------
(* The rest of the world                                                   *)

Stalled(j) ==
    IF j.stalls = 0 THEN [j EXCEPT !.state = "waiting", !.stalls = 1] ELSE [j EXCEPT !.state = "failed"]

Crash ==
    /\ Fault("crash")
    /\ job' = [id \in JobIds |-> IF job[id].state = "active" THEN Stalled(job[id]) ELSE job[id]]
    /\ wk' = [w \in Workers |-> Idle]
    /\ UNCHANGED <<hook, log, used, throttled, metaVars, races, expiries, active, day, arrived,
                   follows, followed>>

ThrottleExpires(c) ==
    /\ c \in throttled
    /\ throttled' = throttled \ {c}
    /\ expiries' = [expiries EXCEPT ![c] = @ + 1]
    /\ UNCHANGED <<queueVars, wk, log, used, metaVars, races, envVars>>

\* The person follows the account.
Follow ==
    /\ ~follows /\ follows' = TRUE
    /\ followed' = Interactions
    /\ UNCHANGED <<queueVars, wk, log, used, throttled, metaVars, races, expiries, active, day,
                   arrived, faults>>

\* The owner switches a campaign off.
Pause(c) ==
    /\ c \in Pausable \cap active
    /\ active' = active \ {c}
    /\ UNCHANGED <<queueVars, wk, log, used, throttled, metaVars, races, expiries, day, arrived,
                   follows, followed, faults>>

NextDay ==
    /\ day < LastDay
    /\ day' = day + 1
    /\ UNCHANGED <<queueVars, wk, log, used, throttled, metaVars, races, expiries, active, arrived,
                   follows, followed, faults>>

Run(w) ==
    \/ Finish(w) \/ Check(w) \/ ReadFollow(w) \/ Prompt(w)
    \/ Reserve(w) \/ TapOverPlanLimit(w) \/ MessageOverPlanLimit(w)
    \/ SlotGranted(w) \/ SlotSkipped(w) \/ Reveal(w) \/ Reply(w)
    \/ RecordReveal(w) \/ RecordReply(w)

Next ==
    \/ \E p \in Payloads : Deliver(p) \/ Enqueue(p) \/ Processed(p) \/ EnqueueFails(p)
    \/ \E w \in Workers, id \in JobIds : Take(w, id)
    \/ \E w \in Workers : Run(w) \/ NoToken(w) \/ SlotFails(w) \/ Rejected(w) \/ DatabaseFails(w)
    \/ \E w \in Workers, window \in Blocks : SlotBlocked(w, window)
    \/ \E id \in JobIds : EvictCompleted(id)
    \/ \E c \in Campaigns : ThrottleExpires(c) \/ Pause(c)
    \/ Crash \/ Follow \/ NextDay

Spec == Init /\ [][Next]_vars

-----------------------------------------------------------------------------
(* Properties                                                              *)

Holding  == {w \in Workers : wk[w].at \in {"slot", "send", "sent"}}
OnTheWay == {w \in Workers : wk[w].at = "sent"}
Metered  == MapThenSumSet(LAMBDA r : links[r], Rows) + MapThenSumSet(LAMBDA r : asks[r], Rows)

\* The quota counts the messages that went out: every reservation in excess of
\* them is held by a running job, or was lost to a crash or to a limiter that
\* could not be reached; every message in excess was sent by a call whose answer,
\* or whose row, was lost.
UsageIsExplained ==
    /\ used + Cardinality(OnTheWay) <= Metered + Cardinality(Holding)
               + faults["limiter"] + Cardinality(Workers) * faults["crash"]
    /\ Metered + Cardinality(Holding \ OnTheWay)
         <= used + faults["lostAnswer"]

\* The gate of a campaign with requireFollow: nobody gets its link without
\* having followed the account at some time since the message or the tap.
GateHolds ==
    \A c \in Gated, i \in Interactions : links[<<c, i>>] > 0 => i \in followed

\* A completed job was forgotten and one came back under another id: Meta's next
\* delivery may then queue an interaction that is still being handled.
MayRunTwice == faults["evict"] > 0 /\ faults["blocked"] > 0

\* One answer per campaign and interaction, however often Meta delivers it or
\* BullMQ runs it, unless a send or its record was lost.
OneAnswer ==
    MayRunTwice \/ \A r \in Rows : links[r] + asks[r] <= 1 + faults["lostAnswer"] + faults["crash"]

\* Two taps that both delivered the link on one day were handled at the same
\* time: the look for a recent reveal and the send are not one step.
OnlyRacingTapsRepeat ==
    \A c \in Campaigns : \A s, t \in Taps :
        /\ s # t
        /\ \A i \in {s, t} : log[<<c, i>>].status = "SENT"
        /\ log[<<c, s>>].dmSentAt = log[<<c, t>>].dmSentAt
        => {s, t} \in races

\* However often a button is tapped, the unmetered prompts are throttled.
PromptsAreThrottled ==
    \A c \in Campaigns : prompts[c] <= 1 + expiries[c] + faults["throttle"]

Over(i) ==
    /\ \A h \in 0..MaxHourlyRequeues, b \in 0..MAX_BURST_REQUEUE_ATTEMPTS :
          job[<<i, h, b>>].state \in {"none", "completed"}
    /\ job[<<i, 0, 0>>].state = "completed"

\* When every job of a message is over, each campaign it matches answered it,
\* was over the limit, had answered the person the same day, or comes after a
\* campaign the rate limiter skipped: only a skip, or the end of the messaging
\* window, ends the loop early.
OnlyASkipEndsTheLoop ==
    MayRunTwice \/ \A m \in Messages : Over(m) /\ WithinMessagingWindow(m) =>
        \A c \in active \cap (AnyWord \cup Matches[m]) :
            \/ log[<<c, m>>].status # "none"
            \/ c \in AnyWord /\ SentRecently(c, Messages)
            \/ \E d \in 1..(c - 1) : log[<<d, m>>].status = "SKIPPED_RATE_LIMIT"

\* A payload the webhook acknowledged is in the queue: each of its interactions
\* has a job, or had one.
AcknowledgedIsQueued ==
    \A p \in Payloads : hook[p].state = "PROCESSED" =>
        \A i \in p : job[<<i, 0, 0>>].state # "none" \/ faults["evict"] > 0

\* The follow gate: the link goes to followers, or to people whose status Meta
\* would not tell, and whoever does not follow is asked at most once a minute
\* however often they tap.
FollowersOnly == GateHolds /\ PromptsAreThrottled

\* What a person is answered: one answer per interaction and campaign, a second
\* one the same day only to two taps that raced, none dropped on the way from
\* the webhook through the queue and the loop over campaigns.
AnswersAreAccounted ==
    /\ TypeOK
    /\ OneAnswer
    /\ OnlyRacingTapsRepeat
    /\ OnlyASkipEndsTheLoop
    /\ AcknowledgedIsQueued

=============================================================================
