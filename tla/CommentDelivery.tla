--------------------------- MODULE CommentDelivery ---------------------------
(***************************************************************************)
(* From a comment to its direct message.  The webhook route and the poller *)
(* (lib/polling/comment-reconciler.ts) enqueue one BullMQ job per comment  *)
(* under a deterministic id; the worker (processComment in                 *)
(* lib/queue/dm-worker.ts) runs a job against every campaign in turn, and  *)
(* keeps what it did in DmLog, one row per campaign and comment.  A job    *)
(* the rate limiter blocks comes back under a _retry_ id of its own.       *)
(*                                                                         *)
(* One action per await: what another slot of the worker, the poller or    *)
(* the webhook does between two awaits is an interleaving.  The usage      *)
(* counter and the limiter are atomic here and detailed in WorkspaceUsage  *)
(* and RateLimiter.  Every campaign matches every comment.                 *)
(***************************************************************************)
EXTENDS Naturals, FiniteSets, FiniteSetsExt

CONSTANTS
    NumComments,                 \* comments, numbered oldest first
    NumCampaigns,                \* campaigns, numbered by createdAt
    Workers,                     \* the worker's concurrent job slots
    PublicReply,                 \* campaigns with publicReplyEnabled
    DmLimit,                     \* the plan's monthly cap
    JOB_ATTEMPTS,                \* BullMQ attempts per job
    MAX_TOTAL_SEND_ATTEMPTS,
    MAX_NEW_PER_SWEEP,
    MAX_BURST_REQUEUE_ATTEMPTS,
    MaxHourlyRequeues,           \* bound: the code requeues without end
    Blocks,                      \* which windows of the limiter can block
    Events,                      \* which of the optional events can happen
    MaxWebhooks,                 \* bound on webhook deliveries per comment
    MaxRejects,                  \* bound on Meta's rejections per pair
    MaxFaults                    \* bound on crashes and failing calls

Comments  == 1..NumComments
Campaigns == 1..NumCampaigns
Pairs     == Campaigns \X Comments
JobIds    == Comments \X (0..MaxHourlyRequeues) \X (0..MAX_BURST_REQUEUE_ATTEMPTS)

Faults      == {"crash", "timeout", "writeFails", "database", "redis", "token"}
Environment == {"evictCompleted", "aging", "manualReply", "cleanup"}

ASSUME DeliveryAssumption ==
    /\ NumComments \in Nat \ {0} /\ NumCampaigns \in Nat \ {0}
    /\ IsFiniteSet(Workers)
    /\ PublicReply \subseteq 1..NumCampaigns
    /\ DmLimit \in Nat
    /\ JOB_ATTEMPTS \in Nat \ {0}
    /\ MAX_TOTAL_SEND_ATTEMPTS \in Nat \ {0}
    /\ MAX_NEW_PER_SWEEP \in Nat \ {0}
    /\ MAX_BURST_REQUEUE_ATTEMPTS \in Nat /\ MaxHourlyRequeues \in Nat
    /\ Blocks \subseteq {"burst", "hourly"}
    /\ Events \subseteq Faults \cup Environment
    /\ MaxWebhooks \in Nat /\ MaxRejects \in Nat /\ MaxFaults \in Nat

VARIABLES
    job,        \* BullMQ: the job stored under every id
    wk,         \* the slots of the worker
    log,        \* DmLog
    used,       \* Workspace.monthlyUsage
    sweep,      \* the poller: campaigns left in this sweep, comments to add
    age,        \* 0 recent, 1 past the poller's lookback, 2 past 7 days
    dms,        \* Meta: direct messages accepted for a pair
    replies,    \* Meta: public replies accepted for a pair
    manual,     \* Meta: comments the owner answered by hand
    rejects,    \* observer: sends Meta rejected for a pair
    webhooks,   \* webhook deliveries so far
    faults      \* faults of every kind so far

meta   == <<dms, replies, manual, rejects>>
bounds == <<age, webhooks, faults>>
vars   == <<job, wk, log, used, sweep, meta, bounds>>

Statuses == {"none", "PENDING", "SENT", "FAILED", "SKIPPED_PLAN_LIMIT", "SKIPPED_RATE_LIMIT"}
Steps    == {"idle", "read", "mark", "reply", "replied", "reserve", "slot", "send", "sent"}

NoJob  == [state |-> "none", tries |-> 0, stalls |-> 0]
NoLog  == [status |-> "none", attempts |-> 0, replied |-> FALSE]
Idle   == [at |-> "idle", id |-> <<1, 0, 0>>, pos |-> 1, status |-> "none", replied |-> FALSE]

\* A slot before campaign `pos` of a job, with nothing read yet.
Before(id, pos) == [at |-> "read", id |-> id, pos |-> pos, status |-> "none", replied |-> FALSE]

TypeOK ==
    /\ job \in [JobIds -> [state : {"none", "waiting", "active", "completed", "failed"},
                           tries : 0..JOB_ATTEMPTS, stalls : 0..1]]
    /\ wk \in [Workers -> [at : Steps, id : JobIds, pos : 1..(NumCampaigns + 1),
                           status : Statuses, replied : BOOLEAN]]
    /\ log \in [Pairs -> [status : Statuses, attempts : 0..MAX_TOTAL_SEND_ATTEMPTS,
                          replied : BOOLEAN]]
    /\ used \in 0..DmLimit
    /\ sweep \in [left : SUBSET Campaigns, todo : SUBSET Comments]
    /\ dms \in [Pairs -> Nat] /\ replies \in [Pairs -> Nat]
    /\ manual \in [Comments -> BOOLEAN]
    /\ rejects \in [Pairs -> 0..MaxRejects]
    /\ age \in [Comments -> 0..2]
    /\ webhooks \in [Comments -> 0..MaxWebhooks]
    /\ faults \in [Faults -> Nat]

Init ==
    /\ job = [id \in JobIds |-> NoJob]
    /\ wk = [w \in Workers |-> Idle]
    /\ log = [p \in Pairs |-> NoLog]
    /\ used = 0
    /\ sweep = [left |-> Campaigns, todo |-> {}]
    /\ dms = [p \in Pairs |-> 0] /\ replies = [p \in Pairs |-> 0]
    /\ manual = [c \in Comments |-> FALSE]
    /\ rejects = [p \in Pairs |-> 0]
    /\ age = [c \in Comments |-> 0]
    /\ webhooks = [c \in Comments |-> 0]
    /\ faults = [f \in Faults |-> 0]

FaultCount == MapThenSumSet(LAMBDA f : faults[f], Faults)

Fault(f) ==
    /\ f \in Events \cap Faults /\ FaultCount < MaxFaults
    /\ faults' = [faults EXCEPT ![f] = @ + 1]

-----------------------------------------------------------------------------
(* The queue                                                               *)

BaseId(c) == <<c, 0, 0>>

\* BullMQ ignores an add under an id it still holds, in whatever state.
Added(id) == IF job[id].state = "none" THEN [job EXCEPT ![id].state = "waiting"] ELSE job

\* The webhook route enqueues a comment event; Meta may deliver it again.
Webhook(c) ==
    /\ webhooks[c] < MaxWebhooks
    /\ webhooks' = [webhooks EXCEPT ![c] = @ + 1]
    /\ job' = Added(BaseId(c))
    /\ UNCHANGED <<wk, log, used, sweep, meta, age, faults>>

\* removeOnComplete { count: 1000 }: a busy queue forgets old completed jobs.
EvictCompleted(id) ==
    /\ "evictCompleted" \in Events
    /\ job[id].state = "completed"
    /\ job' = [job EXCEPT ![id] = NoJob]
    /\ UNCHANGED <<wk, log, used, sweep, meta, bounds>>

\* removeOnFail { age: 300 }: five minutes outlast the adds of one sweep.
EvictFailed(id) ==
    /\ job[id].state = "failed"
    /\ sweep.todo = {}
    /\ job' = [job EXCEPT ![id] = NoJob]
    /\ UNCHANGED <<wk, log, used, sweep, meta, bounds>>

-----------------------------------------------------------------------------
(* The worker's place in a job                                             *)

Comment(w) == wk[w].id[1]
Pair(w)    == <<wk[w].pos, Comment(w)>>
At(w, s)   == wk[w].at = s
Goto(w, s) == wk' = [wk EXCEPT ![w].at = s]

\* `continue`: the next campaign, or the end of the loop.
Continue(w) == wk' = [wk EXCEPT ![w] = Before(wk[w].id, wk[w].pos + 1)]

\* The job throws: BullMQ runs it again after a backoff, JOB_ATTEMPTS in all.
Throw(w) ==
    LET id == wk[w].id IN
    /\ job' = [job EXCEPT ![id].tries = @ + 1,
                          ![id].state = IF job[id].tries + 1 < JOB_ATTEMPTS
                                        THEN "waiting" ELSE "failed"]
    /\ wk' = [wk EXCEPT ![w] = Idle]

SetStatus(w, s) == log' = [log EXCEPT ![Pair(w)].status = s]

\* Where the loop body goes after the public reply leg.
AfterReply(w) ==
    IF wk[w].status = "SENT" THEN Continue(w) ELSE Goto(w, "reserve")

-----------------------------------------------------------------------------
(* processComment                                                          *)

Take(w, id) ==
    /\ At(w, "idle") /\ job[id].state = "waiting"
    /\ age[id[1]] < 2
    /\ job' = [job EXCEPT ![id].state = "active"]
    /\ wk' = [wk EXCEPT ![w] = Before(id, 1)]
    /\ UNCHANGED <<log, used, sweep, meta, bounds>>

\* Past Meta's seven days the job returns before it looks at a campaign.
TakeExpired(w, id) ==
    /\ At(w, "idle") /\ job[id].state = "waiting"
    /\ age[id[1]] = 2
    /\ job' = [job EXCEPT ![id].state = "completed"]
    /\ UNCHANGED <<wk, log, used, sweep, meta, bounds>>

NothingLeft(a, l) ==
    \/ l.status = "SKIPPED_PLAN_LIMIT"
    \/ l.status = "SENT" /\ (l.replied \/ a \notin PublicReply)

ReadLog(w) ==
    /\ At(w, "read") /\ wk[w].pos \in Campaigns
    /\ LET l == log[Pair(w)] IN
       IF NothingLeft(wk[w].pos, l) THEN Continue(w)
       ELSE wk' = [wk EXCEPT ![w].at = "mark", ![w].status = l.status, ![w].replied = l.replied]
    /\ UNCHANGED <<job, log, used, sweep, meta, bounds>>

FinishJob(w) ==
    /\ At(w, "read") /\ wk[w].pos \notin Campaigns
    /\ job' = [job EXCEPT ![wk[w].id].state = "completed"]
    /\ wk' = [wk EXCEPT ![w] = Idle]
    /\ UNCHANGED <<log, used, sweep, meta, bounds>>

\* No access token, or one that does not decrypt: FAILED, next campaign.
NoToken(w) ==
    /\ At(w, "mark") /\ Fault("token")
    /\ SetStatus(w, "FAILED")
    /\ Continue(w)
    /\ UNCHANGED <<job, used, sweep, meta, age, webhooks>>

AfterMark(w) ==
    IF wk[w].pos \in PublicReply /\ ~wk[w].replied THEN Goto(w, "reply") ELSE AfterReply(w)

CreateLog(w) ==
    /\ At(w, "mark") /\ wk[w].status = "none"
    /\ log[Pair(w)].status = "none"
    /\ log' = [log EXCEPT ![Pair(w)].status = "PENDING", ![Pair(w)].attempts = 1]
    /\ AfterMark(w)
    /\ UNCHANGED <<job, used, sweep, meta, bounds>>

\* Another job created the row first: the unique index rejects, the job throws.
ClashOnCreate(w) ==
    /\ At(w, "mark") /\ wk[w].status = "none"
    /\ log[Pair(w)].status # "none"
    /\ Throw(w)
    /\ UNCHANGED <<log, used, sweep, meta, bounds>>

\* needsDm as it was read, whatever the row says by now.
ReopenLog(w) ==
    /\ At(w, "mark") /\ wk[w].status \notin {"none", "SENT"}
    /\ log' = [log EXCEPT ![Pair(w)].status = "PENDING",
                          ![Pair(w)].attempts = IF @ < MAX_TOTAL_SEND_ATTEMPTS THEN @ + 1 ELSE @]
    /\ AfterMark(w)
    /\ UNCHANGED <<job, used, sweep, meta, bounds>>

\* The message is out; the job came back for the public reply alone.
KeepSent(w) ==
    /\ At(w, "mark") /\ wk[w].status = "SENT"
    /\ AfterMark(w)
    /\ UNCHANGED <<job, log, used, sweep, meta, bounds>>

PostReply(w) ==
    /\ At(w, "reply")
    /\ replies' = [replies EXCEPT ![Pair(w)] = @ + 1]
    /\ \/ Goto(w, "replied") /\ UNCHANGED faults
       \/ Fault("timeout") /\ AfterReply(w)
    /\ UNCHANGED <<job, log, used, sweep, dms, manual, rejects, age, webhooks>>

\* Seeded bug: publicReplySentAt is written for a failed reply too.
ReplyRejectedRecorded(w) ==
    /\ At(w, "reply")
    /\ Goto(w, "replied")
    /\ UNCHANGED <<job, log, used, sweep, meta, bounds>>

\* A failed public reply is only noted; it never stops the message.
ReplyRejected(w) ==
    /\ At(w, "reply")
    /\ AfterReply(w)
    /\ UNCHANGED <<job, log, used, sweep, meta, bounds>>

RecordReply(w) ==
    /\ At(w, "replied")
    /\ \/ log' = [log EXCEPT ![Pair(w)].replied = TRUE] /\ UNCHANGED faults
       \/ Fault("writeFails") /\ UNCHANGED log
    /\ AfterReply(w)
    /\ UNCHANGED <<job, used, sweep, meta, age, webhooks>>

\* Seeded bug: one message past the cap.
ReserveUsageAtTheCap(w) ==
    /\ At(w, "reserve") /\ used <= DmLimit
    /\ used' = used + 1
    /\ Goto(w, "slot")
    /\ UNCHANGED <<job, log, sweep, meta, bounds>>

ReserveUsage(w) ==
    /\ At(w, "reserve") /\ used < DmLimit
    /\ used' = used + 1
    /\ Goto(w, "slot")
    /\ UNCHANGED <<job, log, sweep, meta, bounds>>

OverPlanLimit(w) ==
    /\ At(w, "reserve") /\ used >= DmLimit
    /\ SetStatus(w, "SKIPPED_PLAN_LIMIT")
    /\ Continue(w)
    /\ UNCHANGED <<job, used, sweep, meta, bounds>>

SlotGranted(w) ==
    /\ At(w, "slot")
    /\ Goto(w, "send")
    /\ UNCHANGED <<job, log, used, sweep, meta, bounds>>

\* The id a blocked job comes back under, and whether it may.
RetryId(id, window) ==
    IF window = "burst" THEN <<id[1], id[2], id[3] + 1>> ELSE <<id[1], id[2] + 1, id[3]>>

\* Seeded bug: the blocked job also throws, so that it runs again next to its
\* _retry_ job.
SlotBlockedThrows(w, window) ==
    /\ At(w, "slot")
    /\ RetryId(wk[w].id, window) \in JobIds
    /\ used' = used - 1
    /\ SetStatus(w, "PENDING")
    /\ job' = [Added(RetryId(wk[w].id, window)) EXCEPT ![wk[w].id].state = "waiting"]
    /\ wk' = [wk EXCEPT ![w] = Idle]
    /\ UNCHANGED <<sweep, meta, bounds>>

\* A window blocks: release, PENDING, and a delayed job of its own.
SlotBlocked(w, window) ==
    /\ At(w, "slot")
    /\ RetryId(wk[w].id, window) \in JobIds
    /\ used' = used - 1
    /\ SetStatus(w, "PENDING")
    /\ job' = Added(RetryId(wk[w].id, window))
    /\ Continue(w)
    /\ UNCHANGED <<sweep, meta, bounds>>

\* The burst requeues are used up.
SlotSkipped(w) ==
    /\ At(w, "slot") /\ "burst" \in Blocks
    /\ wk[w].id[3] >= MAX_BURST_REQUEUE_ATTEMPTS
    /\ used' = used - 1
    /\ SetStatus(w, "SKIPPED_RATE_LIMIT")
    /\ Continue(w)
    /\ UNCHANGED <<job, sweep, meta, bounds>>

\* Seeded bug: the catch block forgets the reservation.
SendFailsUnreleased(w) ==
    /\ UNCHANGED used
    /\ SetStatus(w, "FAILED")
    /\ Throw(w)

\* catch: release the reservation, FAILED, rethrow.  A query of the catch block
\* may fail in turn and leave the row PENDING, or the reservation taken as well.
SendFails(w) ==
    /\ \/ used' = used - 1 /\ SetStatus(w, "FAILED")
       \/ "cleanup" \in Events /\ used' \in {used - 1, used} /\ UNCHANGED log
    /\ Throw(w)

SlotFails(w) ==
    /\ At(w, "slot") /\ Fault("redis")
    /\ SendFails(w)
    /\ UNCHANGED <<sweep, meta, age, webhooks>>

\* Seeded bug: a rejection does not reach the catch block.
DmRejectedSilently(w) ==
    /\ At(w, "send") /\ rejects[Pair(w)] < MaxRejects
    /\ rejects' = [rejects EXCEPT ![Pair(w)] = @ + 1]
    /\ Goto(w, "sent")
    /\ UNCHANGED <<job, log, used, sweep, dms, replies, manual, bounds>>

DmRejected(w) ==
    /\ At(w, "send") /\ rejects[Pair(w)] < MaxRejects
    /\ rejects' = [rejects EXCEPT ![Pair(w)] = @ + 1]
    /\ SendFails(w)
    /\ UNCHANGED <<sweep, dms, replies, manual, bounds>>

\* Meta accepts the message; the answer may not reach the worker.
SendDm(w) ==
    /\ At(w, "send")
    /\ dms' = [dms EXCEPT ![Pair(w)] = @ + 1]
    /\ \/ Goto(w, "sent") /\ UNCHANGED <<job, log, used, faults>>
       \/ Fault("timeout") /\ SendFails(w)
    /\ UNCHANGED <<sweep, replies, manual, rejects, age, webhooks>>

\* Seeded bug: the reservation is released in a `finally`.
RecordSentReleased(w) ==
    /\ At(w, "sent")
    /\ SetStatus(w, "SENT") /\ Continue(w)
    /\ used' = used - 1
    /\ UNCHANGED <<job, sweep, meta, bounds>>

\* The SENT update stands in the same try block as the send.
RecordSent(w) ==
    /\ At(w, "sent")
    /\ \/ SetStatus(w, "SENT") /\ Continue(w) /\ UNCHANGED <<job, used, faults>>
       \/ Fault("writeFails") /\ SendFails(w)
    /\ UNCHANGED <<sweep, meta, age, webhooks>>

\* A query outside every try block fails.
DatabaseFails(w) ==
    /\ wk[w].at \in {"read", "mark", "reserve"} /\ wk[w].pos \in Campaigns
    /\ Fault("database")
    /\ Throw(w)
    /\ UNCHANGED <<log, used, sweep, meta, age, webhooks>>

\* Seeded bug: nobody looks for stalled jobs.
CrashForgetsJobs ==
    /\ Fault("crash")
    /\ wk' = [w \in Workers |-> Idle]
    /\ sweep' = [left |-> Campaigns, todo |-> {}]
    /\ UNCHANGED <<job, log, used, meta, age, webhooks>>

\* BullMQ returns a stalled job to the queue, once.
Stalled(j) ==
    IF j.stalls = 0 THEN [j EXCEPT !.state = "waiting", !.stalls = 1]
    ELSE [j EXCEPT !.state = "failed"]

\* The process dies, with its job slots and its poller.
Crash ==
    /\ Fault("crash")
    /\ job' = [id \in JobIds |->
                 IF job[id].state = "active" THEN Stalled(job[id]) ELSE job[id]]
    /\ wk' = [w \in Workers |-> Idle]
    /\ sweep' = [left |-> Campaigns, todo |-> {}]
    /\ UNCHANGED <<log, used, meta, age, webhooks>>

-----------------------------------------------------------------------------
(* reconcileComments                                                       *)

OwnerReplied(c) == manual[c] \/ \E p \in Pairs : p[2] = c /\ replies[p] > 0

Settled(l) ==
    \/ l.status = "SKIPPED_PLAN_LIMIT"
    \/ l.status = "FAILED" /\ l.attempts >= MAX_TOTAL_SEND_ATTEMPTS

\* Seeded bug: a pair that has its message is queued again.
NeedsActionAlways(a, c) == ~Settled(log[<<a, c>>])

\* Seeded bug: a failed pair counts as handled.
NeedsActionOnce(a, c) == log[<<a, c>>].status \in {"none", "PENDING"}

\* Seeded bug: the cap on failing pairs is missing.
NeedsActionUncapped(a, c) == log[<<a, c>>].status \notin {"SKIPPED_PLAN_LIMIT", "SENT"}

NeedsAction(a, c) ==
    LET l == log[<<a, c>>] IN
    /\ ~Settled(l)
    /\ IF OwnerReplied(c) THEN l.status \notin {"none", "SENT"}
       ELSE l.status = "SENT" => (a \in PublicReply /\ ~l.replied)

\* A reply of the account below the comment proves the public leg complete.
ReplyObserved(a, c) ==
    /\ a \in PublicReply /\ OwnerReplied(c)
    /\ log[<<a, c>>].status # "none" /\ ~log[<<a, c>>].replied /\ ~Settled(log[<<a, c>>])

Oldest(S) == {c \in S : Cardinality({d \in S : d < c}) < MAX_NEW_PER_SWEEP}

\* One campaign: list the comments, read the rows, note the owner's replies.
SweepCampaign(a) ==
    /\ sweep.todo = {}
    /\ a \in sweep.left
    /\ LET polled == {c \in Comments : age[c] = 0} IN
       /\ sweep' = [left |-> IF sweep.left = {a} THEN Campaigns ELSE sweep.left \ {a},
                    todo |-> Oldest({c \in polled : NeedsAction(a, c)})]
       /\ log' = [p \in Pairs |->
                    IF p[1] = a /\ p[2] \in polled /\ ReplyObserved(a, p[2])
                    THEN [log[p] EXCEPT !.replied = TRUE] ELSE log[p]]
    /\ UNCHANGED <<job, wk, used, meta, bounds>>

SweepAdd(c) ==
    /\ c \in sweep.todo /\ \A d \in sweep.todo : c <= d
    /\ sweep' = [sweep EXCEPT !.todo = @ \ {c}]
    /\ job' = Added(BaseId(c))
    /\ UNCHANGED <<wk, log, used, meta, bounds>>

-----------------------------------------------------------------------------
(* Instagram                                                               *)

Aging(c) ==
    /\ "aging" \in Events
    /\ age[c] < 2 /\ \A d \in Comments : d < c => age[d] >= age[c] + 1
    /\ age' = [age EXCEPT ![c] = @ + 1]
    /\ UNCHANGED <<job, wk, log, used, sweep, meta, webhooks, faults>>

ManualReply(c) ==
    /\ "manualReply" \in Events
    /\ ~manual[c]
    /\ manual' = [manual EXCEPT ![c] = TRUE]
    /\ UNCHANGED <<job, wk, log, used, sweep, dms, replies, rejects, bounds>>

-----------------------------------------------------------------------------

Campaign(w) ==
    \/ ReadLog(w) \/ NoToken(w)
    \/ CreateLog(w) \/ ClashOnCreate(w) \/ ReopenLog(w) \/ KeepSent(w)
    \/ PostReply(w) \/ ReplyRejected(w) \/ RecordReply(w)
    \/ ReserveUsage(w) \/ OverPlanLimit(w)
    \/ SlotGranted(w) \/ (\E window \in Blocks : SlotBlocked(w, window)) \/ SlotSkipped(w)
    \/ SlotFails(w) \/ DmRejected(w) \/ SendDm(w) \/ RecordSent(w)
    \/ DatabaseFails(w) \/ FinishJob(w)

Start(id) == \E w \in Workers : Take(w, id) \/ TakeExpired(w, id)

Poll == (\E a \in Campaigns : SweepCampaign(a)) \/ (\E c \in Comments : SweepAdd(c))

Next ==
    \/ \E w \in Workers : Campaign(w)
    \/ \E id \in JobIds : Start(id) \/ EvictCompleted(id) \/ EvictFailed(id)
    \/ Poll
    \/ Crash
    \/ \E c \in Comments : Webhook(c) \/ Aging(c) \/ ManualReply(c)

\* The worker runs what it started, the queue hands out its jobs first in first
\* out, the poller's timer fires and failed jobs are removed after five minutes.
\* Nothing is assumed of webhooks, evictions of completed jobs, time or faults.
Fairness ==
    /\ \A w \in Workers : WF_vars(Campaign(w))
    /\ \A id \in JobIds : SF_vars(Start(id)) /\ SF_vars(EvictFailed(id))
    /\ \A a \in Campaigns : SF_vars(SweepCampaign(a))
    /\ WF_vars(Poll)

Spec == Init /\ [][Next]_vars /\ Fairness

-----------------------------------------------------------------------------
(* Properties                                                              *)

\* The code as ReplyLifecycle describes it.  Holds as long as no crash, no
\* timeout and no failing write comes between a call to Meta and the row that
\* remembers it, no missing token overwrites the row, and no two jobs of one
\* comment are alive at once.
Lifecycle == INSTANCE ReplyLifecycle
                 WITH outcome   <- [p \in Pairs |-> log[p].status],
                      delivered <- dms,
                      posted    <- replies

\* At most one message and one public reply per pair, a message only while the
\* row is PENDING, SENT and SKIPPED_PLAN_LIMIT for good.
ImplementsLifecycle == Lifecycle!LifecycleSpec

Reserved  == Cardinality({w \in Workers : wk[w].at \in {"slot", "send"}})
Delivered == MapThenSumSet(LAMBDA p : dms[p], Pairs)

\* Without crashes, timeouts and failing writes the month's counter is exactly
\* what was delivered and what is about to be: every block, rejection, skip and
\* requeue gave its reservation back once.
UsageMatchesDeliveries == used = Delivered + Reserved

\* Calls whose effect Meta keeps and the worker forgets.
Forgotten == faults["timeout"] + faults["writeFails"]

\* Whatever crashes, fails or runs twice, the month's counter misses at most the
\* messages whose answer or whose SENT update was lost (the catch block refunds
\* them); a crash can only leave it too high.
NoUnchargedDm == Delivered + Reserved <= used + Forgotten

\* A crash forgets what each of the slots it stops was about to note.
ForgottenOrCrashed == Forgotten + Cardinality(Workers) * faults["crash"]

\* A message goes out twice only where something forgot the first: its answer or
\* the update of its row was lost, or the process died (a stalled job runs again,
\* a blocked one next to its _retry_ job).  Redeliveries, retries, requeues,
\* missing tokens and any other failing query repeat no message.  The same holds
\* of the public reply.  For one campaign, and as long as BullMQ remembers its
\* completed jobs: the poller queues the comment of a blocked job again once that
\* one is forgotten, next to its _retry_ job.
RepeatsAreExplained ==
    \A p \in Pairs :
        /\ dms[p] <= 1 + ForgottenOrCrashed
        /\ replies[p] <= 1 + ForgottenOrCrashed

\* The blocked job hands its comment over to its _retry_ job: no two slots work
\* on the campaigns of one comment at once, which is what lets a row be read at
\* the top of the loop body and trusted below.  For one campaign, without crashes
\* and as long as BullMQ remembers its completed jobs.
NoOverlap ==
    \A v, w \in Workers :
        /\ v # w /\ wk[v].at # "idle" /\ wk[w].at # "idle"
        /\ Comment(v) = Comment(w)
        => wk[v].pos \notin Campaigns \/ wk[w].pos \notin Campaigns

\* A row says SENT only of a message Meta took: no failure path, retry, second
\* job or crash turns a send that failed into a success.
SentHasDm == \A p \in Pairs : log[p].status = "SENT" => dms[p] > 0

\* publicReplySentAt stands only below a comment the account did answer; the
\* worker will never post a reply to it again.
RepliedIsTrue == \A p \in Pairs : log[p].replied => OwnerReplied(p[2])

\* __tests__/dm-worker.test.ts:398: the worker "should skip duplicate comments
\* already sent": below a row that says SENT no message goes out.
AlreadySentIsSkipped ==
    [][\A p \in Pairs : log[p].status = "SENT" => dms'[p] = dms[p]]_vars

\* comment-reconciler.ts:48: a comment whose DM failed MAX_TOTAL_SEND_ATTEMPTS
\* times "is left alone".  The poller can overshoot by the tries of one job;
\* every webhook delivery adds a job the cap does not look at, and a failing query
\* can leave a row PENDING, which the cap does not look at either.
FailedSendsBounded ==
    \A p \in Pairs :
        rejects[p] <= MAX_TOTAL_SEND_ATTEMPTS - 1
                      + JOB_ATTEMPTS * (1 + webhooks[p[2]] + FaultCount)

Live(id) == job[id].state \in {"waiting", "active"}

\* Every job ends: neither retries nor stalls nor requeues keep one going.
JobsSettle == \A id \in JobIds : Live(id) ~> ~Live(id)

\* The message is out, the month is full, or the poller gave up.
Handled(p) == log[p].status = "SENT" \/ Settled(log[p])

\* The poller alone, without any webhook, brings every recent comment to an end
\* with every campaign it matches, however few comments one sweep may add
\* (comment-reconciler.ts:43 "so a viral post drains gradually").
EveryCommentHandled ==
    \A p \in Pairs : <>(Handled(p) \/ age[p[2]] > 0 \/ manual[p[2]])

\* lib/queue/client.ts:86: failed jobs are cleared so that "a later sweep [can]
\* re-enqueue and try again once a transient failure ... has passed".
FailedIsRetried ==
    \A p \in Pairs :
        log[p].status = "FAILED" /\ log[p].attempts < MAX_TOTAL_SEND_ATTEMPTS
            ~> log[p].status # "FAILED" \/ age[p[2]] > 0

=============================================================================
