----------------------------- MODULE RateLimiter -----------------------------
(***************************************************************************)
(* lib/utils/rate-limiter.ts: the two Redis counters every direct message  *)
(* of one Instagram account passes before it is sent, a burst window and   *)
(* an hourly window.  A counter is a key with a TTL: the window opens with *)
(* the first INCR and closes when the key expires.  reserveDMSlot runs two *)
(* Lua scripts one after the other; a script is atomic, the pair is not.   *)
(*                                                                         *)
(* Time is relative: a tick lowers every TTL and every requeue delay, so   *)
(* behaviours are unbounded and the state space finite.  recent[i] is an   *)
(* observer: the slots granted i ticks ago.  burstBlocks and crashes are   *)
(* observers too.                                                          *)
(***************************************************************************)
EXTENDS Naturals, FiniteSetsExt

CONSTANTS Jobs,                           \* the backlog of queued sends
          BURST_LIMIT_MAX, BURST_LIMIT_WINDOW,
          RATE_LIMIT_MAX, RATE_LIMIT_WINDOW,
          MAX_BURST_REQUEUE_ATTEMPTS,
          BURST_REQUEUE_DELAY, REQUEUE_DELAY,
          MaxCrashes                      \* bound on worker crashes

ASSUME LimiterAssumption ==
    /\ BURST_LIMIT_MAX \in Nat \ {0} /\ BURST_LIMIT_WINDOW \in Nat \ {0}
    /\ RATE_LIMIT_MAX \in Nat \ {0} /\ RATE_LIMIT_WINDOW \in Nat \ {0}
    /\ MAX_BURST_REQUEUE_ATTEMPTS \in Nat
    /\ BURST_REQUEUE_DELAY \in Nat /\ REQUEUE_DELAY \in Nat
    /\ MaxCrashes \in Nat

VARIABLES
    burst, hourly,        \* the two keys: [count, ttl]
    pc,                   \* where every job is
    delay,                \* ticks until a requeued job may run again
    burstRequeueAttempt,  \* the counter a requeued job carries
    recent,               \* observer: slots granted in the last ticks
    burstBlocks,          \* observer: how often the burst window blocked a job
    crashes

jobVars == <<pc, delay, burstRequeueAttempt, burstBlocks>>
vars    == <<burst, hourly, jobVars, recent, crashes>>

Settled == {"granted", "skipped"}
NoKey   == [count |-> 0, ttl |-> 0]

TypeOK ==
    /\ burst \in [count : 0..BURST_LIMIT_MAX, ttl : 0..BURST_LIMIT_WINDOW]
    /\ hourly \in [count : 0..RATE_LIMIT_MAX, ttl : 0..RATE_LIMIT_WINDOW]
    /\ pc \in [Jobs -> {"waiting", "burstPassed"} \cup Settled]
    /\ delay \in [Jobs -> Nat]
    /\ burstRequeueAttempt \in [Jobs -> 0..MAX_BURST_REQUEUE_ATTEMPTS]
    /\ recent \in [0..(RATE_LIMIT_WINDOW - 1) -> Nat]
    /\ burstBlocks \in [Jobs -> Nat]
    /\ crashes \in 0..MaxCrashes

Init ==
    /\ burst = NoKey
    /\ hourly = NoKey
    /\ pc = [j \in Jobs |-> "waiting"]
    /\ delay = [j \in Jobs |-> 0]
    /\ burstRequeueAttempt = [j \in Jobs |-> 0]
    /\ recent = [i \in 0..(RATE_LIMIT_WINDOW - 1) |-> 0]
    /\ burstBlocks = [j \in Jobs |-> 0]
    /\ crashes = 0

-----------------------------------------------------------------------------
(* RESERVE_DM_SLOT_SCRIPT on one key                                       *)

\* Seeded bug: every INCR restarts the window.
SlidingExpire(key, window) == [count |-> key.count + 1, ttl |-> window]

\* Seeded bug: only the burst key ever gets its TTL.
HourlyNeverExpires(key, window) ==
    [count |-> key.count + 1,
     ttl   |-> IF key.count = 0 /\ window = BURST_LIMIT_WINDOW THEN window ELSE key.ttl]

\* INCR, and EXPIRE when this was the first.
Incremented(key, window) ==
    [count |-> key.count + 1, ttl |-> IF key.count = 0 THEN window ELSE key.ttl]

\* Redis drops the key when its TTL runs out; a key without TTL stays.
Aged(key) ==
    CASE key.ttl = 0 -> key
      [] key.ttl = 1 -> NoKey
      [] OTHER       -> [key EXCEPT !.ttl = @ - 1]

-----------------------------------------------------------------------------
(* reserveDMSlot, called by a job of the worker                            *)

Requeue(j, ticks) ==
    /\ pc' = [pc EXCEPT ![j] = "waiting"]
    /\ delay' = [delay EXCEPT ![j] = ticks]

\* The burst script grants: the burst slot is taken even if the hour is full.
PassBurst(j) ==
    /\ pc[j] = "waiting" /\ delay[j] = 0
    /\ burst.count < BURST_LIMIT_MAX
    /\ burst' = Incremented(burst, BURST_LIMIT_WINDOW)
    /\ pc' = [pc EXCEPT ![j] = "burstPassed"]
    /\ UNCHANGED <<hourly, delay, burstRequeueAttempt, recent, burstBlocks, crashes>>

\* The burst script blocks and the job still has burst requeues left.
RequeueOnBurst(j) ==
    /\ pc[j] = "waiting" /\ delay[j] = 0
    /\ burst.count >= BURST_LIMIT_MAX
    /\ burstRequeueAttempt[j] < MAX_BURST_REQUEUE_ATTEMPTS
    /\ burstRequeueAttempt' = [burstRequeueAttempt EXCEPT ![j] = @ + 1]
    /\ burstBlocks' = [burstBlocks EXCEPT ![j] = @ + 1]
    /\ Requeue(j, BURST_REQUEUE_DELAY)
    /\ UNCHANGED <<burst, hourly, recent, crashes>>

\* The burst script blocks a job that has used up its burst requeues.
SkipOnBurst(j) ==
    /\ pc[j] = "waiting" /\ delay[j] = 0
    /\ burst.count >= BURST_LIMIT_MAX
    /\ burstRequeueAttempt[j] >= MAX_BURST_REQUEUE_ATTEMPTS
    /\ burstBlocks' = [burstBlocks EXCEPT ![j] = @ + 1]
    /\ pc' = [pc EXCEPT ![j] = "skipped"]
    /\ UNCHANGED <<burst, hourly, delay, burstRequeueAttempt, recent, crashes>>

\* The hourly script grants and the caller sends.
PassHourly(j) ==
    /\ pc[j] = "burstPassed"
    /\ hourly.count < RATE_LIMIT_MAX
    /\ hourly' = Incremented(hourly, RATE_LIMIT_WINDOW)
    /\ recent' = [recent EXCEPT ![0] = @ + 1]
    /\ pc' = [pc EXCEPT ![j] = "granted"]
    /\ UNCHANGED <<burst, delay, burstRequeueAttempt, burstBlocks, crashes>>

\* The hourly script blocks: always a requeue, never a skip (blockedResult).
RequeueOnHourly(j) ==
    /\ pc[j] = "burstPassed"
    /\ hourly.count >= RATE_LIMIT_MAX
    /\ Requeue(j, REQUEUE_DELAY)
    /\ UNCHANGED <<burst, hourly, burstRequeueAttempt, recent, burstBlocks, crashes>>

\* The worker dies between the two scripts; the stalled job starts over.
CrashBetweenScripts(j) ==
    /\ crashes < MaxCrashes
    /\ pc[j] = "burstPassed"
    /\ crashes' = crashes + 1
    /\ pc' = [pc EXCEPT ![j] = "waiting"]
    /\ UNCHANGED <<burst, hourly, delay, burstRequeueAttempt, recent, burstBlocks>>

\* Time passes.
Tick ==
    /\ burst' = Aged(burst)
    /\ hourly' = Aged(hourly)
    /\ delay' = [j \in Jobs |-> IF delay[j] > 0 THEN delay[j] - 1 ELSE 0]
    /\ recent' = [i \in DOMAIN recent |-> IF i = 0 THEN 0 ELSE recent[i - 1]]
    /\ UNCHANGED <<pc, burstRequeueAttempt, burstBlocks, crashes>>

ReserveDMSlot(j) ==
    \/ PassBurst(j) \/ RequeueOnBurst(j) \/ SkipOnBurst(j)
    \/ PassHourly(j) \/ RequeueOnHourly(j)

Next ==
    \/ \E j \in Jobs : ReserveDMSlot(j) \/ CrashBetweenScripts(j)
    \/ Tick

\* Redis expires keys and the queue's delays run out as time passes; the worker
\* runs every job that is due.  A job that is due at a moment when the burst
\* window happens to be full is requeued, so weak fairness is enough.
Fairness == WF_vars(Tick) /\ \A j \in Jobs : WF_vars(ReserveDMSlot(j))

Spec == Init /\ [][Next]_vars /\ Fairness

-----------------------------------------------------------------------------
(* Properties                                                              *)

GrantedWithin(S) == MapThenSumSet(LAMBDA i : recent[i], S \cap DOMAIN recent)

\* The hourly counter is exactly the sends of its window: a burst-throttled
\* send, a crash between the scripts or a burst requeue never uses up any of
\* the account's hourly allowance ("it must never consume the hourly
\* reservation"), and the window is as long as it says.
HourlyCountIsExact ==
    hourly.count = IF hourly.ttl = 0 THEN 0
                   ELSE GrantedWithin(0..(RATE_LIMIT_WINDOW - hourly.ttl))

\* What two fixed windows back to back really bound: twice the cap in any
\* interval as long as the window.
AtMostTwiceTheCap == GrantedWithin(DOMAIN recent) <= 2 * RATE_LIMIT_MAX

\* "A block from this cap is never permanent": a job is dropped only when the
\* burst window itself blocked it once more than its whole burst budget.
OnlyTheBurstBudgetDrops ==
    \A j \in Jobs : pc[j] = "skipped" => burstBlocks[j] > MAX_BURST_REQUEUE_ATTEMPTS

\* The two caps: what the hourly key counts, how much really goes out, and what
\* a full window may cost.
LimitsAreKept == TypeOK /\ HourlyCountIsExact /\ AtMostTwiceTheCap /\ OnlyTheBurstBudgetDrops

\* The backlog drains: every job is granted a slot or dropped by the burst
\* budget, however often the hour is full.
EveryJobSettles == \A j \in Jobs : <>(pc[j] \in Settled)

=============================================================================
