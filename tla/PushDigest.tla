----------------------------- MODULE PushDigest -----------------------------
(***************************************************************************)
(* How events of one kind in one workspace become notifications            *)
(* (enqueuePush in lib/push/notify.ts, the digest branch of processPush in *)
(* lib/queue/push-worker.ts): the first few of ten minutes are sent one by *)
(* one, the others as one digest at the end of the ten minutes, which      *)
(* reports what a Redis counter says by then.  Counting, setting the       *)
(* counter's life time and adding the job are three calls.                 *)
(* Time is counted in ticks, of which a bucket has BucketTicks.            *)
(***************************************************************************)
EXTENDS Naturals, FiniteSets

CONSTANTS Events,      \* events, one call of enqueuePush each
          Threshold,   \* INDIVIDUAL_THRESHOLD
          BucketTicks, \* BUCKET_MS
          KeyTicks,    \* COUNT_KEY_TTL_SECONDS
          Attempts,    \* attempts of a job of the push queue
          LastTick     \* bound on the clock

ASSUME DigestAssumption ==
    /\ IsFiniteSet(Events) /\ Threshold \in Nat /\ LastTick \in Nat /\ Attempts \in Nat \ {0}
    /\ BucketTicks \in Nat \ {0} /\ KeyTicks \in Nat /\ KeyTicks > BucketTicks

VARIABLES
    now,
    counter,     \* Redis: push:count, 0 when there is none
    expires,     \* Redis: when the counter goes, 0 for never
    digest,      \* BullMQ: the bucket's digest job
    event,       \* the calls of enqueuePush
    counted,     \* observer: events of a bucket
    single,      \* observer: events of a bucket sent one by one
    reports,     \* observer: what the digests of a bucket reported, in order
    stragglers,  \* observer: buckets with an event counted, or a job added, after their digest
    retried,     \* observer: buckets with a digest that was tried again after it was sent
    orphans      \* observer: buckets whose counter was left without a life time

digestVars == <<now, counter, expires, digest, event, counted, single, reports, stragglers, retried, orphans>>

Buckets     == 0..(LastTick \div BucketTicks)
BucketOf(t) == t \div BucketTicks
BucketEnd(b) == (b + 1) * BucketTicks
NoEvent == [at |-> "todo", bucket |-> 0, count |-> 0]
NoJob   == [at |-> "none", due |-> 0, attempts |-> 0]

DigestTypeOK ==
    /\ now \in 0..LastTick
    /\ counter \in [Buckets -> 0..Cardinality(Events)] /\ expires \in [Buckets -> Nat]
    /\ \A b \in Buckets : counter[b] = 0 => expires[b] = 0
    /\ digest \in [Buckets -> [at : {"none", "waiting", "done"}, due : Nat, attempts : 0..Attempts]]
    /\ \A b \in Buckets : digest[b].at = "waiting" => digest[b].due >= BucketEnd(b)
    /\ event \in [Events -> [at : {"todo", "expire", "add", "over"}, bucket : Buckets,
                             count : 0..Cardinality(Events)]]
    /\ counted \in [Buckets -> 0..Cardinality(Events)] /\ single \in [Buckets -> Nat]
    /\ reports \in [Buckets -> [times : Nat, last : Nat]]
    /\ stragglers \subseteq Buckets /\ retried \subseteq Buckets /\ orphans \subseteq Buckets

DigestInit ==
    /\ now = 0 /\ counter = [b \in Buckets |-> 0] /\ expires = [b \in Buckets |-> 0]
    /\ digest = [b \in Buckets |-> NoJob] /\ event = [e \in Events |-> NoEvent]
    /\ counted = [b \in Buckets |-> 0] /\ single = [b \in Buckets |-> 0]
    /\ reports = [b \in Buckets |-> [times |-> 0, last |-> 0]]
    /\ stragglers = {} /\ retried = {} /\ orphans = {}

-----------------------------------------------------------------------------
(* enqueuePush                                                             *)

\* INCR.  The bucket is that of the clock before the call, which may take until
\* the next one has begun.
CountEvent(e, b) ==
    /\ event[e].at = "todo"
    /\ b = BucketOf(now) \/ (now > 0 /\ b = BucketOf(now - 1))
    /\ counter' = [counter EXCEPT ![b] = @ + 1]
    /\ event' = [event EXCEPT ![e] = [at |-> IF counter'[b] = 1 THEN "expire" ELSE "add",
                                      bucket |-> b, count |-> counter'[b]]]
    /\ counted' = [counted EXCEPT ![b] = @ + 1]
    /\ stragglers' = IF reports[b].times > 0 THEN stragglers \cup {b} ELSE stragglers
    /\ UNCHANGED <<now, expires, digest, single, reports, retried, orphans>>

\* EXPIRE, by the one that counted first.
SetLifetime(e) ==
    LET b == event[e].bucket IN
    /\ event[e].at = "expire"
    /\ expires' = [expires EXCEPT ![b] = IF counter[b] > 0 THEN now + KeyTicks ELSE @]
    /\ event' = [event EXCEPT ![e].at = "add"]
    /\ UNCHANGED <<now, counter, digest, counted, single, reports, stragglers, retried, orphans>>

\* A job for this event, or the bucket's digest unless it is there, waiting or kept.
Add(e) ==
    LET b == event[e].bucket IN
    /\ event[e].at = "add"
    /\ event' = [event EXCEPT ![e].at = "over"]
    /\ IF event[e].count <= Threshold
       THEN single' = [single EXCEPT ![b] = @ + 1] /\ UNCHANGED digest
       ELSE /\ digest' = IF digest[b].at # "none" THEN digest
                         ELSE [digest EXCEPT ![b] = [at |-> "waiting", attempts |-> 0,
                                   due |-> IF now < BucketEnd(b) THEN BucketEnd(b) ELSE now]]
            /\ UNCHANGED single
    /\ stragglers' = IF event[e].count > Threshold /\ reports[b].times > 0
                     THEN stragglers \cup {b} ELSE stragglers
    /\ UNCHANGED <<now, counter, expires, counted, reports, retried, orphans>>

\* The process dies or Redis fails; the callers only log that.
EventLost(e) ==
    /\ event[e].at \in {"expire", "add"}
    /\ event' = [event EXCEPT ![e].at = "over"]
    /\ orphans' = IF event[e].at = "expire" THEN orphans \cup {event[e].bucket} ELSE orphans
    /\ UNCHANGED <<now, counter, expires, digest, counted, single, reports, stragglers, retried>>

-----------------------------------------------------------------------------
(* push-worker.ts                                                          *)

\* Seeded bug: the digest reports how many events there were when it was added.
RunDigestEarly(b, fails) ==
    /\ digest[b].at = "waiting"
    /\ reports' = IF counter[b] = 0 THEN reports
                  ELSE [reports EXCEPT ![b] = [times |-> @.times + 1, last |-> Threshold + 1]]
    /\ digest' = [digest EXCEPT ![b].at = "done"]
    /\ UNCHANGED <<now, counter, expires, event, counted, single, stragglers, retried, orphans>>

\* processPush of a digest: nothing when the counter is gone.  What comes after
\* the sending may fail, and then the job is tried again.
RunDigest(b, fails) ==
    /\ digest[b].at = "waiting" /\ now >= digest[b].due
    /\ reports' = IF counter[b] = 0 THEN reports
                  ELSE [reports EXCEPT ![b] = [times |-> @.times + 1, last |-> counter[b]]]
    /\ fails => counter[b] > 0
    /\ digest' = IF fails /\ digest[b].attempts + 1 < Attempts
                 THEN [digest EXCEPT ![b].attempts = @ + 1]
                 ELSE [digest EXCEPT ![b].at = "done", ![b].attempts = IF fails THEN @ + 1 ELSE @]
    /\ retried' = IF fails THEN retried \cup {b} ELSE retried
    /\ UNCHANGED <<now, counter, expires, event, counted, single, stragglers, orphans>>

\* BullMQ keeps a number of finished jobs and drops the older ones.
DropDigest(b) ==
    /\ digest[b].at = "done"
    /\ digest' = [digest EXCEPT ![b] = NoJob]
    /\ UNCHANGED <<now, counter, expires, event, counted, single, reports, stragglers, retried, orphans>>

\* The clock, and with it Redis, which drops the counters that are due.
Tick ==
    LET gone == {b \in Buckets : expires[b] # 0 /\ expires[b] <= now + 1} IN
    /\ now < LastTick
    /\ now' = now + 1
    /\ counter' = [b \in Buckets |-> IF b \in gone THEN 0 ELSE counter[b]]
    /\ expires' = [b \in Buckets |-> IF b \in gone THEN 0 ELSE expires[b]]
    /\ UNCHANGED <<digest, event, counted, single, reports, stragglers, retried, orphans>>

DigestNext ==
    \/ \E e \in Events :
          \/ \E b \in Buckets : CountEvent(e, b)
          \/ SetLifetime(e) \/ Add(e) \/ EventLost(e)
    \/ \E b \in Buckets :
          \/ \E fails \in BOOLEAN : RunDigest(b, fails)
          \/ DropDigest(b)
    \/ Tick

DigestSpec == DigestInit /\ [][DigestNext]_digestVars

-----------------------------------------------------------------------------
(* Properties                                                              *)

\* A storm of events is at most a few notifications of its own, whatever the
\* interleaving of the calls.
StormsAreCollapsed == \A b \in Buckets : single[b] <= Threshold

\* A bucket has one digest, unless a job was tried again, or an event came when
\* the digest was over and forgotten.
OneDigestPerBucket ==
    \A b \in Buckets : reports[b].times > 1 =>
        b \in stragglers \cup retried

\* A digest reports every event of its bucket that was counted before it ran.
DigestsCountEverything ==
    \A b \in Buckets : reports[b].times > 0 /\ b \notin stragglers => reports[b].last = counted[b]

\* A counter goes when its bucket is over: it has a life time, or will be given
\* one, unless the call that should have given it died in between.
CountersEnd ==
    \A b \in Buckets : counter[b] > 0 /\ expires[b] = 0 =>
        b \in orphans \/ \E e \in Events : event[e].at = "expire" /\ event[e].bucket = b

\* Counters, single pushes and digests in any order, with crashes and retries: a
\* storm stays few notifications, one digest reports all of it, counters end.
DigestsAreSound ==
    /\ DigestTypeOK
    /\ StormsAreCollapsed
    /\ OneDigestPerBucket
    /\ DigestsCountEverything
    /\ CountersEnd

=============================================================================
