----------------------------- MODULE PhoneProofs -----------------------------
(***************************************************************************)
(* What the phone shows and asks for, for any number of events, accounts,  *)
(* campaigns and requests: a storm of events stays few notifications and   *)
(* one digest that reports all of it, the draft of a campaign that         *)
(* outlives the screens of the wizard is always one the steps before have  *)
(* accepted, the list of campaigns tells the truth or is loaded again,     *)
(* clones and imports make no less than they report and no more than was   *)
(* asked for, and what a phone is sent is what its owner asked for, but    *)
(* for the named races.  The five modules share no variable.               *)
(***************************************************************************)
EXTENDS PushDigest, PushDevices, Wizard, CampaignList, CampaignCopies, SumTheorems

-----------------------------------------------------------------------------
(* PushDigest: the invariant                                               *)

EventStates == [at : {"todo", "expire", "add", "over"}, bucket : Buckets,
                count : 0 .. Cardinality(Events)]
JobStates   == [at : {"none", "waiting", "done"}, due : Nat, attempts : 0 .. Attempts]

\* The events of a bucket that were counted; of these, the ones pushed one by one
\* are among the first few.
CountedIn(b)   == {e \in Events : event[e].at # "todo" /\ event[e].bucket = b}
FirstFew(b)    == {e \in CountedIn(b) : event[e].at = "over" /\ event[e].count <= Threshold}

\* An event is counted in a bucket that has begun, and its number is its own.
EventsHaveNumbers ==
    /\ \A e \in Events : event[e].at # "todo" =>
          /\ event[e].bucket * BucketTicks <= now
          /\ event[e].count \in 1 .. counted[event[e].bucket]
    /\ \A e, f \in Events :
          /\ event[e].at # "todo" /\ event[f].at # "todo"
          /\ event[e].bucket = event[f].bucket /\ event[e].count = event[f].count
          => e = f

\* A counter has counted everything, or went when nobody counts in its bucket any more.
CountersCount ==
    \A b \in Buckets :
        /\ counted[b] = Cardinality(CountedIn(b))
        /\ counter[b] = counted[b] \/ (counter[b] = 0 /\ BucketEnd(b) < now)
        /\ expires[b] # 0 => BucketEnd(b) < expires[b]

\* A push of its own is one of an event among the first few.
PushesAreFirst == \A b \in Buckets : single[b] <= Cardinality(FirstFew(b))

\* A digest that waits has an attempt left, and is the first one of its bucket
\* unless an event came late or the job failed.
JobsMayRun ==
    \A b \in Buckets : digest[b].at = "waiting" =>
        /\ digest[b].attempts < Attempts
        /\ reports[b].times > 0 => b \in stragglers \cup retried

DigestInv ==
    /\ DigestTypeOK /\ EventsHaveNumbers /\ CountersCount /\ PushesAreFirst /\ JobsMayRun
    /\ OneDigestPerBucket /\ DigestsCountEverything /\ CountersEnd

-----------------------------------------------------------------------------
(* PushDigest: the clock and the buckets                                   *)

\* A bucket is the ticks from its number times its length to the next one.
LEMMA Division ==
    ASSUME NEW n \in Nat, NEW k \in Nat \ {0}
    PROVE  /\ n \div k \in Nat
           /\ (n \div k) * k <= n /\ n < (n \div k) * k + k
  <1>1. n \div k \in Nat
    OBVIOUS
  <1>2. (n \div k) * k <= n
    OBVIOUS
  <1>3. n < (n \div k) * k + k
    OBVIOUS
  <1> QED BY <1>1, <1>2, <1>3

\* The numbers of the buckets, where they begin and where they end.
LEMMA BucketFacts ==
    /\ Buckets \subseteq Nat /\ 0 \in Buckets
    /\ \A b \in Buckets : /\ b * BucketTicks \in Nat /\ BucketEnd(b) \in Nat
                          /\ BucketEnd(b) = b * BucketTicks + BucketTicks
  <1>1. LastTick \div BucketTicks \in Nat /\ BucketTicks \in Nat
    BY Division, DigestAssumption
  <1>2. Buckets \subseteq Nat /\ 0 \in Buckets
    BY <1>1 DEF Buckets
  <1>3. ASSUME NEW b \in Nat, NEW k \in Nat
        PROVE  b * k \in Nat /\ (b + 1) * k = b * k + k
    OBVIOUS
  <1> QED BY <1>1, <1>2, <1>3 DEF BucketEnd

\* The parts of a bucket's events are finite.
LEMMA PartsAreFinite ==
    ASSUME NEW b
    PROVE  /\ IsFiniteSet(CountedIn(b)) /\ Cardinality(CountedIn(b)) \in Nat
           /\ Cardinality(CountedIn(b)) <= Cardinality(Events) /\ Cardinality(Events) \in Nat
           /\ IsFiniteSet(FirstFew(b)) /\ Cardinality(FirstFew(b)) \in Nat
  <1>1. CountedIn(b) \in SUBSET Events /\ FirstFew(b) \in SUBSET Events /\ IsFiniteSet(Events)
    BY DigestAssumption DEF CountedIn, FirstFew
  <1> QED BY <1>1, FS_Subset, FS_CardinalityType

\* The types, for the provers.
LEMMA DigestTypes ==
    ASSUME DigestTypeOK
    PROVE  /\ now \in Nat /\ now <= LastTick /\ LastTick \in Nat
           /\ counter \in [Buckets -> Nat] /\ expires \in [Buckets -> Nat]
           /\ event \in [Events -> EventStates] /\ digest \in [Buckets -> JobStates]
           /\ counted \in [Buckets -> Nat] /\ single \in [Buckets -> Nat]
           /\ reports \in [Buckets -> [times : Nat, last : Nat]]
           /\ \A b \in Buckets : counter[b] <= Cardinality(Events) /\ counted[b] <= Cardinality(Events)
           /\ \A e \in Events : event[e].bucket \in Buckets /\ event[e].count \in Nat
  <1>1. Cardinality(Events) \in Nat
    BY DigestAssumption, FS_CardinalityType
  <1> QED BY <1>1, DigestAssumption DEF DigestTypeOK, EventStates, JobStates

\* It holds at the beginning.
LEMMA DigestStarts == DigestInit => DigestInv
  <1> SUFFICES ASSUME DigestInit PROVE DigestInv
    OBVIOUS
  <1>1. Cardinality(Events) \in Nat
    BY DigestAssumption, FS_CardinalityType
  <1>2. DigestTypeOK
    BY <1>1, BucketFacts, DigestAssumption DEF DigestInit, DigestTypeOK, NoEvent, NoJob
  <1>3. \A b \in Buckets : CountedIn(b) = {} /\ FirstFew(b) = {}
    BY DEF DigestInit, CountedIn, FirstFew, NoEvent
  <1>4. CountersCount /\ PushesAreFirst
    BY <1>3, FS_EmptySet DEF DigestInit, CountersCount, PushesAreFirst
  <1>5. EventsHaveNumbers /\ JobsMayRun
    BY DEF DigestInit, EventsHaveNumbers, JobsMayRun, NoEvent, NoJob
  <1>6. OneDigestPerBucket /\ DigestsCountEverything /\ CountersEnd
    BY DEF DigestInit, OneDigestPerBucket, DigestsCountEverything, CountersEnd
  <1> QED BY <1>2, <1>4, <1>5, <1>6 DEF DigestInv

\* A storm of events is at most Threshold notifications of its own: the pushes of
\* a bucket are of events whose numbers differ.
LEMMA FewNumbersFewPushes ==
    ASSUME DigestInv PROVE StormsAreCollapsed
  <1> SUFFICES ASSUME NEW b \in Buckets PROVE single[b] <= Threshold
    BY DEF StormsAreCollapsed
  <1> DEFINE F == FirstFew(b)
             N == 1 .. Threshold
             number == [e \in F |-> event[e].count]
  <1>1. \A e \in F : event[e].count \in N
    BY DigestAssumption DEF DigestInv, EventsHaveNumbers, FirstFew, CountedIn
  <1>2. \A e, f \in F : event[e].count = event[f].count => e = f
    BY DEF DigestInv, EventsHaveNumbers, FirstFew, CountedIn
  <1>3. number \in Injection(F, N)
    BY <1>1, <1>2 DEF Injection, IsInjective
  <1>4. IsFiniteSet(N) /\ Cardinality(N) = Threshold
    BY FS_Interval, DigestAssumption
  <1> HIDE DEF N, number
  <1>5. Cardinality(F) <= Cardinality(N)
    BY <1>3, <1>4, FS_Injection
  <1>6. single[b] <= Cardinality(F) /\ single[b] \in Nat /\ Cardinality(F) \in Nat
    BY PartsAreFinite DEF DigestInv, PushesAreFirst, DigestTypeOK
  <1> QED BY <1>4, <1>5, <1>6, DigestAssumption

-----------------------------------------------------------------------------
(* PushDigest: the steps                                                   *)

\* An event that is counted has the next number of its bucket, which is still open.
LEMMA CountEventKeeps ==
    ASSUME DigestInv, NEW e \in Events, NEW b \in Buckets, CountEvent(e, b)
    PROVE  DigestInv'
  <1> DEFINE k == counter[b] + 1
  <1>1. /\ b * BucketTicks \in Nat /\ BucketEnd(b) \in Nat
        /\ BucketEnd(b) = b * BucketTicks + BucketTicks
    BY BucketFacts
  <1>2. DigestTypeOK
    BY DEF DigestInv
  <1>3. b * BucketTicks <= now /\ now <= BucketEnd(b)
    <2>1. now \in Nat
      BY <1>2, DigestTypes
    <2>2. CASE b = BucketOf(now)
      BY <1>1, <2>1, <2>2, Division, DigestAssumption DEF BucketOf
    <2>3. CASE now > 0 /\ b = BucketOf(now - 1)
      <3>1. now - 1 \in Nat
        BY <2>1, <2>3
      <3>2. b * BucketTicks <= now - 1 /\ now - 1 < b * BucketTicks + BucketTicks
        BY <2>3, <3>1, Division, DigestAssumption DEF BucketOf
      <3> QED BY <1>1, <2>1, <3>2, DigestAssumption
    <2> QED BY <2>2, <2>3 DEF CountEvent
  <1>4. counter[b] = counted[b] /\ counted[b] \in Nat /\ k \in Nat /\ k = counted[b] + 1
    <2>1. counter[b] = counted[b] \/ BucketEnd(b) < now
      BY DEF DigestInv, CountersCount
    <2> QED BY <1>1, <1>2, <1>3, <2>1, DigestTypes
  <1>5. /\ event[e].at = "todo"
        /\ counter' = [counter EXCEPT ![b] = k] /\ counted' = [counted EXCEPT ![b] = k]
        /\ stragglers' = IF reports[b].times > 0 THEN stragglers \cup {b} ELSE stragglers
        /\ UNCHANGED <<now, expires, digest, single, reports, retried, orphans>>
    BY <1>2, <1>4, DigestTypes DEF CountEvent
  <1>6. PICK at \in {"expire", "add"} :
           /\ event' = [event EXCEPT ![e] = [at |-> at, bucket |-> b, count |-> k]]
           /\ k = 1 => at = "expire"
    <2>1. counter'[b] = k
      BY <1>2, <1>5, DigestTypes
    <2> QED BY <2>1 DEF CountEvent
  <1>7. /\ event'[e] = [at |-> at, bucket |-> b, count |-> k]
        /\ \A f \in Events \ {e} : event'[f] = event[f]
        /\ counter'[b] = k /\ counted'[b] = k
        /\ \A c \in Buckets \ {b} : counter'[c] = counter[c] /\ counted'[c] = counted[c]
    BY <1>2, <1>5, <1>6, DigestTypes
  <1> HIDE DEF k
  <1>8. /\ CountedIn(b)' = CountedIn(b) \cup {e} /\ e \notin CountedIn(b)
        /\ \A c \in Buckets \ {b} : CountedIn(c)' = CountedIn(c)
        /\ \A c \in Buckets : FirstFew(c)' = FirstFew(c)
    BY <1>5, <1>7 DEF CountedIn, FirstFew
  <1>9. Cardinality(CountedIn(b)') = Cardinality(CountedIn(b)) + 1
    BY <1>8, PartsAreFinite, FS_AddElement
  <1>10. k = Cardinality(CountedIn(b)') /\ k <= Cardinality(Events) /\ 1 <= k
    <2>1. CountedIn(b)' \in SUBSET Events
      BY DEF CountedIn
    <2>2. Cardinality(CountedIn(b)') <= Cardinality(Events)
      BY <2>1, FS_Subset, DigestAssumption
    <2>3. counted[b] = Cardinality(CountedIn(b)) /\ counted[b] \in Nat
      BY <1>2, DigestTypes DEF DigestInv, CountersCount
    <2> QED BY <1>4, <1>9, <2>2, <2>3
  <1>11. DigestTypeOK'
    <2>1. k \in 0 .. Cardinality(Events) /\ Cardinality(Events) \in Nat
      BY <1>4, <1>10, PartsAreFinite
    <2>2. [at |-> at, bucket |-> b, count |-> k] \in EventStates
      BY <2>1 DEF EventStates
    <2>3. event' \in [Events -> EventStates]
      BY <1>2, <1>6, <2>2, DigestTypes
    <2>4. /\ counter' \in [Buckets -> 0 .. Cardinality(Events)]
          /\ counted' \in [Buckets -> 0 .. Cardinality(Events)]
      BY <1>2, <1>5, <2>1 DEF DigestTypeOK
    <2>5. \A c \in Buckets : counter'[c] = 0 => expires'[c] = 0
      BY <1>2, <1>5, <1>7, <1>10 DEF DigestTypeOK
    <2>6. stragglers' \subseteq Buckets
      BY <1>2, <1>5 DEF DigestTypeOK
    <2> QED BY <1>2, <1>5, <2>3, <2>4, <2>5, <2>6 DEF DigestTypeOK, EventStates
  <1>12. EventsHaveNumbers'
    <2>1. ASSUME NEW f \in Events, event'[f].at # "todo"
          PROVE  /\ event'[f].bucket * BucketTicks <= now'
                 /\ event'[f].count \in 1 .. counted'[event'[f].bucket]
                 /\ f # e => /\ event[f].at # "todo" /\ event'[f] = event[f]
                             /\ event[f].bucket = b => event[f].count # k
      <3>1. CASE f = e
        BY <1>3, <1>4, <1>5, <1>7, <1>10, <3>1
      <3>2. CASE f # e
        <4>1. /\ event[f].bucket * BucketTicks <= now /\ event[f].bucket \in Buckets
              /\ event[f].count \in 1 .. counted[event[f].bucket]
          BY <1>2, <1>7, <2>1, <3>2, DigestTypes DEF DigestInv, EventsHaveNumbers
        <4>2. counted[event[f].bucket] \in Nat
          BY <1>2, <4>1, DigestTypes
        <4> QED BY <1>4, <1>5, <1>7, <2>1, <3>2, <4>1, <4>2
      <3> QED BY <3>1, <3>2
    <2>2. ASSUME NEW f \in Events, NEW g \in Events, event'[f].at # "todo", event'[g].at # "todo",
                 event'[f].bucket = event'[g].bucket, event'[f].count = event'[g].count
          PROVE  f = g
      <3>1. CASE f = e \/ g = e
        BY <1>7, <2>1, <2>2, <3>1
      <3>2. CASE f # e /\ g # e
        BY <2>1, <2>2, <3>2 DEF DigestInv, EventsHaveNumbers
      <3> QED BY <3>1, <3>2
    <2> QED BY <2>1, <2>2 DEF EventsHaveNumbers
  <1>13. CountersCount'
    <2> SUFFICES ASSUME NEW c \in Buckets
                 PROVE  /\ counted'[c] = Cardinality(CountedIn(c)')
                        /\ counter'[c] = counted'[c] \/ (counter'[c] = 0 /\ BucketEnd(c) < now')
                        /\ expires'[c] # 0 => BucketEnd(c) < expires'[c]
      BY DEF CountersCount, BucketEnd
    <2> QED BY <1>5, <1>7, <1>8, <1>10 DEF DigestInv, CountersCount
  <1>14. PushesAreFirst' /\ JobsMayRun' /\ OneDigestPerBucket'
    BY <1>5, <1>8 DEF DigestInv, PushesAreFirst, JobsMayRun, OneDigestPerBucket
  <1>15. DigestsCountEverything'
    BY <1>5, <1>7 DEF DigestInv, DigestsCountEverything
  <1>16. CountersEnd'
    <2> SUFFICES ASSUME NEW c \in Buckets, counter'[c] > 0, expires'[c] = 0
                 PROVE  c \in orphans' \/ \E f \in Events : event'[f].at = "expire" /\ event'[f].bucket = c
      BY DEF CountersEnd
    <2>1. CASE c = b /\ k = 1
      BY <1>6, <1>7, <2>1
    <2>2. CASE ~(c = b /\ k = 1)
      <3>1. counter[c] > 0
        BY <1>4, <1>7, <1>10, <2>2
      <3>2. c \in orphans \/ \E f \in Events : event[f].at = "expire" /\ event[f].bucket = c
        BY <1>5, <3>1 DEF DigestInv, CountersEnd
      <3> QED BY <1>5, <1>7, <3>2
    <2> QED BY <2>1, <2>2
  <1> QED BY <1>11, <1>12, <1>13, <1>14, <1>15, <1>16 DEF DigestInv

\* An event whose call goes on keeps its number.
LEMMA EventGoesOn ==
    ASSUME DigestInv, NEW e \in Events, event[e].at \in {"expire", "add"},
           NEW at \in {"add", "over"}, event' = [event EXCEPT ![e].at = at],
           now' = now, counted' = counted
    PROVE  /\ event' \in [Events -> EventStates] /\ EventsHaveNumbers'
           /\ event'[e].at = at /\ event'[e].bucket = event[e].bucket
           /\ \A f \in Events \ {e} : event'[f] = event[f]
           /\ \A b : CountedIn(b)' = CountedIn(b)
           /\ \A b : FirstFew(b) \subseteq FirstFew(b)' /\ FirstFew(b)' \subseteq FirstFew(b) \cup {e}
           /\ at = "over" /\ event[e].count <= Threshold => e \in FirstFew(event[e].bucket)'
           /\ at = "add" \/ event[e].at = "add" => e \notin FirstFew(event[e].bucket)
  <1>1. PICK x \in EventStates : x = event[e]
    BY DigestTypes DEF DigestInv
  <1>2. event \in [Events -> EventStates]
    BY DigestTypes DEF DigestInv
  <1>3. event' = [event EXCEPT ![e] = [at |-> at, bucket |-> x.bucket, count |-> x.count]]
    <2>1. event' = [event EXCEPT ![e] = [event[e] EXCEPT !.at = at]]
      OBVIOUS
    <2>2. [x EXCEPT !.at = at] = [at |-> at, bucket |-> x.bucket, count |-> x.count]
      BY DEF EventStates
    <2> QED BY <1>1, <2>1, <2>2
  <1>4. /\ event'[e] = [at |-> at, bucket |-> x.bucket, count |-> x.count]
        /\ event'[e] \in EventStates /\ event' \in [Events -> EventStates]
        /\ \A f \in Events \ {e} : event'[f] = event[f]
    BY <1>2, <1>3 DEF EventStates
  <1>5. \A f \in Events : /\ event'[f].bucket = event[f].bucket /\ event'[f].count = event[f].count
                          /\ event'[f].at # "todo" <=> event[f].at # "todo"
    BY <1>1, <1>4
  <1>6. EventsHaveNumbers'
    BY <1>5 DEF DigestInv, EventsHaveNumbers
  <1>7. \A b : CountedIn(b)' = CountedIn(b)
    BY <1>5 DEF CountedIn
  <1>8. ASSUME NEW b
        PROVE  FirstFew(b) \subseteq FirstFew(b)' /\ FirstFew(b)' \subseteq FirstFew(b) \cup {e}
    BY <1>4, <1>5 DEF FirstFew, CountedIn
  <1>9. ASSUME at = "over", event[e].count <= Threshold PROVE e \in FirstFew(event[e].bucket)'
    BY <1>1, <1>4, <1>9 DEF FirstFew, CountedIn
  <1>10. e \notin FirstFew(event[e].bucket)
    BY DEF FirstFew
  <1> QED BY <1>1, <1>4, <1>5, <1>6, <1>7, <1>8, <1>9, <1>10

\* The first event gives the counter its life time, which ends after the bucket.
LEMMA SetLifetimeKeeps ==
    ASSUME DigestInv, NEW e \in Events, SetLifetime(e)
    PROVE  DigestInv'
  <1>1. PICK b \in Buckets : b = event[e].bucket
    BY DigestTypes DEF DigestInv
  <1>2. /\ event[e].at = "expire" /\ event' = [event EXCEPT ![e].at = "add"]
        /\ expires' = [expires EXCEPT ![b] = IF counter[b] > 0 THEN now + KeyTicks ELSE expires[b]]
        /\ UNCHANGED <<now, counter, digest, counted, single, reports, stragglers, retried, orphans>>
    BY <1>1 DEF SetLifetime
  <1>3. /\ event' \in [Events -> EventStates] /\ EventsHaveNumbers'
        /\ event'[e].bucket = event[e].bucket
        /\ \A f \in Events \ {e} : event'[f] = event[f]
        /\ \A c : CountedIn(c)' = CountedIn(c)
        /\ \A c : FirstFew(c) \subseteq FirstFew(c)'
    BY <1>2, EventGoesOn
  <1>4. /\ now \in Nat /\ KeyTicks \in Nat /\ BucketTicks \in Nat /\ KeyTicks > BucketTicks
        /\ b * BucketTicks \in Nat /\ BucketEnd(b) \in Nat
        /\ BucketEnd(b) = b * BucketTicks + BucketTicks /\ b * BucketTicks <= now
        /\ expires \in [Buckets -> Nat] /\ counter \in [Buckets -> Nat]
    BY <1>1, <1>2, BucketFacts, DigestTypes, DigestAssumption DEF DigestInv, EventsHaveNumbers
  <1>5. /\ now + KeyTicks \in Nat /\ BucketEnd(b) < now + KeyTicks /\ now + KeyTicks # 0
    BY <1>4
  <1>6. /\ expires' \in [Buckets -> Nat]
        /\ expires'[b] = IF counter[b] > 0 THEN now + KeyTicks ELSE expires[b]
        /\ \A c \in Buckets \ {b} : expires'[c] = expires[c]
    BY <1>2, <1>4, <1>5
  <1>7. DigestTypeOK'
    <2>1. \A c \in Buckets : counter[c] = 0 => expires'[c] = 0
      BY <1>4, <1>6 DEF DigestInv, DigestTypeOK
    <2> QED BY <1>2, <1>3, <1>6, <2>1 DEF DigestInv, DigestTypeOK, EventStates
  <1>8. CountersCount'
    <2> SUFFICES ASSUME NEW c \in Buckets
                 PROVE  /\ counted'[c] = Cardinality(CountedIn(c)')
                        /\ counter'[c] = counted'[c] \/ (counter'[c] = 0 /\ BucketEnd(c) < now')
                        /\ expires'[c] # 0 => BucketEnd(c) < expires'[c]
      BY DEF CountersCount, BucketEnd
    <2> QED BY <1>2, <1>3, <1>5, <1>6 DEF DigestInv, CountersCount
  <1>9. PushesAreFirst'
    <2> SUFFICES ASSUME NEW c \in Buckets PROVE single'[c] <= Cardinality(FirstFew(c)')
      BY DEF PushesAreFirst
    <2>1. FirstFew(c)' \in SUBSET Events /\ FirstFew(c) \in SUBSET (FirstFew(c)')
      BY <1>3 DEF FirstFew, CountedIn
    <2>2. IsFiniteSet(FirstFew(c)')
      BY <2>1, FS_Subset, DigestAssumption
    <2>3. Cardinality(FirstFew(c)) <= Cardinality(FirstFew(c)') /\ Cardinality(FirstFew(c)') \in Nat
      BY <2>1, <2>2, FS_Subset, FS_CardinalityType
    <2>4. /\ single[c] <= Cardinality(FirstFew(c)) /\ single'[c] = single[c]
          /\ single[c] \in Nat /\ Cardinality(FirstFew(c)) \in Nat
      BY <1>2, PartsAreFinite, DigestTypes DEF DigestInv, PushesAreFirst
    <2> QED BY <2>3, <2>4
  <1>10. JobsMayRun' /\ OneDigestPerBucket' /\ DigestsCountEverything'
    BY <1>2 DEF DigestInv, JobsMayRun, OneDigestPerBucket, DigestsCountEverything
  <1>11. CountersEnd'
    <2> SUFFICES ASSUME NEW c \in Buckets, counter'[c] > 0, expires'[c] = 0
                 PROVE  c \in orphans' \/ \E f \in Events : event'[f].at = "expire" /\ event'[f].bucket = c
      BY DEF CountersEnd
    <2>1. c # b /\ expires[c] = 0
      BY <1>2, <1>5, <1>6
    <2>2. c \in orphans \/ \E f \in Events : event[f].at = "expire" /\ event[f].bucket = c
      BY <1>2, <2>1 DEF DigestInv, CountersEnd
    <2> QED BY <1>1, <1>2, <1>3, <2>1, <2>2
  <1> QED BY <1>3, <1>7, <1>8, <1>9, <1>10, <1>11 DEF DigestInv

\* A call that ends keeps the counters, and who was to give them a life time.
LEMMA EventEnds ==
    ASSUME DigestInv, NEW e \in Events, event[e].at \in {"expire", "add"},
           event' = [event EXCEPT ![e].at = "over"],
           UNCHANGED <<now, counter, expires, counted, reports, retried>>,
           orphans \subseteq orphans',
           event[e].at = "expire" => event[e].bucket \in orphans'
    PROVE  CountersCount' /\ CountersEnd'
  <1>1. /\ \A f \in Events \ {e} : event'[f] = event[f]
        /\ \A c : CountedIn(c)' = CountedIn(c)
    BY EventGoesOn
  <1>2. CountersCount'
    <2> SUFFICES ASSUME NEW c \in Buckets
                 PROVE  /\ counted'[c] = Cardinality(CountedIn(c)')
                        /\ counter'[c] = counted'[c] \/ (counter'[c] = 0 /\ BucketEnd(c) < now')
                        /\ expires'[c] # 0 => BucketEnd(c) < expires'[c]
      BY DEF CountersCount, BucketEnd
    <2> QED BY <1>1 DEF DigestInv, CountersCount
  <1>3. CountersEnd'
    <2> SUFFICES ASSUME NEW c \in Buckets, counter'[c] > 0, expires'[c] = 0
                 PROVE  c \in orphans' \/ \E f \in Events : event'[f].at = "expire" /\ event'[f].bucket = c
      BY DEF CountersEnd
    <2>1. c \in orphans \/ \E f \in Events : event[f].at = "expire" /\ event[f].bucket = c
      BY DEF DigestInv, CountersEnd
    <2> QED BY <1>1, <2>1
  <1> QED BY <1>2, <1>3

\* The pushes of their own are among the first few, also when one is added.
LEMMA PushesStayFirst ==
    ASSUME DigestInv, NEW e \in Events, event[e].at \in {"expire", "add"},
           event' = [event EXCEPT ![e].at = "over"], now' = now, counted' = counted,
           \/ single' = single
           \/ /\ event[e].count <= Threshold
              /\ single' = [single EXCEPT ![event[e].bucket] = @ + 1]
    PROVE  PushesAreFirst' /\ single' \in [Buckets -> Nat]
  <1>1. PICK b \in Buckets : b = event[e].bucket
    BY DigestTypes DEF DigestInv
  <1>2. single \in [Buckets -> Nat] /\ \A c \in Buckets : single[c] <= Cardinality(FirstFew(c))
    BY DigestTypes DEF DigestInv, PushesAreFirst
  <1>3. /\ \A c : FirstFew(c) \subseteq FirstFew(c)'
        /\ event[e].count <= Threshold => e \in FirstFew(b)'
        /\ e \notin FirstFew(b)
    <2>1. e \notin FirstFew(b)
      BY DEF FirstFew
    <2> QED BY <1>1, <2>1, EventGoesOn
  <1>4. ASSUME NEW c \in Buckets
        PROVE  /\ Cardinality(FirstFew(c)) <= Cardinality(FirstFew(c)')
               /\ Cardinality(FirstFew(c)) \in Nat /\ Cardinality(FirstFew(c)') \in Nat
               /\ c = b /\ event[e].count <= Threshold =>
                    Cardinality(FirstFew(c)) + 1 <= Cardinality(FirstFew(c)')
    <2>1. FirstFew(c)' \in SUBSET Events /\ FirstFew(c) \in SUBSET (FirstFew(c)')
      BY <1>3 DEF FirstFew, CountedIn
    <2>2. IsFiniteSet(FirstFew(c)') /\ IsFiniteSet(FirstFew(c))
      BY <2>1, FS_Subset, DigestAssumption
    <2>3. Cardinality(FirstFew(c)) <= Cardinality(FirstFew(c)')
      BY <2>1, <2>2, FS_Subset
    <2>4. Cardinality(FirstFew(c)) \in Nat /\ Cardinality(FirstFew(c)') \in Nat
      BY <2>2, FS_CardinalityType
    <2>5. ASSUME c = b, event[e].count <= Threshold
          PROVE  Cardinality(FirstFew(c)) + 1 <= Cardinality(FirstFew(c)')
      <3>1. FirstFew(c) \cup {e} \in SUBSET (FirstFew(c)') /\ e \notin FirstFew(c)
        BY <1>3, <2>5
      <3>2. Cardinality(FirstFew(c) \cup {e}) = Cardinality(FirstFew(c)) + 1
        BY <2>2, <3>1, FS_AddElement
      <3> QED BY <2>2, <3>1, <3>2, FS_Subset
    <2> QED BY <2>3, <2>4, <2>5
  <1>5. CASE single' = single
    BY <1>2, <1>4, <1>5 DEF PushesAreFirst
  <1>6. CASE event[e].count <= Threshold /\ single' = [single EXCEPT ![b] = single[b] + 1]
    <2>1. /\ single' \in [Buckets -> Nat] /\ single'[b] = single[b] + 1
          /\ \A c \in Buckets \ {b} : single'[c] = single[c]
      BY <1>2, <1>6
    <2> SUFFICES ASSUME NEW c \in Buckets PROVE single'[c] <= Cardinality(FirstFew(c)')
      BY <2>1 DEF PushesAreFirst
    <2>2. CASE c = b
      BY <1>2, <1>4, <1>6, <2>1, <2>2
    <2>3. CASE c # b
      BY <1>2, <1>4, <2>1, <2>3
    <2> QED BY <2>2, <2>3
  <1> QED BY <1>1, <1>5, <1>6

\* An event becomes a push of its own, or adds the bucket's digest.
LEMMA AddKeeps ==
    ASSUME DigestInv, NEW e \in Events, Add(e)
    PROVE  DigestInv'
  <1>1. PICK b \in Buckets : b = event[e].bucket
    BY DigestTypes DEF DigestInv
  <1>2. /\ event[e].at = "add" /\ event' = [event EXCEPT ![e].at = "over"]
        /\ UNCHANGED <<now, counter, expires, counted, reports, retried, orphans>>
        /\ stragglers' = IF event[e].count > Threshold /\ reports[b].times > 0
                         THEN stragglers \cup {b} ELSE stragglers
        /\ \/ event[e].count <= Threshold /\ single' = [single EXCEPT ![b] = @ + 1] /\ digest' = digest
           \/ /\ ~(event[e].count <= Threshold) /\ single' = single
              /\ digest' = IF digest[b].at # "none" THEN digest
                           ELSE [digest EXCEPT ![b] = [at |-> "waiting", attempts |-> 0,
                                     due |-> IF now < BucketEnd(b) THEN BucketEnd(b) ELSE now]]
    BY <1>1 DEF Add
  <1>3. event' \in [Events -> EventStates] /\ EventsHaveNumbers'
    BY <1>2, EventGoesOn
  <1>4. CountersCount' /\ CountersEnd'
    BY <1>2, EventEnds
  <1>5. PushesAreFirst' /\ single' \in [Buckets -> Nat]
    BY <1>1, <1>2, PushesStayFirst
  <1>6. stragglers \subseteq stragglers' /\ stragglers' \subseteq Buckets
    BY <1>2 DEF DigestInv, DigestTypeOK
  <1>7. /\ digest \in [Buckets -> JobStates] /\ event[e].count \in Nat /\ Threshold \in Nat
        /\ now \in Nat /\ BucketEnd(b) \in Nat /\ Attempts \in Nat \ {0}
    BY BucketFacts, DigestTypes, DigestAssumption DEF DigestInv
  <1>8. CASE digest' = digest
    <2>1. DigestTypeOK'
      BY <1>2, <1>3, <1>5, <1>6, <1>8 DEF DigestInv, DigestTypeOK, EventStates
    <2>2. JobsMayRun' /\ OneDigestPerBucket' /\ DigestsCountEverything'
      BY <1>2, <1>6, <1>8 DEF DigestInv, JobsMayRun, OneDigestPerBucket, DigestsCountEverything
    <2> QED BY <1>3, <1>4, <1>5, <2>1, <2>2 DEF DigestInv
  <1>9. CASE digest' # digest
    <2>1. PICK due \in Nat : /\ due >= BucketEnd(b)
                             /\ digest' = [digest EXCEPT ![b] = [at |-> "waiting", attempts |-> 0, due |-> due]]
      BY <1>2, <1>7, <1>9
    <2>2. event[e].count > Threshold
      BY <1>2, <1>7, <1>9
    <2>3. /\ digest' \in [Buckets -> JobStates]
          /\ digest'[b] = [at |-> "waiting", attempts |-> 0, due |-> due]
          /\ \A c \in Buckets \ {b} : digest'[c] = digest[c]
      BY <1>7, <2>1 DEF JobStates
    <2>4. \A c \in Buckets : digest'[c].at = "waiting" => digest'[c].due >= BucketEnd(c)
      BY <2>1, <2>3 DEF DigestInv, DigestTypeOK
    <2>5. DigestTypeOK'
      BY <1>2, <1>3, <1>5, <1>6, <2>3, <2>4 DEF DigestInv, DigestTypeOK, EventStates, JobStates, BucketEnd
    <2>6. JobsMayRun'
      <3> SUFFICES ASSUME NEW c \in Buckets, digest'[c].at = "waiting"
                   PROVE  digest'[c].attempts < Attempts
                          /\ (reports'[c].times > 0 => c \in stragglers' \cup retried')
        BY DEF JobsMayRun
      <3>1. CASE c = b
        BY <1>2, <1>7, <2>2, <2>3, <3>1
      <3>2. CASE c # b
        BY <1>2, <1>6, <2>3, <3>2 DEF DigestInv, JobsMayRun
      <3> QED BY <3>1, <3>2
    <2>7. OneDigestPerBucket' /\ DigestsCountEverything'
      BY <1>2, <1>6 DEF DigestInv, OneDigestPerBucket, DigestsCountEverything
    <2> QED BY <1>3, <1>4, <1>5, <2>5, <2>6, <2>7 DEF DigestInv
  <1> QED BY <1>8, <1>9

\* A call that dies leaves the counter without a life time when it was to set one.
LEMMA EventLostKeeps ==
    ASSUME DigestInv, NEW e \in Events, EventLost(e)
    PROVE  DigestInv'
  <1>1. /\ event[e].at \in {"expire", "add"} /\ event' = [event EXCEPT ![e].at = "over"]
        /\ orphans' = IF event[e].at = "expire" THEN orphans \cup {event[e].bucket} ELSE orphans
        /\ UNCHANGED <<now, counter, expires, digest, counted, single, reports, stragglers, retried>>
    BY DEF EventLost
  <1>2. event' \in [Events -> EventStates] /\ EventsHaveNumbers'
    BY <1>1, EventGoesOn
  <1>3. CountersCount' /\ CountersEnd'
    BY <1>1, EventEnds
  <1>4. PushesAreFirst'
    BY <1>1, PushesStayFirst
  <1>5. orphans' \subseteq Buckets
    BY <1>1, DigestTypes DEF DigestInv, DigestTypeOK
  <1>6. DigestTypeOK'
    BY <1>1, <1>2, <1>5 DEF DigestInv, DigestTypeOK, EventStates
  <1>7. JobsMayRun' /\ OneDigestPerBucket' /\ DigestsCountEverything'
    BY <1>1 DEF DigestInv, JobsMayRun, OneDigestPerBucket, DigestsCountEverything
  <1> QED BY <1>2, <1>3, <1>4, <1>6, <1>7 DEF DigestInv

\* A digest reports what the counter says, which is everything or nothing; one
\* that is tried again is known.
LEMMA RunDigestKeeps ==
    ASSUME DigestInv, NEW b \in Buckets, NEW fails \in BOOLEAN, RunDigest(b, fails)
    PROVE  DigestInv'
  <1>1. /\ digest[b].at = "waiting"
        /\ reports' = IF counter[b] = 0 THEN reports
                      ELSE [reports EXCEPT ![b] = [times |-> reports[b].times + 1, last |-> counter[b]]]
        /\ retried' = IF fails THEN retried \cup {b} ELSE retried
        /\ UNCHANGED <<now, counter, expires, event, counted, single, stragglers, orphans>>
    BY DEF RunDigest
  <1>2. /\ digest \in [Buckets -> JobStates] /\ counter \in [Buckets -> Nat]
        /\ reports \in [Buckets -> [times : Nat, last : Nat]] /\ Attempts \in Nat \ {0}
        /\ counted \in [Buckets -> Nat]
    BY DigestTypes, DigestAssumption DEF DigestInv
  <1>3. PICK x \in JobStates : x = digest[b]
    BY <1>2
  <1>4. x.at = "waiting" /\ x.attempts \in Nat /\ x.attempts < Attempts
    BY <1>1, <1>3 DEF DigestInv, JobsMayRun, JobStates
  <1>5. PICK y \in JobStates :
           /\ digest' = [digest EXCEPT ![b] = y]
           /\ y.at # "none" /\ y.due = x.due
           /\ y.at = "waiting" => fails /\ y.attempts < Attempts
    <2>1. CASE fails /\ x.attempts + 1 < Attempts
      <3>1. digest' = [digest EXCEPT ![b] = [x EXCEPT !.attempts = x.attempts + 1]]
        BY <1>3, <2>1 DEF RunDigest
      <3>2. /\ [x EXCEPT !.attempts = x.attempts + 1]
                  = [at |-> x.at, due |-> x.due, attempts |-> x.attempts + 1]
            /\ [at |-> x.at, due |-> x.due, attempts |-> x.attempts + 1] \in JobStates
        BY <1>2, <1>4, <2>1 DEF JobStates
      <3> QED BY <1>4, <2>1, <3>1, <3>2
    <2>2. CASE ~(fails /\ x.attempts + 1 < Attempts)
      <3> DEFINE n == IF fails THEN x.attempts + 1 ELSE x.attempts
      <3>1. digest' = [digest EXCEPT ![b] = [[x EXCEPT !.at = "done"] EXCEPT !.attempts =
                                               IF fails THEN x.attempts + 1 ELSE x.attempts]]
        <4>1. digest' = [digest EXCEPT ![b].at = "done", ![b].attempts = IF fails THEN @ + 1 ELSE @]
          BY <1>3, <2>2 DEF RunDigest
        <4> QED BY <1>2, <1>3, <4>1 DEF JobStates
      <3>2. n \in 0 .. Attempts
        BY <1>2, <1>4
      <3>3. /\ [[x EXCEPT !.at = "done"] EXCEPT !.attempts = n] = [at |-> "done", due |-> x.due, attempts |-> n]
            /\ [at |-> "done", due |-> x.due, attempts |-> n] \in JobStates
        <4> HIDE DEF n
        <4>1. [[x EXCEPT !.at = "done"] EXCEPT !.attempts = n] = [at |-> "done", due |-> x.due, attempts |-> n]
          <5>1. [x EXCEPT !.at = "done"] = [at |-> "done", due |-> x.due, attempts |-> x.attempts]
            BY DEF JobStates
          <5>2. [[at |-> "done", due |-> x.due, attempts |-> x.attempts] EXCEPT !.attempts = n]
                   = [at |-> "done", due |-> x.due, attempts |-> n]
            OBVIOUS
          <5> QED BY <5>1, <5>2
        <4>2. x.due \in Nat
          BY DEF JobStates
        <4> QED BY <3>2, <4>1, <4>2 DEF JobStates
      <3> QED BY <3>1, <3>3
    <2> QED BY <2>1, <2>2
  <1>6. /\ digest' \in [Buckets -> JobStates] /\ digest'[b] = y
        /\ \A c \in Buckets \ {b} : digest'[c] = digest[c]
    BY <1>2, <1>5
  <1>7. /\ reports' \in [Buckets -> [times : Nat, last : Nat]]
        /\ \A c \in Buckets \ {b} : reports'[c] = reports[c]
        /\ \/ reports'[b] = reports[b]
           \/ /\ counter[b] # 0
              /\ reports'[b].times = reports[b].times + 1 /\ reports'[b].last = counter[b]
    <2>1. reports[b].times + 1 \in Nat /\ counter[b] \in Nat
      BY <1>2
    <2> QED BY <1>1, <1>2, <2>1
  <1>8. retried \subseteq retried' /\ retried' \subseteq Buckets /\ (fails => b \in retried')
    BY <1>1 DEF DigestInv, DigestTypeOK
  <1>9. DigestTypeOK'
    <2>1. \A c \in Buckets : digest'[c].at = "waiting" => digest'[c].due >= BucketEnd(c)
      BY <1>3, <1>4, <1>5, <1>6 DEF DigestInv, DigestTypeOK
    <2> QED BY <1>1, <1>6, <1>7, <1>8, <2>1 DEF DigestInv, DigestTypeOK, JobStates, BucketEnd
  <1>10. JobsMayRun'
    <2> SUFFICES ASSUME NEW c \in Buckets, digest'[c].at = "waiting"
                 PROVE  digest'[c].attempts < Attempts
                        /\ (reports'[c].times > 0 => c \in stragglers' \cup retried')
      BY DEF JobsMayRun
    <2>1. CASE c = b
      BY <1>5, <1>6, <1>8, <2>1
    <2>2. CASE c # b
      BY <1>1, <1>6, <1>7, <1>8, <2>2 DEF DigestInv, JobsMayRun
    <2> QED BY <2>1, <2>2
  <1>11. OneDigestPerBucket'
    <2> SUFFICES ASSUME NEW c \in Buckets, reports'[c].times > 1
                 PROVE  c \in stragglers' \cup retried'
      BY DEF OneDigestPerBucket
    <2>1. CASE reports'[c] = reports[c]
      BY <1>1, <1>8, <2>1 DEF DigestInv, OneDigestPerBucket
    <2>2. CASE reports'[c] # reports[c]
      <3>1. c = b /\ reports[b].times > 0
        BY <1>2, <1>7, <2>2
      <3> QED BY <1>1, <1>8, <3>1 DEF DigestInv, JobsMayRun
    <2> QED BY <2>1, <2>2
  <1>12. DigestsCountEverything'
    <2> SUFFICES ASSUME NEW c \in Buckets, reports'[c].times > 0, c \notin stragglers'
                 PROVE  reports'[c].last = counted'[c]
      BY DEF DigestsCountEverything
    <2>1. CASE reports'[c] = reports[c]
      BY <1>1, <2>1 DEF DigestInv, DigestsCountEverything
    <2>2. CASE reports'[c] # reports[c]
      <3>1. c = b /\ counter[b] # 0 /\ reports'[b].last = counter[b]
        BY <1>7, <2>2
      <3> QED BY <1>1, <3>1 DEF DigestInv, CountersCount
    <2> QED BY <2>1, <2>2
  <1>13. EventsHaveNumbers' /\ CountersCount' /\ PushesAreFirst' /\ CountersEnd'
    BY <1>1 DEF DigestInv, EventsHaveNumbers, CountersCount, PushesAreFirst, CountersEnd, CountedIn,
                FirstFew, BucketEnd
  <1> QED BY <1>9, <1>10, <1>11, <1>12, <1>13 DEF DigestInv

\* A finished job that is forgotten changes nothing of what was reported.
LEMMA DropDigestKeeps ==
    ASSUME DigestInv, NEW b \in Buckets, DropDigest(b)
    PROVE  DigestInv'
  <1>1. /\ digest' = [digest EXCEPT ![b] = NoJob]
        /\ UNCHANGED <<now, counter, expires, event, counted, single, reports, stragglers, retried, orphans>>
    BY DEF DropDigest
  <1>2. digest \in [Buckets -> JobStates] /\ NoJob \in JobStates /\ NoJob.at # "waiting"
    BY DigestTypes, DigestAssumption DEF DigestInv, NoJob, JobStates
  <1>3. /\ digest' \in [Buckets -> JobStates]
        /\ \A c \in Buckets : digest'[c].at = "waiting" => digest'[c] = digest[c]
    BY <1>1, <1>2
  <1>4. DigestTypeOK'
    BY <1>1, <1>3 DEF DigestInv, DigestTypeOK, JobStates, BucketEnd
  <1>5. JobsMayRun' /\ OneDigestPerBucket' /\ DigestsCountEverything'
    BY <1>1, <1>3 DEF DigestInv, JobsMayRun, OneDigestPerBucket, DigestsCountEverything
  <1>6. EventsHaveNumbers' /\ CountersCount' /\ PushesAreFirst' /\ CountersEnd'
    BY <1>1 DEF DigestInv, EventsHaveNumbers, CountersCount, PushesAreFirst, CountersEnd, CountedIn,
                FirstFew, BucketEnd
  <1> QED BY <1>4, <1>5, <1>6 DEF DigestInv

\* A counter that goes does so after its bucket, when nobody counts in it any more.
LEMMA TickKeeps ==
    ASSUME DigestInv, Tick
    PROVE  DigestInv'
  <1>1. /\ now \in Nat /\ now' = now + 1 /\ now' \in 0 .. LastTick
        /\ UNCHANGED <<digest, event, counted, single, reports, stragglers, retried, orphans>>
    BY DigestTypes DEF DigestInv, Tick
  <1>2. /\ counter \in [Buckets -> 0 .. Cardinality(Events)] /\ expires \in [Buckets -> Nat]
        /\ Cardinality(Events) \in Nat
    BY PartsAreFinite DEF DigestInv, DigestTypeOK
  <1>3. /\ counter' \in [Buckets -> 0 .. Cardinality(Events)] /\ expires' \in [Buckets -> Nat]
        /\ \A b \in Buckets :
              \/ counter'[b] = counter[b] /\ expires'[b] = expires[b]
              \/ /\ expires[b] # 0 /\ expires[b] <= now + 1
                 /\ counter'[b] = 0 /\ expires'[b] = 0
    BY <1>2 DEF Tick
  <1>4. \A b \in Buckets : BucketEnd(b) \in Nat
    BY BucketFacts
  <1>5. DigestTypeOK'
    <2>1. \A b \in Buckets : counter'[b] = 0 => expires'[b] = 0
      BY <1>3 DEF DigestInv, DigestTypeOK
    <2> QED BY <1>1, <1>3, <2>1 DEF DigestInv, DigestTypeOK, BucketEnd
  <1>6. EventsHaveNumbers'
    <2> SUFFICES ASSUME NEW e \in Events, event[e].at # "todo"
                 PROVE  event[e].bucket * BucketTicks <= now'
      BY <1>1 DEF DigestInv, EventsHaveNumbers
    <2>1. event[e].bucket * BucketTicks \in Nat /\ event[e].bucket * BucketTicks <= now
      BY BucketFacts, DigestTypes DEF DigestInv, EventsHaveNumbers
    <2> QED BY <1>1, <2>1
  <1>7. CountersCount'
    <2> SUFFICES ASSUME NEW b \in Buckets
                 PROVE  /\ counted'[b] = Cardinality(CountedIn(b)')
                        /\ counter'[b] = counted'[b] \/ (counter'[b] = 0 /\ BucketEnd(b) < now')
                        /\ expires'[b] # 0 => BucketEnd(b) < expires'[b]
      BY DEF CountersCount, BucketEnd
    <2>1. /\ counted[b] = Cardinality(CountedIn(b)) /\ CountedIn(b)' = CountedIn(b)
          /\ counter[b] = counted[b] \/ (counter[b] = 0 /\ BucketEnd(b) < now)
          /\ expires[b] # 0 => BucketEnd(b) < expires[b]
      BY <1>1 DEF DigestInv, CountersCount, CountedIn
    <2>2. expires[b] \in Nat /\ BucketEnd(b) \in Nat
      BY <1>2, <1>4
    <2> QED BY <1>1, <1>3, <2>1, <2>2
  <1>8. PushesAreFirst' /\ JobsMayRun' /\ OneDigestPerBucket' /\ DigestsCountEverything'
    BY <1>1 DEF DigestInv, PushesAreFirst, JobsMayRun, OneDigestPerBucket, DigestsCountEverything,
                FirstFew, CountedIn
  <1>9. CountersEnd'
    <2> SUFFICES ASSUME NEW b \in Buckets, counter'[b] > 0, expires'[b] = 0
                 PROVE  b \in orphans' \/ \E e \in Events : event'[e].at = "expire" /\ event'[e].bucket = b
      BY DEF CountersEnd
    <2>1. counter[b] > 0 /\ expires[b] = 0
      BY <1>3
    <2> QED BY <1>1, <2>1 DEF DigestInv, CountersEnd
  <1> QED BY <1>5, <1>6, <1>7, <1>8, <1>9 DEF DigestInv

\* A storm of events stays a few notifications and one digest that reports all of
\* it, and its counter ends, whatever the order of the calls, the crashes and the
\* retries: for any number of events, threshold, length of a bucket and life time
\* of a counter longer than that.
THEOREM DigestsHold == DigestSpec => []DigestsAreSound
  <1>1. DigestInit => DigestInv
    BY DigestStarts
  <1>2. DigestInv /\ [DigestNext]_digestVars => DigestInv'
    <2> SUFFICES ASSUME DigestInv, [DigestNext]_digestVars PROVE DigestInv'
      OBVIOUS
    <2>1. ASSUME NEW e \in Events, NEW b \in Buckets, CountEvent(e, b) PROVE DigestInv'
      BY <2>1, CountEventKeeps
    <2>2. ASSUME NEW e \in Events, SetLifetime(e) PROVE DigestInv'
      BY <2>2, SetLifetimeKeeps
    <2>3. ASSUME NEW e \in Events, Add(e) PROVE DigestInv'
      BY <2>3, AddKeeps
    <2>4. ASSUME NEW e \in Events, EventLost(e) PROVE DigestInv'
      BY <2>4, EventLostKeeps
    <2>5. ASSUME NEW b \in Buckets, NEW fails \in BOOLEAN, RunDigest(b, fails) PROVE DigestInv'
      BY <2>5, RunDigestKeeps
    <2>6. ASSUME NEW b \in Buckets, DropDigest(b) PROVE DigestInv'
      BY <2>6, DropDigestKeeps
    <2>7. CASE Tick
      BY <2>7, TickKeeps
    <2>8. CASE UNCHANGED digestVars
      <3>1. UNCHANGED <<now, counter, expires, digest, event, counted, single, reports, stragglers,
                        retried, orphans>>
        BY <2>8 DEF digestVars
      <3>2. DigestTypeOK'
        BY <3>1 DEF DigestInv, DigestTypeOK, BucketEnd
      <3>3. EventsHaveNumbers' /\ CountersCount' /\ PushesAreFirst'
        BY <3>1 DEF DigestInv, EventsHaveNumbers, CountersCount, PushesAreFirst, CountedIn, FirstFew,
                    BucketEnd
      <3>4. JobsMayRun' /\ OneDigestPerBucket' /\ DigestsCountEverything' /\ CountersEnd'
        BY <3>1 DEF DigestInv, JobsMayRun, OneDigestPerBucket, DigestsCountEverything, CountersEnd
      <3> QED BY <3>2, <3>3, <3>4 DEF DigestInv
    <2> QED BY <2>1, <2>2, <2>3, <2>4, <2>5, <2>6, <2>7, <2>8 DEF DigestNext
  <1>3. DigestInv => DigestsAreSound
    BY FewNumbersFewPushes DEF DigestInv, DigestsAreSound
  <1> QED BY <1>1, <1>2, <1>3, PTL DEF DigestSpec

-----------------------------------------------------------------------------
(* Wizard: the invariant                                                   *)

\* A request of the phone: its body is the draft as it was.
CreateStates == [at : {"sent", "stored", "refused", "late", "over", "created"}, body : Draft,
                 stored : BOOLEAN, of : Nat, heard : SUBSET Creates]
Made(n)      == create[n] # NoCreate

\* The post of a draft is one of its account; so is that of a request with a
\* chosen post.
PostsFit == draft.post \in {Nothing, draft.account}

\* A draft the phone has heard of is emptied; what was heard of when a request was
\* made came from an earlier draft.
HeardOfBefore ==
    \A n \in Creates : Made(n) =>
        /\ create[n].of <= lineage
        /\ create[n].at = "created" => create[n].of < lineage
        /\ \A m \in create[n].heard : Made(m) /\ create[m].of < create[n].of

WizardInv ==
    /\ WizardTypeOK /\ EarlierStepsPassed /\ ChosenPostsFit
    /\ create \in [Creates -> CreateStates \cup {NoCreate}]
    /\ PostsFit /\ HeardOfBefore

-----------------------------------------------------------------------------
(* Wizard: what the parts say                                              *)

\* A request that was made, and one that was not.
LEMMA CreateTypes ==
    ASSUME WizardInv, NEW n \in Creates
    PROVE  /\ create[n] = NoCreate \/ create[n] \in CreateStates
           /\ create[n] = NoCreate => create[n].at = "none"
           /\ create[n] \in CreateStates => Made(n) /\ create[n].at # "none"
           /\ create[n].at # "none" => create[n] \in CreateStates /\ Made(n)
  <1>1. create[n] = NoCreate \/ create[n] \in CreateStates
    BY DEF WizardInv
  <1>2. NoCreate.at = "none" /\ \A c \in CreateStates : c.at # "none"
    BY DEF NoCreate, CreateStates
  <1> QED BY <1>1, <1>2 DEF Made

\* No draft makes two campaigns once the phone has heard of the first.
LEMMA HeardIsAnotherDraft ==
    ASSUME WizardInv PROVE OneDraftOneCampaign
  <1> SUFFICES ASSUME NEW n \in Creates, Made(n), NEW m \in create[n].heard
               PROVE  create[m].of # create[n].of
    BY DEF OneDraftOneCampaign, Made
  <1>1. create[n] \in CreateStates /\ m \in Creates
    BY CreateTypes DEF Made, CreateStates
  <1>2. Made(m) /\ create[m].of < create[n].of
    BY DEF WizardInv, HeardOfBefore
  <1>3. create[m].of \in Nat /\ create[n].of \in Nat
    BY <1>1, <1>2, CreateTypes DEF Made, CreateStates
  <1> QED BY <1>2, <1>3

\* An account the draft takes by itself undoes no check and chooses no post.
LEMMA DefaultsKeep ==
    ASSUME NEW d \in Draft, d.post \in {Nothing, d.account}, NEW A \in SUBSET WizAccounts,
           NEW e \in Defaults(d, A)
    PROVE  /\ e \in Draft /\ e.post \in {Nothing, e.account}
           /\ \A n \in 1 .. 5 : Passes(n, d) => Passes(n, e)
  <1>1. CASE e = d
    BY <1>1
  <1>2. CASE d.account = Nothing /\ \E a \in A : e = [d EXCEPT !.account = a]
    <2>1. PICK a \in WizAccounts : e = [d EXCEPT !.account = a]
      BY <1>2
    <2>2. /\ e \in Draft /\ e.post = d.post /\ e.words = d.words /\ e.text = d.text
          /\ e.named = d.named
      BY <2>1 DEF Draft
    <2>3. d.post = Nothing /\ ~validateStep1(d)
      BY <1>2 DEF validateStep1
    <2>4. \A n \in 1 .. 5 : Passes(n, d) => Passes(n, e)
      BY <2>2, <2>3 DEF Passes, validateStep2, validateStep4, validateStep5
    <2> QED BY <2>2, <2>3, <2>4
  <1> QED BY <1>1, <1>2 DEF Defaults

\* The empty draft.
LEMMA EmptyDraft == initialDraft \in Draft /\ initialDraft.post \in {Nothing, initialDraft.account}
  BY DEF initialDraft, Draft, Scopes

\* A screen that sends nothing keeps what the requests are.
LEMMA ScreenKeeps ==
    ASSUME WizardInv, draft' \in Draft, draft'.post \in {Nothing, draft'.account},
           step' \in 0 .. 5, picking' \in BOOLEAN, picking' => step' = 1,
           known' \subseteq WizAccounts, linked' \subseteq WizAccounts, create' = create,
           pending' \in {0} \cup {n \in Creates : step' = 5 /\ create[n].at \in {"sent", "stored", "refused"}},
           lineage' = lineage, edits' \in 0 .. MaxEdits,
           \A n \in 1 .. 5 : n < step' => Passes(n, draft')
    PROVE  WizardInv'
  <1>1. WizardTypeOK'
    BY DEF WizardInv, WizardTypeOK
  <1>2. EarlierStepsPassed'
    BY DEF EarlierStepsPassed, Passes, validateStep1, validateStep2, validateStep4, validateStep5
  <1>3. ChosenPostsFit' /\ HeardOfBefore' /\ create' \in [Creates -> CreateStates \cup {NoCreate}]
    BY DEF WizardInv, ChosenPostsFit, HeardOfBefore, Made
  <1>4. PostsFit'
    BY DEF PostsFit
  <1> QED BY <1>1, <1>2, <1>3, <1>4 DEF WizardInv

\* A change of the draft that leaves what the steps before have checked.
LEMMA EditKeeps ==
    ASSUME WizardInv, NEW d \in Draft, d.post \in {Nothing, d.account}, Edit(d),
           picking' \in BOOLEAN, picking' => step = 1,
           \A n \in 1 .. 5 : n < step => Passes(n, d)
    PROVE  WizardInv'
  <1>1. /\ draft' = d /\ edits' \in 0 .. MaxEdits
        /\ UNCHANGED <<step, known, linked, create, pending, lineage>>
    BY WizardAssumption DEF Edit, WizardInv, WizardTypeOK
  <1>2. /\ step \in 0 .. 5 /\ known \subseteq WizAccounts /\ linked \subseteq WizAccounts
        /\ pending \in {0} \cup {n \in Creates : step = 5 /\ create[n].at \in {"sent", "stored", "refused"}}
    BY DEF WizardInv, WizardTypeOK
  <1> QED BY <1>1, <1>2, ScreenKeeps

-----------------------------------------------------------------------------
(* Wizard: the screens                                                     *)

\* What is known of the draft and the screen.
LEMMA ScreenFacts ==
    ASSUME WizardInv
    PROVE  /\ draft \in Draft /\ draft.post \in {Nothing, draft.account}
           /\ step \in 0 .. 5 /\ picking \in BOOLEAN /\ (picking => step = 1)
           /\ known \subseteq WizAccounts /\ linked \subseteq WizAccounts /\ edits \in 0 .. MaxEdits
           /\ pending \in {0} \cup {n \in Creates : step = 5 /\ create[n].at \in {"sent", "stored", "refused"}}
           /\ (step # 5 => pending = 0)
           /\ \A n \in 1 .. 5 : n < step => Passes(n, draft)
  BY DEF WizardInv, WizardTypeOK, PostsFit, EarlierStepsPassed

\* Opening the wizard.
LEMMA OpenKeeps == ASSUME WizardInv, Open PROVE WizardInv'
  <1>1. /\ step' = 1 /\ draft' \in Defaults(draft, known)
        /\ UNCHANGED <<picking, known, linked, create, pending, lineage, edits>> /\ step = 0
    BY DEF Open
  <1>2. draft' \in Draft /\ draft'.post \in {Nothing, draft'.account}
    BY <1>1, ScreenFacts, DefaultsKeep
  <1> QED BY <1>1, <1>2, ScreenFacts, ScreenKeeps

\* The accounts are loaded again: one may be chosen where none was.
LEMMA ReloadKeeps == ASSUME WizardInv, Reload PROVE WizardInv'
  <1>1. /\ known' = linked /\ draft' \in IF step = 0 THEN {draft} ELSE Defaults(draft, linked)
        /\ UNCHANGED <<step, picking, linked, create, pending, lineage, edits>>
    BY DEF Reload
  <1>2. /\ draft' \in Draft /\ draft'.post \in {Nothing, draft'.account}
        /\ \A n \in 1 .. 5 : Passes(n, draft) => Passes(n, draft')
    BY <1>1, ScreenFacts, DefaultsKeep
  <1> QED BY <1>1, <1>2, ScreenFacts, ScreenKeeps

\* One step back.
LEMMA BackKeeps == ASSUME WizardInv, Back PROVE WizardInv'
  <1>1. /\ step \in 1 .. 5 /\ step' = step - 1 /\ pending' = 0 /\ ~picking
        /\ UNCHANGED <<draft, picking, known, linked, create, lineage, edits>>
    BY ScreenFacts DEF Back
  <1>2. step' \in 0 .. 5 /\ \A n \in 1 .. 5 : n < step' => n < step
    BY <1>1
  <1> QED BY <1>1, <1>2, ScreenFacts, ScreenKeeps

\* One step on, once the step accepts the draft.
LEMMA ForwardKeeps == ASSUME WizardInv, Forward PROVE WizardInv'
  <1>1. /\ step \in 1 .. 4 /\ step' = step + 1 /\ ~picking /\ Passes(step, draft)
        /\ UNCHANGED <<draft, picking, known, linked, create, pending, lineage, edits>>
    BY DEF Forward
  <1>2. step' \in 0 .. 5 /\ \A n \in 1 .. 5 : n < step' => n < step \/ n = step
    BY <1>1
  <1>3. pending' = 0
    BY <1>1, ScreenFacts
  <1>4. \A n \in 1 .. 5 : n < step' => Passes(n, draft')
    BY <1>1, <1>2, ScreenFacts
  <1> QED BY <1>1, <1>2, <1>3, <1>4, ScreenFacts, ScreenKeeps

\* Another account.
LEMMA PickAccountKeeps == ASSUME WizardInv, NEW a \in WizAccounts, PickAccount(a) PROVE WizardInv'
  <1>1. PICK d : d = [draft EXCEPT !.account = a, !.post = Nothing]
    OBVIOUS
  <1>2. d \in Draft /\ d.post = Nothing
    BY <1>1, ScreenFacts DEF Draft
  <1>3. step = 1 /\ Edit(d) /\ picking' = picking
    BY <1>1 DEF PickAccount
  <1> QED BY <1>2, <1>3, ScreenFacts, EditKeeps

\* Another kind of post.
LEMMA PickScopeKeeps == ASSUME WizardInv, NEW s \in Scopes, PickScope(s) PROVE WizardInv'
  <1>1. PICK d : d = [draft EXCEPT !.scope = s]
    OBVIOUS
  <1>2. d \in Draft /\ d.post \in {Nothing, d.account}
    BY <1>1, ScreenFacts DEF Draft
  <1>3. step = 1 /\ Edit(d) /\ picking' = picking
    BY <1>1 DEF PickScope
  <1> QED BY <1>2, <1>3, ScreenFacts, EditKeeps

\* A template.
LEMMA UseTemplateKeeps == ASSUME WizardInv, UseTemplate PROVE WizardInv'
  <1>1. PICK d : d = [draft EXCEPT !.words = TRUE, !.text = TRUE, !.named = TRUE]
    OBVIOUS
  <1>2. d \in Draft /\ d.post \in {Nothing, d.account}
    BY <1>1, ScreenFacts DEF Draft
  <1>3. step = 1 /\ Edit(d) /\ picking' = picking
    BY <1>1 DEF UseTemplate
  <1> QED BY <1>2, <1>3, ScreenFacts, EditKeeps

\* The picker: the post is one of the draft's account.
LEMMA PickerKeeps == ASSUME WizardInv, OpenPicker \/ handleSelect \/ LeavePicker PROVE WizardInv'
  <1>1. CASE OpenPicker \/ LeavePicker
    <2>1. /\ picking' \in BOOLEAN /\ (picking' => step = 1)
          /\ UNCHANGED <<draft, step, known, linked, create, pending, lineage, edits>>
      BY <1>1 DEF OpenPicker, LeavePicker
    <2> QED BY <2>1, ScreenFacts, ScreenKeeps
  <1>2. CASE handleSelect
    <2>1. PICK d : d = [draft EXCEPT !.post = draft.account]
      OBVIOUS
    <2>2. d \in Draft /\ d.post \in {Nothing, d.account}
      BY <2>1, ScreenFacts DEF Draft
    <2>3. Edit(d) /\ picking' = FALSE /\ picking
      BY <1>2, <2>1 DEF handleSelect
    <2>4. step = 1
      BY <2>3, ScreenFacts
    <2>5. \A n \in 1 .. 5 : n < step => Passes(n, d)
      BY <2>4
    <2> QED BY <2>2, <2>3, <2>4, <2>5, EditKeeps
  <1> QED BY <1>1, <1>2

\* The later steps change only what they check themselves.
LEMMA LaterEditKeeps == ASSUME WizardInv, EditWords \/ EditMessage \/ EditName PROVE WizardInv'
  <1>1. PICK d : /\ Edit(d)
                 /\ \/ step = 2 /\ d = [draft EXCEPT !.words = ~draft.words]
                    \/ step = 4 /\ d = [draft EXCEPT !.text = ~draft.text]
                    \/ step = 4 /\ \E u \in {"none", "web", "other"} : d = [draft EXCEPT !.link = u]
                    \/ step = 5 /\ d = [draft EXCEPT !.named = ~draft.named]
    BY DEF EditWords, EditMessage, EditName
  <1>2. draft \in Draft
    BY ScreenFacts
  <1>3. /\ d \in Draft /\ d.account = draft.account /\ d.scope = draft.scope /\ d.post = draft.post
        /\ step # 2 => d.words = draft.words
        /\ step # 4 => d.text = draft.text
        /\ step # 5 => d.named = draft.named
        /\ step \in {2, 4, 5}
    BY <1>1, <1>2 DEF Draft
  <1>4. ASSUME NEW n \in 1 .. 5, n < step PROVE Passes(n, d)
    <2>1. Passes(n, draft)
      BY <1>4, ScreenFacts
    <2> QED BY <1>3, <1>4, <2>1 DEF Passes, validateStep1, validateStep2, validateStep4, validateStep5
  <1>5. picking' = picking
    BY DEF EditWords, EditMessage, EditName
  <1> QED BY <1>1, <1>3, <1>4, <1>5, ScreenFacts, EditKeeps

\* An account that is disconnected.
LEMMA UnlinkKeeps == ASSUME WizardInv, NEW a \in WizAccounts, Unlink(a) PROVE WizardInv'
  <1>1. /\ linked' \subseteq linked
        /\ UNCHANGED <<draft, step, picking, known, create, pending, lineage, edits>>
    BY DEF Unlink
  <1> QED BY <1>1, ScreenFacts, ScreenKeeps

-----------------------------------------------------------------------------
(* Wizard: the requests                                                    *)

\* What a request became changes neither its body nor its draft.
GotOn(n) ==
    \/ create'[n] = create[n]
    \/ /\ create[n] \in CreateStates /\ create'[n] \in CreateStates
       /\ create'[n].body = create[n].body /\ create'[n].of = create[n].of
       /\ create'[n].heard = create[n].heard
       /\ create'[n].at = "created" => create[n].of < lineage'

\* Requests that are answered, or never will be, and a draft that may be emptied.
LEMMA AnswersKeep ==
    ASSUME WizardInv, create' = [n \in Creates |-> create'[n]], \A n \in Creates : GotOn(n),
           lineage' \in Nat, lineage <= lineage',
           draft' \in Draft, draft'.post \in {Nothing, draft'.account},
           step' \in 0 .. 5, picking' \in BOOLEAN, picking' => step' = 1,
           known' \subseteq WizAccounts, linked' \subseteq WizAccounts,
           pending' \in {0} \cup {n \in Creates : step' = 5 /\ create'[n].at \in {"sent", "stored", "refused"}},
           edits' = edits, \A n \in 1 .. 5 : n < step' => Passes(n, draft')
    PROVE  WizardInv'
  <1>1. create' \in [Creates -> CreateStates \cup {NoCreate}]
    <2>1. ASSUME NEW n \in Creates PROVE create'[n] \in CreateStates \cup {NoCreate}
      BY CreateTypes DEF GotOn
    <2> QED BY <2>1
  <1>2. \A n \in Creates :
           create'[n].at \in {"none", "sent", "stored", "refused", "late", "over", "created"}
    <2>1. NoCreate.at = "none"
      BY DEF NoCreate
    <2> QED BY <1>1, <2>1 DEF CreateStates
  <1>3. WizardTypeOK'
    BY <1>2 DEF WizardInv, WizardTypeOK
  <1>4. EarlierStepsPassed' /\ PostsFit'
    BY DEF EarlierStepsPassed, PostsFit, Passes, validateStep1, validateStep2, validateStep4, validateStep5
  <1>5. \A n \in Creates : /\ Made(n)' <=> Made(n)
                           /\ Made(n) => /\ create'[n].body = create[n].body
                                         /\ create'[n].of = create[n].of
                                         /\ create'[n].heard = create[n].heard
                                         /\ create[n] \in CreateStates
    <2>1. \A c \in CreateStates : c # NoCreate
      BY DEF CreateStates, NoCreate
    <2> QED BY <2>1, CreateTypes DEF GotOn, Made
  <1>6. ChosenPostsFit'
    BY <1>5 DEF WizardInv, ChosenPostsFit, Made
  <1>7. HeardOfBefore'
    <2> SUFFICES ASSUME NEW n \in Creates, Made(n)'
                 PROVE  /\ create'[n].of <= lineage'
                        /\ create'[n].at = "created" => create'[n].of < lineage'
                        /\ \A m \in create'[n].heard : Made(m)' /\ create'[m].of < create'[n].of
      BY DEF HeardOfBefore
    <2>1. /\ Made(n) /\ create[n] \in CreateStates /\ create'[n].of = create[n].of
          /\ create'[n].heard = create[n].heard
      BY <1>5
    <2>2. /\ create[n].of \in Nat /\ create[n].of <= lineage /\ lineage \in Nat
          /\ create[n].at = "created" => create[n].of < lineage
          /\ create[n].heard \subseteq Creates
          /\ \A m \in create[n].heard : Made(m) /\ create[m].of < create[n].of
      BY <2>1 DEF WizardInv, HeardOfBefore, WizardTypeOK, CreateStates
    <2>3. create'[n].of <= lineage'
      BY <2>1, <2>2
    <2>4. create'[n].at = "created" => create'[n].of < lineage'
      BY <2>1, <2>2 DEF GotOn
    <2>5. \A m \in create'[n].heard : Made(m)' /\ create'[m].of < create'[n].of
      BY <1>5, <2>1, <2>2
    <2> QED BY <2>3, <2>4, <2>5
  <1> QED BY <1>1, <1>3, <1>4, <1>6, <1>7 DEF WizardInv

\* The wizard closes.
LEMMA ClosingKeeps ==
    ASSUME WizardInv, create' = [n \in Creates |-> create'[n]], \A n \in Creates : GotOn(n),
           lineage' \in Nat, lineage <= lineage',
           draft' \in Draft, draft'.post \in {Nothing, draft'.account},
           step' = 0, picking' = FALSE, pending' = 0,
           known' \subseteq WizAccounts, linked' = linked, edits' = edits
    PROVE  WizardInv'
  <1>1. linked' \subseteq WizAccounts
    BY ScreenFacts
  <1>2. step' \in 0 .. 5 /\ \A n \in 1 .. 5 : n < step' => Passes(n, draft')
    OBVIOUS
  <1>4. picking' \in BOOLEAN /\ (picking' => step' = 1)
    OBVIOUS
  <1>3. pending' \in {0} \cup {n \in Creates : step' = 5 /\ create'[n].at \in {"sent", "stored", "refused"}}
    OBVIOUS
  <1> QED BY <1>1, <1>2, <1>3, <1>4, AnswersKeep

\* The button of step 5 sends a draft that every step has accepted.
LEMMA SubmitKeeps == ASSUME WizardInv, handleSubmit PROVE WizardInv'
  <1> DEFINE heardOf == {m \in Creates : create[m].at = "created"}
  <1>1. PICK n \in Creates :
           /\ create[n] = NoCreate /\ pending' = n
           /\ create' = [create EXCEPT ![n] = [at |-> "sent", body |-> draft, stored |-> FALSE,
                                               of |-> lineage, heard |-> heardOf]]
    BY DEF handleSubmit
  <1>2. step = 5 /\ UNCHANGED <<draft, step, picking, known, linked, lineage, edits>>
    BY DEF handleSubmit
  <1>3. create \in [Creates -> CreateStates \cup {NoCreate}] /\ lineage \in Nat
    BY DEF WizardInv, WizardTypeOK
  <1>4. PICK c \in CreateStates :
           /\ c.at = "sent" /\ c.body = draft /\ c.of = lineage /\ c.heard = heardOf
           /\ create' = [create EXCEPT ![n] = c]
    <2>1. [at |-> "sent", body |-> draft, stored |-> FALSE, of |-> lineage, heard |-> heardOf] \in CreateStates
      BY <1>3, ScreenFacts DEF CreateStates
    <2> QED BY <1>1, <2>1
  <1>5. /\ create' \in [Creates -> CreateStates \cup {NoCreate}] /\ create'[n] = c
        /\ \A m \in Creates \ {n} : create'[m] = create[m]
    BY <1>3, <1>4
  <1> HIDE DEF heardOf
  <1>6. c # NoCreate /\ ~Made(n)
    BY <1>1 DEF CreateStates, NoCreate, Made
  <1>7. WizardTypeOK'
    <2>1. \A m \in Creates :
             create'[m].at \in {"none", "sent", "stored", "refused", "late", "over", "created"}
      BY <1>4, <1>5 DEF WizardInv, WizardTypeOK
    <2>2. pending' \in {0} \cup {m \in Creates : step' = 5 /\ create'[m].at \in {"sent", "stored", "refused"}}
      BY <1>1, <1>2, <1>4, <1>5
    <2> QED BY <1>2, <2>1, <2>2 DEF WizardInv, WizardTypeOK
  <1>8. EarlierStepsPassed' /\ PostsFit'
    BY <1>2 DEF WizardInv, EarlierStepsPassed, PostsFit, Passes, validateStep1, validateStep2,
                validateStep4, validateStep5
  <1>9. draft.scope = "specific" => draft.post = draft.account
    <2>1. Passes(1, draft)
      BY <1>2, ScreenFacts
    <2>2. validateStep1(draft)
      BY <2>1 DEF Passes
    <2> QED BY <2>2, ScreenFacts DEF validateStep1
  <1>10. ChosenPostsFit'
    <2> SUFFICES ASSUME NEW m \in Creates, create'[m] # NoCreate, create'[m].body.scope = "specific"
                 PROVE  create'[m].body.post = create'[m].body.account
      BY DEF ChosenPostsFit
    <2>1. CASE m = n
      BY <1>4, <1>5, <1>9, <2>1
    <2>2. CASE m # n
      BY <1>5, <2>2 DEF WizardInv, ChosenPostsFit
    <2> QED BY <2>1, <2>2
  <1>11. HeardOfBefore'
    <2> SUFFICES ASSUME NEW m \in Creates, Made(m)'
                 PROVE  /\ create'[m].of <= lineage'
                        /\ create'[m].at = "created" => create'[m].of < lineage'
                        /\ \A k \in create'[m].heard : Made(k)' /\ create'[k].of < create'[m].of
      BY DEF HeardOfBefore
    <2>1. CASE m = n
      <3>1. ASSUME NEW k \in heardOf PROVE Made(k)' /\ create'[k].of < create'[n].of
        <4>1. k \in Creates /\ create[k].at = "created"
          BY DEF heardOf
        <4>2. Made(k) /\ k # n /\ create[k].of < lineage
          BY <1>6, <4>1, CreateTypes DEF WizardInv, HeardOfBefore
        <4> QED BY <1>4, <1>5, <4>1, <4>2 DEF Made
      <3> QED BY <1>2, <1>3, <1>4, <1>5, <2>1, <3>1
    <2>2. CASE m # n
      <3>1. Made(m) /\ create'[m] = create[m]
        BY <1>5, <2>2 DEF Made
      <3>2. create[m] \in CreateStates
        BY <3>1, CreateTypes DEF Made
      <3>3. ASSUME NEW k \in create[m].heard PROVE Made(k)' /\ create'[k].of < create[m].of
        <4>1. k \in Creates /\ Made(k) /\ create[k].of < create[m].of
          BY <3>1, <3>2 DEF WizardInv, HeardOfBefore, CreateStates
        <4>2. create'[k] = create[k]
          BY <1>5, <1>6, <4>1
        <4> QED BY <4>1, <4>2 DEF Made
      <3>4. create[m].of <= lineage /\ (create[m].at = "created" => create[m].of < lineage)
        BY <3>1 DEF WizardInv, HeardOfBefore
      <3> QED BY <1>2, <3>1, <3>3, <3>4
    <2> QED BY <2>1, <2>2
  <1> QED BY <1>5, <1>7, <1>8, <1>10, <1>11 DEF WizardInv

\* The server stores what was sent or refuses it.
LEMMA StoreKeeps == ASSUME WizardInv, NEW n \in Creates, StoreCampaign(n) PROVE WizardInv'
  <1>1. PICK c \in CreateStates : c = create[n]
    <2>1. create[n].at # "none"
      BY DEF StoreCampaign
    <2> QED BY <2>1, CreateTypes
  <1>2. create \in [Creates -> CreateStates \cup {NoCreate}] /\ lineage \in Nat
    BY DEF WizardInv, WizardTypeOK
  <1>3. PICK fits \in BOOLEAN, at \in {"stored", "refused", "over"} :
           /\ create' = [create EXCEPT ![n] = [[create[n] EXCEPT !.stored = fits] EXCEPT !.at = at]]
           /\ c.at \in {"sent", "late"} /\ (c.at = "sent" => at # "over")
    <2> DEFINE ok == createAutomationSchema(create[n].body) /\ create[n].body.account \in linked
    <2>1. /\ create[n].at \in {"sent", "late"}
          /\ create' = [create EXCEPT ![n].stored = ok,
                                      ![n].at = CASE create[n].at = "late" -> "over"
                                                  [] create[n].at = "sent" /\ ok -> "stored"
                                                  [] OTHER -> "refused"]
      BY DEF StoreCampaign
    <2>2. ok \in BOOLEAN
      BY DEF createAutomationSchema, validateStep1, validateStep2, validateStep4, validateStep5
    <2> HIDE DEF ok
    <2>3. PICK at \in {"stored", "refused", "over"} :
             /\ at = CASE create[n].at = "late" -> "over"
                       [] create[n].at = "sent" /\ ok -> "stored"
                       [] OTHER -> "refused"
             /\ c.at = "sent" => at # "over"
      BY <1>1, <2>1
    <2>4. create' = [create EXCEPT ![n].stored = ok, ![n].at = at]
      BY <2>1, <2>3
    <2>5. create' = [create EXCEPT ![n] = [[create[n] EXCEPT !.stored = ok] EXCEPT !.at = at]]
      BY <1>2, <2>4
    <2> QED BY <1>1, <2>1, <2>2, <2>3, <2>5
  <1>4. /\ create'[n] \in CreateStates /\ create'[n].at = at
        /\ create'[n].body = c.body /\ create'[n].of = c.of /\ create'[n].heard = c.heard
        /\ create' \in [Creates -> CreateStates \cup {NoCreate}]
        /\ \A m \in Creates \ {n} : create'[m] = create[m]
    <2>1. [[c EXCEPT !.stored = fits] EXCEPT !.at = at]
            = [at |-> at, body |-> c.body, stored |-> fits, of |-> c.of, heard |-> c.heard]
      <3>1. [c EXCEPT !.stored = fits]
              = [at |-> c.at, body |-> c.body, stored |-> fits, of |-> c.of, heard |-> c.heard]
        BY DEF CreateStates
      <3>2. [[at |-> c.at, body |-> c.body, stored |-> fits, of |-> c.of, heard |-> c.heard]
               EXCEPT !.at = at]
              = [at |-> at, body |-> c.body, stored |-> fits, of |-> c.of, heard |-> c.heard]
        OBVIOUS
      <3> QED BY <3>1, <3>2
    <2>2. [at |-> at, body |-> c.body, stored |-> fits, of |-> c.of, heard |-> c.heard] \in CreateStates
      BY DEF CreateStates
    <2> QED BY <1>1, <1>2, <1>3, <2>1, <2>2
  <1>5. UNCHANGED <<draft, step, picking, known, linked, pending, lineage, edits>>
    BY DEF StoreCampaign
  <1>6. \A m \in Creates : GotOn(m)
    BY <1>1, <1>4 DEF GotOn
  <1>7. pending' \in {0} \cup {m \in Creates : step' = 5 /\ create'[m].at \in {"sent", "stored", "refused"}}
    BY <1>1, <1>3, <1>4, <1>5, ScreenFacts
  <1>8. create' = [m \in Creates |-> create'[m]]
    BY <1>4
  <1> QED BY <1>2, <1>5, <1>6, <1>7, <1>8, ScreenFacts, AnswersKeep

\* A request with another state of its own.
LEMMA StateMoves ==
    ASSUME WizardInv, NEW n \in Creates, create[n].at # "none",
           NEW at \in {"sent", "stored", "refused", "late", "over", "created"},
           create'[n] = [create[n] EXCEPT !.at = at],
           at = "created" => create[n].of < lineage'
    PROVE  GotOn(n) /\ create'[n].at = at
  <1>1. PICK c \in CreateStates : c = create[n]
    BY CreateTypes
  <1>2. [c EXCEPT !.at = at]
          = [at |-> at, body |-> c.body, stored |-> c.stored, of |-> c.of, heard |-> c.heard]
    BY DEF CreateStates
  <1>3. [at |-> at, body |-> c.body, stored |-> c.stored, of |-> c.of, heard |-> c.heard] \in CreateStates
    BY DEF CreateStates
  <1> QED BY <1>1, <1>2, <1>3 DEF GotOn

\* The answer empties the draft, which belongs to no later request.
LEMMA CreatedKeeps == ASSUME WizardInv, NEW n \in Creates, Created(n) PROVE WizardInv'
  <1>1. /\ create[n].at = "stored" /\ create' = [create EXCEPT ![n].at = "created"]
        /\ draft' \in {initialDraft} \cup (IF step > 0 THEN Defaults(initialDraft, known) ELSE {})
        /\ lineage' = lineage + 1 /\ step' = 0 /\ picking' = FALSE /\ pending' = 0
        /\ UNCHANGED <<known, linked, edits>>
    BY DEF Created
  <1>2. create \in [Creates -> CreateStates \cup {NoCreate}] /\ lineage \in Nat
    BY DEF WizardInv, WizardTypeOK
  <1>3. lineage' \in Nat /\ lineage <= lineage' /\ lineage < lineage'
    BY <1>1, <1>2
  <1>4. create[n].of < lineage'
    <2>1. create[n] \in CreateStates /\ Made(n)
      BY <1>1, CreateTypes
    <2>2. create[n].of <= lineage /\ create[n].of \in Nat
      BY <2>1 DEF WizardInv, HeardOfBefore, CreateStates
    <2> QED BY <1>2, <1>3, <2>2
  <1>5. create' = [m \in Creates |-> create'[m]] /\ create'[n] = [create[n] EXCEPT !.at = "created"]
        /\ \A m \in Creates \ {n} : create'[m] = create[m]
    BY <1>1, <1>2
  <1>6. \A m \in Creates : GotOn(m)
    BY <1>1, <1>4, <1>5, StateMoves DEF GotOn
  <1>7. draft' \in Draft /\ draft'.post \in {Nothing, draft'.account}
    <2>1. ASSUME draft' \in Defaults(initialDraft, known)
          PROVE  draft' \in Draft /\ draft'.post \in {Nothing, draft'.account}
      BY <2>1, EmptyDraft, ScreenFacts, DefaultsKeep
    <2> QED BY <1>1, <2>1, EmptyDraft
  <1>8. known' \subseteq WizAccounts
    BY <1>1, ScreenFacts
  <1> QED BY <1>1, <1>3, <1>5, <1>6, <1>7, <1>8, ClosingKeeps

\* A create that fails.
LEMMA CreateFailsKeeps == ASSUME WizardInv, NEW n \in Creates, CreateFails(n) PROVE WizardInv'
  <1>1. PICK at \in {"late", "over"} :
           /\ create[n].at \in {"sent", "stored", "refused"}
           /\ create' = [create EXCEPT ![n].at = at]
           /\ pending' = IF pending = n THEN 0 ELSE pending
           /\ UNCHANGED <<draft, step, picking, known, linked, lineage, edits>>
    BY DEF CreateFails
  <1>2. create \in [Creates -> CreateStates \cup {NoCreate}] /\ lineage \in Nat
    BY DEF WizardInv, WizardTypeOK
  <1>3. create' = [m \in Creates |-> create'[m]] /\ create'[n] = [create[n] EXCEPT !.at = at]
        /\ \A m \in Creates \ {n} : create'[m] = create[m]
    BY <1>1, <1>2
  <1>4. \A m \in Creates : GotOn(m)
    BY <1>1, <1>3, StateMoves DEF GotOn
  <1>5. pending' \in {0} \cup {m \in Creates : step' = 5 /\ create'[m].at \in {"sent", "stored", "refused"}}
    BY <1>1, <1>3, ScreenFacts
  <1> QED BY <1>1, <1>2, <1>3, <1>4, <1>5, ScreenFacts, AnswersKeep

\* After a restart or a sign-out nobody hears an answer to an earlier request.
LEMMA UnheardKeeps ==
    ASSUME WizardInv, create' = Unheard PROVE create' = [n \in Creates |-> create'[n]] /\ \A n \in Creates : GotOn(n)
  <1>1. create' = [n \in Creates |-> create'[n]]
    BY DEF Unheard
  <1>2. ASSUME NEW n \in Creates PROVE GotOn(n)
    <2>1. CASE create[n].at = "sent"
      <3>1. create'[n] = [create[n] EXCEPT !.at = "late"]
        BY <2>1 DEF Unheard
      <3> QED BY <2>1, <3>1, StateMoves
    <2>2. CASE create[n].at \in {"stored", "refused"}
      <3>1. create'[n] = [create[n] EXCEPT !.at = "over"]
        BY <2>2 DEF Unheard
      <3> QED BY <2>2, <3>1, StateMoves
    <2>3. CASE create[n].at \notin {"sent", "stored", "refused"}
      <3>1. create'[n] = create[n]
        BY <2>3 DEF Unheard
      <3> QED BY <3>1 DEF GotOn
    <2> QED BY <2>1, <2>2, <2>3
  <1> QED BY <1>1, <1>2

\* The app is started anew.
LEMMA RestartKeeps == ASSUME WizardInv, Restart PROVE WizardInv'
  <1>1. /\ create' = Unheard /\ step' = 0 /\ picking' = FALSE /\ pending' = 0
        /\ UNCHANGED <<draft, known, linked, lineage, edits>>
    BY DEF Restart
  <1>2. lineage' \in Nat /\ lineage <= lineage'
    BY <1>1 DEF WizardInv, WizardTypeOK
  <1>3. /\ draft' \in Draft /\ draft'.post \in {Nothing, draft'.account}
        /\ known' \subseteq WizAccounts
    BY <1>1, ScreenFacts
  <1> QED BY <1>1, <1>2, <1>3, UnheardKeeps, ClosingKeeps

\* The draft of a signed-out or switched phone starts anew.
LEMMA LeaveKeeps == ASSUME WizardInv, Leave PROVE WizardInv'
  <1>1. /\ create' = Unheard /\ step' = 0 /\ picking' = FALSE /\ pending' = 0
        /\ draft' = initialDraft /\ lineage' = lineage + 1 /\ known' = linked
        /\ UNCHANGED <<linked, edits>>
    BY DEF Leave
  <1>2. lineage' \in Nat /\ lineage <= lineage'
    BY <1>1 DEF WizardInv, WizardTypeOK
  <1>3. /\ draft' \in Draft /\ draft'.post \in {Nothing, draft'.account}
        /\ known' \subseteq WizAccounts
    BY <1>1, EmptyDraft, ScreenFacts
  <1> QED BY <1>1, <1>2, <1>3, UnheardKeeps, ClosingKeeps

-----------------------------------------------------------------------------
(* Wizard: the theorem                                                     *)

\* It holds at the beginning: no draft, no request.
LEMMA WizardStarts == WizardInit => WizardInv
  <1> SUFFICES ASSUME WizardInit PROVE WizardInv
    OBVIOUS
  <1>1. \A n \in Creates : create[n] = NoCreate /\ create[n].at = "none" /\ ~Made(n)
    BY DEF WizardInit, NoCreate, Made
  <1>2. draft \in Draft /\ PostsFit
    BY EmptyDraft DEF WizardInit, PostsFit
  <1>3. WizardTypeOK
    <2>1. MaxEdits \in Nat
      BY WizardAssumption
    <2>2. /\ step = 0 /\ picking = FALSE /\ known = WizAccounts /\ linked = WizAccounts
          /\ pending = 0 /\ lineage = 0 /\ edits = 0
      BY DEF WizardInit
    <2>3. \A n \in Creates : create[n].at \in {"none", "sent", "stored", "refused", "late", "over", "created"}
      BY <1>1
    <2>4. picking \in BOOLEAN /\ (picking => step = 1)
      BY <2>2
    <2>5. edits \in 0 .. MaxEdits /\ step \in 0 .. 5 /\ lineage \in Nat
      BY <2>1, <2>2
    <2> QED BY <1>2, <2>2, <2>3, <2>4, <2>5 DEF WizardTypeOK
  <1>4. EarlierStepsPassed /\ ChosenPostsFit /\ HeardOfBefore
    BY <1>1 DEF WizardInit, EarlierStepsPassed, ChosenPostsFit, HeardOfBefore, Made
  <1> QED BY <1>2, <1>3, <1>4 DEF WizardInit, WizardInv

\* Whoever is at a step of the wizard has passed the ones before with the draft
\* as it is, a chosen post is one of the campaign's account, and a draft the
\* phone has heard of makes no second campaign: for any number of accounts,
\* changes and requests, whenever accounts go, answers come and the user leaves.
THEOREM DraftsHold == WizardSpec => []DraftIsSound
  <1>1. WizardInv /\ [WizardNext]_wizardVars => WizardInv'
    <2> SUFFICES ASSUME WizardInv, [WizardNext]_wizardVars PROVE WizardInv'
      OBVIOUS
    <2>1. ASSUME Open \/ Reload \/ Back \/ Forward PROVE WizardInv'
      BY <2>1, OpenKeeps, ReloadKeeps, BackKeeps, ForwardKeeps
    <2>2. ASSUME NEW a \in WizAccounts, PickAccount(a) \/ Unlink(a) PROVE WizardInv'
      BY <2>2, PickAccountKeeps, UnlinkKeeps
    <2>3. ASSUME NEW s \in Scopes, PickScope(s) PROVE WizardInv'
      BY <2>3, PickScopeKeeps
    <2>4. ASSUME UseTemplate \/ OpenPicker \/ handleSelect \/ LeavePicker PROVE WizardInv'
      BY <2>4, UseTemplateKeeps, PickerKeeps
    <2>5. ASSUME EditWords \/ EditMessage \/ EditName PROVE WizardInv'
      BY <2>5, LaterEditKeeps
    <2>6. ASSUME handleSubmit PROVE WizardInv'
      BY <2>6, SubmitKeeps
    <2>7. ASSUME NEW n \in Creates, StoreCampaign(n) \/ Created(n) \/ CreateFails(n) PROVE WizardInv'
      BY <2>7, StoreKeeps, CreatedKeeps, CreateFailsKeeps
    <2>8. ASSUME Restart \/ Leave PROVE WizardInv'
      BY <2>8, RestartKeeps, LeaveKeeps
    <2>9. ASSUME UNCHANGED wizardVars PROVE WizardInv'
      <3>1. UNCHANGED <<draft, step, picking, known, linked, create, pending, lineage, edits>>
        BY <2>9 DEF wizardVars
      <3> QED BY <3>1, ScreenFacts, ScreenKeeps
    <2> QED BY <2>1, <2>2, <2>3, <2>4, <2>5, <2>6, <2>7, <2>8, <2>9 DEF WizardNext
  <1>2. WizardInv => DraftIsSound
    BY HeardIsAnotherDraft DEF WizardInv, DraftIsSound
  <1> QED BY <1>1, <1>2, WizardStarts, PTL DEF WizardSpec

-----------------------------------------------------------------------------
(* CampaignList: the invariant                                             *)

Switches      == {"on", "off"}
LoadStates    == {NoLoad, [at |-> "asked"]} \cup [at : {"read"}, rows : Lists, old : BOOLEAN]
PressStates   == [at : {"sent", "saved", "refused"}, of : Listed, to : Switches, key : Filters,
                  previous : Lists, reloaded : BOOLEAN]
RemovalStates == [at : {"sent", "deleted", "refused"}, of : Listed]

ListStates ==
    /\ stored \in [Listed -> {"on", "off", "deleted"}]
    /\ filter \in Filters
    /\ shown \in [Filters -> Lists \cup {NoRows}]
    /\ fresh \in [Filters -> BOOLEAN]
    /\ load \in [Filters -> LoadStates]
    /\ press \in PressStates \cup {NoPress}
    /\ removal \in RemovalStates \cup {NoPress}
    /\ late \subseteq Listed \X Switches
    /\ unaware \subseteq Filters
    /\ presses \in 0 .. MaxPresses
    /\ loads \in Nat

\* A write is in the database and the phone has no answer yet.
Unanswered == press.at = "saved" \/ removal.at = "deleted"

\* The list that the toggle under way has changed.
Pressed(f) == press # NoPress /\ press.key = f

\* While every write is heard of, the lists that count as fresh are true, but for
\* the one with the pressed toggle and those that miss a write for good; and so
\* is what a load has read since the last mark.
HeardListsAreTrue ==
    ~Unanswered => \A f \in Filters \ unaware : fresh[f] /\ ~Pressed(f) => shown[f] = View(f)
ReadsAreTrue ==
    ~Unanswered => \A f \in Filters : load[f].at = "read" /\ ~load[f].old => load[f].rows = View(f)

\* Rows of another account are not read, and not in a list that stays.
IsOwn(f, list)   == f = All \/ \A c \in Listed : list[c] \in Switches => OwnerOf[c] = f
ReadsAreOwn      == \A f \in Filters : load[f].at = "read" => IsOwn(f, load[f].rows)
FreshListsAreOwn == \A f \in Filters : fresh[f] /\ ~Pressed(f) => IsOwn(f, shown[f])

\* A load of the pressed list was begun after the press.
LoadsAreNoticed == press # NoPress => press.reloaded \/ load[press.key] = NoLoad

ListInv ==
    /\ ListStates
    /\ HeardListsAreTrue /\ ReadsAreTrue
    /\ ReadsAreOwn /\ FreshListsAreOwn
    /\ LoadsAreNoticed /\ PressesHold

-----------------------------------------------------------------------------
(* CampaignList: loads                                                     *)

\* The three places of a load are told apart by its name for them.
LEMMA LoadFacts ==
    /\ NoLoad \in LoadStates /\ NoLoad.at = "none"
    /\ [at |-> "asked"] \in LoadStates /\ [at |-> "asked"].at = "asked"
    /\ \A l \in LoadStates : /\ l.at \in {"none", "asked", "read"}
                             /\ l.at = "none" <=> l = NoLoad
                             /\ l.at = "read" => l \in [at : {"read"}, rows : Lists, old : BOOLEAN]
  BY DEF LoadStates, NoLoad

\* What a filter shows is a list, without rows of another account.
LEMMA ViewFacts ==
    ASSUME ListInv, NEW f \in Filters
    PROVE  View(f) \in Lists /\ IsOwn(f, View(f))
  <1>1. stored \in [Listed -> {"on", "off", "deleted"}]
    BY DEF ListInv, ListStates
  <1>2. \A c \in Listed : View(f)[c] = IF stored[c] # "deleted" /\ f \in {All, OwnerOf[c]}
                                       THEN stored[c] ELSE "absent"
    BY DEF View
  <1>3. View(f) \in Lists
    BY <1>1 DEF View, Lists
  <1> QED BY <1>2, <1>3 DEF IsOwn, Switches

\* A marked load is where it was, and is known to be old.
LEMMA MissedFacts ==
    ASSUME load \in [Filters -> LoadStates]
    PROVE  /\ Missed(load) \in [Filters -> LoadStates]
           /\ \A f \in Filters :
                 /\ Missed(load)[f].at = load[f].at
                 /\ Missed(load)[f] = NoLoad <=> load[f] = NoLoad
                 /\ load[f].at = "read" => Missed(load)[f].rows = load[f].rows /\ Missed(load)[f].old
  <1>1. ASSUME NEW f \in Filters
        PROVE  /\ Missed(load)[f] \in LoadStates
               /\ Missed(load)[f].at = load[f].at
               /\ load[f].at = "read" => Missed(load)[f].rows = load[f].rows /\ Missed(load)[f].old
    <2>1. CASE load[f].at # "read"
      BY <2>1 DEF Missed
    <2>2. CASE load[f].at = "read"
      <3>1. PICK l \in [at : {"read"}, rows : Lists, old : BOOLEAN] : l = load[f]
        BY <2>2, LoadFacts
      <3>2. Missed(load)[f] = [l EXCEPT !.old = TRUE]
        BY <2>2, <3>1 DEF Missed
      <3>3. \A b \in BOOLEAN : [l EXCEPT !.old = b] = [at |-> l.at, rows |-> l.rows, old |-> b]
        OBVIOUS
      <3>4. [at |-> l.at, rows |-> l.rows, old |-> TRUE] \in [at : {"read"}, rows : Lists, old : BOOLEAN]
        OBVIOUS
      <3> QED BY <2>2, <3>1, <3>2, <3>3, <3>4 DEF LoadStates
    <2> QED BY <2>1, <2>2
  <1>2. Missed(load) \in [Filters -> LoadStates]
    BY <1>1 DEF Missed
  <1> QED BY <1>1, <1>2, LoadFacts

\* A load that begins reads nothing yet, and leaves the others alone.
LEMMA BegunFacts ==
    ASSUME NEW l \in [Filters -> LoadStates], NEW f \in Filters
    PROVE  /\ Begun(l, f) \in [Filters -> LoadStates]
           /\ \A g \in Filters : Begun(l, f)[g] = l[g] \/ (g = f /\ Begun(l, f)[g].at = "asked")
  <1>1. CASE l[f] # NoLoad /\ shown[f] = NoRows
    BY <1>1 DEF Begun
  <1>2. CASE ~(l[f] # NoLoad /\ shown[f] = NoRows)
    <2>1. Begun(l, f) = [l EXCEPT ![f] = [at |-> "asked"]]
      BY <1>2 DEF Begun
    <2> QED BY <2>1, LoadFacts
  <1> QED BY <1>1, <1>2

\* The toggle under way knows of the load that begins.
LEMMA ReloadingFacts ==
    ASSUME ListInv, NEW f \in Filters
    PROVE  /\ Reloading(f) \in PressStates \cup {NoPress}
           /\ Reloading(f) = NoPress <=> press = NoPress
           /\ Reloading(f).at = press.at
           /\ press # NoPress =>
                 /\ Reloading(f).key = press.key /\ Reloading(f).of = press.of
                 /\ Reloading(f).to = press.to
                 /\ press.reloaded \/ press.key = f => Reloading(f).reloaded
  <1>1. press \in PressStates \cup {NoPress}
    BY DEF ListInv, ListStates
  <1>2. \A p \in PressStates : p # NoPress
    BY DEF PressStates, NoPress
  <1>3. CASE press # NoPress /\ press.key = f
    <2>1. PICK p \in PressStates : p = press
      BY <1>1, <1>3
    <2>2. \A b \in BOOLEAN :
             [p EXCEPT !.reloaded = b] = [at |-> p.at, of |-> p.of, to |-> p.to, key |-> p.key,
                                          previous |-> p.previous, reloaded |-> b]
      BY DEF PressStates
    <2>3. [at |-> p.at, of |-> p.of, to |-> p.to, key |-> p.key,
           previous |-> p.previous, reloaded |-> TRUE] \in PressStates
      BY DEF PressStates
    <2>4. Reloading(f) = [press EXCEPT !.reloaded = TRUE]
      BY <1>3 DEF Reloading
    <2> QED BY <1>2, <1>3, <2>1, <2>2, <2>3, <2>4
  <1>4. CASE ~(press # NoPress /\ press.key = f)
    <2>1. Reloading(f) = press
      BY <1>4 DEF Reloading
    <2> QED BY <1>1, <1>4, <2>1
  <1> QED BY <1>3, <1>4

-----------------------------------------------------------------------------
(* CampaignList: the steps                                                 *)

\* The types, for the provers.
LEMMA ListTypes ==
    ASSUME ListInv
    PROVE  /\ stored \in [Listed -> {"on", "off", "deleted"}] /\ filter \in Filters
           /\ shown \in [Filters -> Lists \cup {NoRows}] /\ fresh \in [Filters -> BOOLEAN]
           /\ load \in [Filters -> LoadStates] /\ press \in PressStates \cup {NoPress}
           /\ removal \in RemovalStates \cup {NoPress} /\ late \subseteq Listed \X Switches
           /\ unaware \subseteq Filters /\ presses \in 0 .. MaxPresses /\ loads \in Nat
  BY DEF ListInv, ListStates

\* What a load has after a step it had before, is old, or is read just now.
LoadsGoOn ==
    \A f \in Filters : load'[f].at = "read" =>
        \/ /\ load[f].at = "read" /\ load'[f].rows = load[f].rows
           /\ load'[f].old \/ load'[f] = load[f]
        \/ load'[f].rows = View(f)

\* The toggle under way is the one before, and knows of the loads.
PressGoesOn ==
    IF press' = NoPress THEN press = NoPress \/ \A f \in Filters : ~fresh'[f]
    ELSE /\ press # NoPress /\ press'.key = press.key /\ press'.of = press.of /\ press'.to = press.to
         /\ press.reloaded => press'.reloaded
         /\ press'.reloaded \/ load'[press.key] = load[press.key] \/ load'[press.key] = NoLoad

\* A write is unheard of, or marks all it should, or there is none.
WritesAreTold ==
    \/ Unanswered'
    \/ /\ \A f \in Filters \ unaware' : ~fresh'[f]
       /\ \A f \in Filters : load'[f].at = "read" => load'[f].old
    \/ ~Unanswered /\ stored' = stored /\ unaware \subseteq unaware'

\* A step that shows nothing new, or ends a toggle and marks every list.
LEMMA ListKeeps ==
    ASSUME ListInv, ListStates', LoadsGoOn, PressGoesOn, WritesAreTold,
           \A f \in Filters : fresh'[f] => fresh[f],
           \/ shown' = shown
           \/ press' = NoPress /\ \A f \in Filters : ~fresh'[f]
    PROVE  ListInv'
  <1>1. \A f \in Filters : fresh'[f] => (Pressed(f) => Pressed(f)')
    BY DEF PressGoesOn, Pressed
  <1>2. stored' = stored => \A f : View(f)' = View(f)
    BY DEF View
  <1>3. HeardListsAreTrue'
    <2> SUFFICES ASSUME ~Unanswered', NEW f \in Filters \ unaware', fresh'[f], ~Pressed(f)'
                 PROVE  shown'[f] = View(f)'
      BY DEF HeardListsAreTrue, Pressed, Filters, View
    <2>1. ~Unanswered /\ stored' = stored /\ f \notin unaware /\ fresh[f] /\ ~Pressed(f) /\ shown' = shown
      BY <1>1 DEF WritesAreTold
    <2> QED BY <1>2, <2>1 DEF ListInv, HeardListsAreTrue
  <1>4. ReadsAreTrue'
    <2> SUFFICES ASSUME ~Unanswered', NEW f \in Filters, load'[f].at = "read", ~load'[f].old
                 PROVE  load'[f].rows = View(f)'
      BY DEF ReadsAreTrue, Filters, View
    <2>1. ~Unanswered /\ stored' = stored
      BY DEF WritesAreTold
    <2>2. CASE load[f].at = "read" /\ load'[f] = load[f]
      BY <1>2, <2>1, <2>2 DEF ListInv, ReadsAreTrue
    <2>3. CASE load'[f].rows = View(f)
      BY <1>2, <2>1, <2>3
    <2> QED BY <2>2, <2>3 DEF LoadsGoOn
  <1>5. ReadsAreOwn'
    <2> SUFFICES ASSUME NEW f \in Filters, load'[f].at = "read" PROVE IsOwn(f, load'[f].rows)
      BY DEF ReadsAreOwn, Filters, IsOwn
    <2>1. CASE load[f].at = "read" /\ load'[f].rows = load[f].rows
      BY <2>1 DEF ListInv, ReadsAreOwn
    <2>2. CASE load'[f].rows = View(f)
      BY <2>2, ViewFacts
    <2> QED BY <2>1, <2>2 DEF LoadsGoOn
  <1>6. FreshListsAreOwn'
    <2> SUFFICES ASSUME NEW f \in Filters, fresh'[f], ~Pressed(f)' PROVE IsOwn(f, shown'[f])
      BY DEF FreshListsAreOwn, Filters, IsOwn, Pressed
    <2>1. fresh[f] /\ ~Pressed(f) /\ shown' = shown
      BY <1>1
    <2> QED BY <2>1 DEF ListInv, FreshListsAreOwn
  <1>7. LoadsAreNoticed'
    BY DEF ListInv, LoadsAreNoticed, PressGoesOn
  <1>8. PressesHold'
    BY DEF ListInv, PressesHold, PressGoesOn
  <1> QED BY <1>3, <1>4, <1>5, <1>6, <1>7, <1>8 DEF ListInv

\* A toggle or a delete that is under way is told from none, and from the rest of
\* its life, by its name for it.
LEMMA ButtonFacts ==
    /\ \A p \in PressStates : /\ p # NoPress /\ p.at \in {"sent", "saved", "refused"}
                              /\ p.of \in Listed /\ p.to \in Switches /\ p.key \in Filters
                              /\ p.previous \in Lists /\ p.reloaded \in BOOLEAN
    /\ \A d \in RemovalStates : /\ d # NoPress /\ d.at \in {"sent", "deleted", "refused"}
                                /\ d.of \in Listed
    /\ NoPress.at = "none"
  BY DEF PressStates, RemovalStates, NoPress

\* A step that leaves the toggle and the loads alone.
LEMMA NothingLoads ==
    ASSUME ListInv, UNCHANGED <<press, load, fresh>>
    PROVE  LoadsGoOn /\ PressGoesOn
  BY DEF LoadsGoOn, PressGoesOn

\* Another chip: a load that begins is known to the toggle of its list.
LEMMA PickFilterKeeps == ASSUME ListInv, NEW f \in Filters, PickFilter(f) PROVE ListInv'
  <1>1. filter' = f /\ UNCHANGED <<stored, shown, fresh, removal, late, unaware, presses>>
    BY DEF PickFilter
  <1>2. PICK begin \in BOOLEAN :
           /\ load' = IF begin THEN Begun(load, f) ELSE load
           /\ loads' = IF begin THEN loads + 1 ELSE loads
           /\ press' = IF begin THEN Reloading(f) ELSE press
    BY DEF PickFilter
  <1>3. CASE ~begin
    <2>1. ListStates'
      BY <1>1, <1>2, <1>3, ListTypes DEF ListStates, Filters
    <2>2. LoadsGoOn /\ PressGoesOn
      BY <1>1, <1>2, <1>3, NothingLoads
    <2>3. WritesAreTold
      BY <1>1, <1>2, <1>3 DEF WritesAreTold, Unanswered
    <2> QED BY <1>1, <2>1, <2>2, <2>3, ListKeeps
  <1>4. CASE begin
    <2>1. load' = Begun(load, f) /\ loads' = loads + 1 /\ press' = Reloading(f)
      BY <1>2, <1>4
    <2>2. /\ load' \in [Filters -> LoadStates]
          /\ \A g \in Filters : load'[g] = load[g] \/ (g = f /\ load'[g].at = "asked")
      BY <2>1, BegunFacts, ListTypes
    <2>3. ListStates'
      BY <1>1, <2>1, <2>2, ListTypes, ReloadingFacts DEF ListStates, Filters
    <2>4. LoadsGoOn
      BY <2>2 DEF LoadsGoOn
    <2>5. PressGoesOn
      BY <2>1, <2>2, ListTypes, ButtonFacts, ReloadingFacts DEF PressGoesOn
    <2>6. WritesAreTold
      BY <1>1, <2>1, ReloadingFacts DEF WritesAreTold, Unanswered
    <2> QED BY <1>1, <2>3, <2>4, <2>5, <2>6, ListKeeps
  <1> QED BY <1>3, <1>4

\* The list is pulled down: the same.
LEMMA PullKeeps == ASSUME ListInv, Pull PROVE ListInv'
  <1>1. /\ UNCHANGED <<stored, filter, shown, fresh, removal, late, unaware, presses>>
        /\ load' = Begun(load, filter) /\ loads' = loads + 1 /\ press' = Reloading(filter)
    BY DEF Pull
  <1>2. /\ load' \in [Filters -> LoadStates] /\ filter \in Filters
        /\ \A g \in Filters : load'[g] = load[g] \/ (g = filter /\ load'[g].at = "asked")
    BY <1>1, BegunFacts, ListTypes
  <1>3. ListStates'
    BY <1>1, <1>2, ListTypes, ReloadingFacts DEF ListStates, Filters
  <1>4. LoadsGoOn
    BY <1>2 DEF LoadsGoOn
  <1>5. PressGoesOn
    BY <1>1, <1>2, ListTypes, ButtonFacts, ReloadingFacts DEF PressGoesOn
  <1>6. WritesAreTold
    BY <1>1, <1>2, ReloadingFacts DEF WritesAreTold, Unanswered
  <1> QED BY <1>1, <1>3, <1>4, <1>5, <1>6, ListKeeps

\* A load reads what is stored.
LEMMA LoadReadsKeeps == ASSUME ListInv, NEW f \in Filters, LoadReads(f) PROVE ListInv'
  <1>1. /\ load[f].at = "asked" /\ View(f) \in Lists
        /\ load' = [load EXCEPT ![f] = [at |-> "read", rows |-> View(f), old |-> FALSE]]
        /\ UNCHANGED <<stored, filter, shown, fresh, press, removal, late, unaware, presses, loads>>
    BY ViewFacts DEF LoadReads
  <1>2. PICK l \in [at : {"read"}, rows : Lists, old : BOOLEAN] :
           l = [at |-> "read", rows |-> View(f), old |-> FALSE]
    BY <1>1
  <1>3. /\ load' \in [Filters -> LoadStates] /\ load'[f] = l /\ l.rows = View(f)
        /\ \A g \in Filters \ {f} : load'[g] = load[g]
    BY <1>1, <1>2, ListTypes DEF LoadStates
  <1>4. ListStates'
    BY <1>1, <1>3, ListTypes DEF ListStates, Filters
  <1>5. LoadsGoOn
    BY <1>3 DEF LoadsGoOn
  <1>6. PressGoesOn
    <2>1. press # NoPress /\ press.key = f => press.reloaded
      BY <1>1, LoadFacts DEF ListInv, LoadsAreNoticed
    <2>2. press # NoPress => press.key \in Filters
      BY ListTypes, ButtonFacts
    <2> QED BY <1>1, <1>3, <2>1, <2>2 DEF PressGoesOn
  <1>7. WritesAreTold
    BY <1>1 DEF WritesAreTold, Unanswered
  <1> QED BY <1>1, <1>4, <1>5, <1>6, <1>7, ListKeeps

\* A load that fails is gone.
LEMMA LoadFailsKeeps == ASSUME ListInv, NEW f \in Filters, LoadFails(f) PROVE ListInv'
  <1>1. /\ load' = [load EXCEPT ![f] = NoLoad]
        /\ UNCHANGED <<stored, filter, shown, fresh, press, removal, late, unaware, presses, loads>>
    BY DEF LoadFails
  <1>2. /\ load' \in [Filters -> LoadStates] /\ load'[f] = NoLoad
        /\ \A g \in Filters \ {f} : load'[g] = load[g]
    BY <1>1, ListTypes, LoadFacts
  <1>3. ListStates'
    BY <1>1, <1>2, ListTypes DEF ListStates, Filters
  <1>4. LoadsGoOn
    BY <1>2, LoadFacts DEF LoadsGoOn
  <1>5. PressGoesOn
    BY <1>1, <1>2, ListTypes, ButtonFacts DEF PressGoesOn
  <1>6. WritesAreTold
    BY <1>1 DEF WritesAreTold, Unanswered
  <1> QED BY <1>1, <1>3, <1>4, <1>5, <1>6, ListKeeps

\* The answer of a load is true and of its account, unless it is known to be old.
LEMMA LoadAnswersKeeps == ASSUME ListInv, NEW f \in Filters, LoadAnswers(f) PROVE ListInv'
  <1>1. /\ load[f].at = "read"
        /\ shown' = [shown EXCEPT ![f] = load[f].rows] /\ fresh' = [fresh EXCEPT ![f] = TRUE]
        /\ unaware' = IF load[f].old THEN unaware \cup {f} ELSE unaware \ {f}
        /\ load' = [load EXCEPT ![f] = NoLoad]
        /\ UNCHANGED <<stored, filter, press, removal, late, presses, loads>>
    BY DEF LoadAnswers
  <1>2. /\ load' \in [Filters -> LoadStates] /\ load'[f] = NoLoad /\ load[f].rows \in Lists
        /\ \A g \in Filters \ {f} : load'[g] = load[g]
    BY <1>1, ListTypes, LoadFacts
  <1>3. /\ shown' \in [Filters -> Lists \cup {NoRows}] /\ shown'[f] = load[f].rows
        /\ \A g \in Filters \ {f} : shown'[g] = shown[g]
        /\ fresh' \in [Filters -> BOOLEAN] /\ \A g \in Filters \ {f} : fresh'[g] = fresh[g]
        /\ unaware' \subseteq Filters
    BY <1>1, <1>2, ListTypes
  <1>4. ListStates'
    BY <1>1, <1>2, <1>3, ListTypes DEF ListStates, Filters
  <1>5. \A g : (View(g)' = View(g)) /\ (Pressed(g)' <=> Pressed(g))
    BY <1>1 DEF View, Pressed
  <1>6. Unanswered' <=> Unanswered
    BY <1>1 DEF Unanswered
  <1>7. HeardListsAreTrue'
    <2> SUFFICES ASSUME ~Unanswered', NEW g \in Filters \ unaware', fresh'[g], ~Pressed(g)'
                 PROVE  shown'[g] = View(g)'
      BY DEF HeardListsAreTrue, Pressed, Filters, View
    <2>1. CASE g = f
      BY <1>1, <1>3, <1>5, <1>6, <2>1 DEF ListInv, ReadsAreTrue
    <2>2. CASE g # f
      BY <1>1, <1>3, <1>5, <1>6, <2>2 DEF ListInv, HeardListsAreTrue
    <2> QED BY <2>1, <2>2
  <1>8. ReadsAreTrue'
    <2> SUFFICES ASSUME ~Unanswered', NEW g \in Filters, load'[g].at = "read", ~load'[g].old
                 PROVE  load'[g].rows = View(g)'
      BY DEF ReadsAreTrue, Filters, View
    <2>1. g # f
      BY <1>2, LoadFacts
    <2> QED BY <1>2, <1>5, <1>6, <2>1 DEF ListInv, ReadsAreTrue
  <1>9. ReadsAreOwn'
    <2> SUFFICES ASSUME NEW g \in Filters, load'[g].at = "read" PROVE IsOwn(g, load'[g].rows)
      BY DEF ReadsAreOwn, Filters, IsOwn
    <2>1. g # f
      BY <1>2, LoadFacts
    <2> QED BY <1>2, <2>1 DEF ListInv, ReadsAreOwn
  <1>10. FreshListsAreOwn'
    <2> SUFFICES ASSUME NEW g \in Filters, fresh'[g], ~Pressed(g)' PROVE IsOwn(g, shown'[g])
      BY DEF FreshListsAreOwn, Filters, IsOwn, Pressed
    <2>1. CASE g = f
      BY <1>1, <1>3, <2>1 DEF ListInv, ReadsAreOwn
    <2>2. CASE g # f
      BY <1>3, <1>5, <2>2 DEF ListInv, FreshListsAreOwn
    <2> QED BY <2>1, <2>2
  <1>11. press # NoPress => press.key \in Filters
    BY ListTypes, ButtonFacts
  <1>12. press # NoPress /\ press.key = f => press.reloaded
    BY <1>1, LoadFacts DEF ListInv, LoadsAreNoticed
  <1>13. LoadsAreNoticed'
    BY <1>1, <1>2, <1>11, <1>12 DEF ListInv, LoadsAreNoticed
  <1>14. PressesHold'
    BY <1>1, <1>3, <1>11, <1>12 DEF ListInv, PressesHold
  <1> QED BY <1>4, <1>7, <1>8, <1>9, <1>10, <1>13, <1>14 DEF ListInv

-----------------------------------------------------------------------------
(* CampaignList: the buttons                                               *)

\* A press takes the list on the screen out of what has to be true, and its load
\* away.
LEMMA PressKeeps == ASSUME ListInv, NEW c \in Listed, Press(c) PROVE ListInv'
  <1>1. /\ press = NoPress /\ shown[filter][c] \in Switches
        /\ presses < MaxPresses /\ presses' = presses + 1
        /\ load' = [load EXCEPT ![filter] = NoLoad]
        /\ press' = [at |-> "sent", of |-> c, to |-> Flip(shown[filter][c]), key |-> filter,
                     previous |-> shown[filter], reloaded |-> FALSE]
        /\ shown' = [shown EXCEPT ![filter] = [shown[filter] EXCEPT ![c] = Flip(shown[filter][c])]]
        /\ fresh' = [fresh EXCEPT ![filter] = TRUE]
        /\ UNCHANGED <<stored, filter, removal, late, unaware, loads>>
    BY DEF Press, Unlocked, OnScreen, Switches
  <1>2. PICK list \in Lists : list = shown[filter]
    <2>1. shown[filter] # NoRows
      BY <1>1 DEF NoRows, Switches
    <2> QED BY <2>1, ListTypes
  <1>3. PICK v \in Switches : v = Flip(shown[filter][c])
    BY DEF Flip, Switches
  <1>4. PICK shift \in Lists : shift = [list EXCEPT ![c] = v] /\ shift[c] = v
    <2>1. /\ [list EXCEPT ![c] = v] \in Lists
          /\ [list EXCEPT ![c] = v][c] = v
      BY DEF Lists, Switches
    <2> QED BY <2>1
  <1>5. /\ shown' \in [Filters -> Lists \cup {NoRows}] /\ shown'[filter] = shift
        /\ \A g \in Filters \ {filter} : shown'[g] = shown[g]
    BY <1>1, <1>2, <1>3, <1>4, ListTypes
  <1>6. /\ press' \in PressStates /\ press'.key = filter /\ press'.of = c /\ press'.to = v
        /\ press'.at = "sent" /\ press' # NoPress
    <2>1. press' = [at |-> "sent", of |-> c, to |-> v, key |-> filter, previous |-> list, reloaded |-> FALSE]
      BY <1>1, <1>2, <1>3
    <2>2. press' \in PressStates
      BY <2>1, ListTypes DEF PressStates
    <2> QED BY <2>1, <2>2, ButtonFacts
  <1>7. /\ load' \in [Filters -> LoadStates] /\ load'[filter] = NoLoad
        /\ \A g \in Filters \ {filter} : load'[g] = load[g]
        /\ fresh' \in [Filters -> BOOLEAN] /\ \A g \in Filters \ {filter} : fresh'[g] = fresh[g]
    BY <1>1, ListTypes, LoadFacts
  <1>8. ListStates'
    <2>1. presses' \in 0 .. MaxPresses
      BY <1>1, ListTypes, ListAssumption
    <2> QED BY <1>1, <1>5, <1>6, <1>7, <2>1, ListTypes DEF ListStates, Filters
  <1>9. /\ \A g : (View(g)' = View(g)) /\ ~Pressed(g) /\ (Pressed(g)' <=> g = filter)
        /\ filter \in Filters
    BY <1>1, <1>6, ListTypes DEF View, Pressed
  <1>10. ~Unanswered' => ~Unanswered
    BY <1>1, ButtonFacts DEF Unanswered
  <1>11. HeardListsAreTrue'
    <2> SUFFICES ASSUME ~Unanswered', NEW g \in Filters \ unaware', fresh'[g], ~Pressed(g)'
                 PROVE  shown'[g] = View(g)'
      BY DEF HeardListsAreTrue, Pressed, Filters, View
    <2>1. g # filter
      BY <1>9
    <2> QED BY <1>1, <1>5, <1>7, <1>9, <1>10, <2>1 DEF ListInv, HeardListsAreTrue
  <1>12. ReadsAreTrue'
    <2> SUFFICES ASSUME ~Unanswered', NEW g \in Filters, load'[g].at = "read", ~load'[g].old
                 PROVE  load'[g].rows = View(g)'
      BY DEF ReadsAreTrue, Filters, View
    <2>1. g # filter
      BY <1>7, LoadFacts
    <2> QED BY <1>7, <1>9, <1>10, <2>1 DEF ListInv, ReadsAreTrue
  <1>13. ReadsAreOwn'
    <2> SUFFICES ASSUME NEW g \in Filters, load'[g].at = "read" PROVE IsOwn(g, load'[g].rows)
      BY DEF ReadsAreOwn, Filters, IsOwn
    <2>1. g # filter
      BY <1>7, LoadFacts
    <2> QED BY <1>7, <2>1 DEF ListInv, ReadsAreOwn
  <1>14. FreshListsAreOwn'
    <2> SUFFICES ASSUME NEW g \in Filters, fresh'[g], ~Pressed(g)' PROVE IsOwn(g, shown'[g])
      BY DEF FreshListsAreOwn, Filters, IsOwn, Pressed
    <2>1. g # filter
      BY <1>9
    <2> QED BY <1>5, <1>7, <1>9, <2>1 DEF ListInv, FreshListsAreOwn
  <1>15. LoadsAreNoticed' /\ PressesHold'
    BY <1>4, <1>5, <1>6, <1>7 DEF LoadsAreNoticed, PressesHold
  <1> QED BY <1>8, <1>11, <1>12, <1>13, <1>14, <1>15 DEF ListInv

\* The switch is saved, and the phone has not heard; or there is no such campaign.
LEMMA PressReachesKeeps == ASSUME ListInv, PressReaches PROVE ListInv'
  <1>1. /\ press.at = "sent"
        /\ UNCHANGED <<filter, shown, fresh, load, removal, late, unaware, presses, loads>>
    BY DEF PressReaches
  <1>2. PICK p \in PressStates : p = press
    BY <1>1, ListTypes, ButtonFacts
  <1>3. \A at \in {"saved", "refused"} :
           [p EXCEPT !.at = at] = [at |-> at, of |-> p.of, to |-> p.to, key |-> p.key,
                                   previous |-> p.previous, reloaded |-> p.reloaded]
    BY DEF PressStates
  <1>4. PICK at \in {"saved", "refused"} :
           /\ press' = [p EXCEPT !.at = at]
           /\ IF at = "saved" THEN stored' = [stored EXCEPT ![p.of] = p.to] ELSE stored' = stored
    BY <1>2 DEF PressReaches
  <1>5. /\ press' \in PressStates /\ press'.at = at /\ press'.key = p.key /\ press'.of = p.of
        /\ press'.to = p.to /\ press'.reloaded = p.reloaded
    <2>1. press' = [at |-> at, of |-> p.of, to |-> p.to, key |-> p.key,
                    previous |-> p.previous, reloaded |-> p.reloaded]
      BY <1>3, <1>4
    <2> QED BY <2>1 DEF PressStates
  <1>6. ListStates'
    <2>1. stored' \in [Listed -> {"on", "off", "deleted"}]
      BY <1>4, ListTypes, ButtonFacts DEF Switches
    <2> QED BY <1>1, <1>5, <2>1, ListTypes DEF ListStates, Filters
  <1>7. LoadsGoOn
    BY <1>1 DEF LoadsGoOn
  <1>8. PressGoesOn
    BY <1>1, <1>2, <1>5, ButtonFacts DEF PressGoesOn
  <1>9. WritesAreTold
    BY <1>1, <1>4, <1>5 DEF WritesAreTold, Unanswered
  <1> QED BY <1>1, <1>6, <1>7, <1>8, <1>9, ListKeeps

\* Every list is marked, and every load that has read; the one on the screen
\* begins anew.
LEMMA InvalidateMarks ==
    ASSUME ListInv, Invalidate
    PROVE  /\ fresh' \in [Filters -> BOOLEAN] /\ \A f \in Filters : ~fresh'[f]
           /\ load' \in [Filters -> LoadStates]
           /\ \A f \in Filters :
                 /\ load'[f].at = "read" => /\ load[f].at = "read" /\ load'[f].old
                                            /\ load'[f].rows = load[f].rows
                 /\ load[f] = NoLoad /\ f # filter => load'[f] = NoLoad
  <1>1. /\ fresh' = [f \in Filters |-> FALSE] /\ load' = Begun(Missed(load), filter)
    BY DEF Invalidate
  <1>2. /\ Missed(load) \in [Filters -> LoadStates]
        /\ \A f \in Filters :
                 /\ Missed(load)[f].at = load[f].at
                 /\ Missed(load)[f] = NoLoad <=> load[f] = NoLoad
                 /\ load[f].at = "read" => Missed(load)[f].rows = load[f].rows /\ Missed(load)[f].old
    BY ListTypes, MissedFacts
  <1>3. /\ load' \in [Filters -> LoadStates]
        /\ \A f \in Filters : load'[f] = Missed(load)[f] \/ (f = filter /\ load'[f].at = "asked")
    BY <1>1, <1>2, BegunFacts, ListTypes
  <1> QED BY <1>1, <1>2, <1>3

\* The toggle's answer marks every list.
LEMMA PressAnsweredKeeps == ASSUME ListInv, PressAnswered PROVE ListInv'
  <1>1. /\ press' = NoPress /\ Invalidate
        /\ UNCHANGED <<stored, filter, shown, removal, late, unaware, presses, loads>>
    BY DEF PressAnswered
  <1>2. ListStates'
    BY <1>1, InvalidateMarks, ListTypes DEF ListStates, Filters
  <1>3. LoadsGoOn /\ PressGoesOn /\ WritesAreTold
    BY <1>1, InvalidateMarks DEF LoadsGoOn, PressGoesOn, WritesAreTold
  <1>4. \A f \in Filters : fresh'[f] => fresh[f]
    BY <1>1, InvalidateMarks
  <1> QED BY <1>1, <1>2, <1>3, <1>4, ListKeeps

\* A toggle that fails may put the remembered list under another filter, marked.
LEMMA PressFailsKeeps == ASSUME ListInv, PressFails PROVE ListInv'
  <1>1. /\ press.at \in {"sent", "saved", "refused"}
        /\ late' = IF press.at = "sent" THEN late \cup {<<press.of, press.to>>} ELSE late
        /\ shown' = [shown EXCEPT ![filter] = press.previous] /\ press' = NoPress
        /\ fresh' = [f \in Filters |-> FALSE]
        /\ load' = [Missed(load) EXCEPT ![filter] = [at |-> "asked"]]
        /\ UNCHANGED <<stored, filter, removal, unaware, presses, loads>>
    BY DEF PressFails
  <1>2. PICK p \in PressStates : p = press
    BY <1>1, ListTypes, ButtonFacts
  <1>3. /\ Missed(load) \in [Filters -> LoadStates]
        /\ \A f \in Filters :
                 /\ Missed(load)[f].at = load[f].at
                 /\ load[f].at = "read" => Missed(load)[f].rows = load[f].rows /\ Missed(load)[f].old
    BY ListTypes, MissedFacts
  <1>4. /\ load' \in [Filters -> LoadStates]
        /\ \A f \in Filters : load'[f].at = "read" =>
              load[f].at = "read" /\ load'[f].old /\ load'[f].rows = load[f].rows
    BY <1>1, <1>3, LoadFacts, ListTypes
  <1>5. ListStates'
    <2>1. shown' \in [Filters -> Lists \cup {NoRows}]
      BY <1>1, <1>2, ButtonFacts, ListTypes
    <2>2. late' \subseteq Listed \X Switches
      BY <1>1, <1>2, ButtonFacts, ListTypes
    <2>3. fresh' \in [Filters -> BOOLEAN]
      BY <1>1
    <2> QED BY <1>1, <1>4, <2>1, <2>2, <2>3, ListTypes DEF ListStates, Filters
  <1>6. LoadsGoOn /\ PressGoesOn /\ WritesAreTold
    BY <1>1, <1>4 DEF LoadsGoOn, PressGoesOn, WritesAreTold
  <1> QED BY <1>1, <1>5, <1>6, ListKeeps

\* A write of long ago is one the phone was never told of.
LEMMA LateArrivesKeeps == ASSUME ListInv, LateArrives PROVE ListInv'
  <1>1. PICK p \in late :
           /\ late' = late \ {p}
           /\ \/ /\ stored[p[1]] # "deleted" /\ stored' = [stored EXCEPT ![p[1]] = p[2]]
                 /\ unaware' = Filters /\ load' = Missed(load)
              \/ UNCHANGED <<stored, unaware, load>>
           /\ UNCHANGED <<filter, shown, fresh, press, removal, presses, loads>>
    BY DEF LateArrives
  <1>2. CASE UNCHANGED <<stored, unaware, load>>
    <2>1. ListStates'
      BY <1>1, <1>2, ListTypes DEF ListStates, Filters
    <2>2. LoadsGoOn /\ PressGoesOn
      BY <1>1, <1>2, NothingLoads
    <2>3. WritesAreTold
      BY <1>1, <1>2 DEF WritesAreTold, Unanswered
    <2> QED BY <1>1, <2>1, <2>2, <2>3, ListKeeps
  <1>3. CASE /\ stored' = [stored EXCEPT ![p[1]] = p[2]]
             /\ unaware' = Filters /\ load' = Missed(load)
    <2>1. p[1] \in Listed /\ p[2] \in Switches
      BY ListTypes
    <2>2. /\ load' \in [Filters -> LoadStates]
          /\ \A f \in Filters :
                 /\ load'[f].at = load[f].at
                 /\ load'[f] = NoLoad <=> load[f] = NoLoad
                 /\ load[f].at = "read" => load'[f].rows = load[f].rows /\ load'[f].old
      BY <1>3, ListTypes, MissedFacts
    <2>3. ListStates'
      <3>1. stored' \in [Listed -> {"on", "off", "deleted"}]
        BY <1>3, <2>1, ListTypes DEF Switches
      <3> QED BY <1>1, <1>3, <2>2, <3>1, ListTypes DEF ListStates, Filters
    <2>4. LoadsGoOn /\ WritesAreTold
      BY <1>1, <1>3, <2>2 DEF LoadsGoOn, WritesAreTold
    <2>5. PressGoesOn
      <3>1. press # NoPress => press.key \in Filters
        BY ListTypes, ButtonFacts
      <3>2. press # NoPress => press.reloaded \/ load[press.key] = NoLoad
        BY DEF ListInv, LoadsAreNoticed
      <3> QED BY <1>1, <2>2, <3>1, <3>2 DEF PressGoesOn
    <2> QED BY <1>1, <2>3, <2>4, <2>5, ListKeeps
  <1> QED BY <1>1, <1>2, <1>3

\* The delete button is pressed.
LEMMA DeleteRowKeeps == ASSUME ListInv, NEW c \in Listed, Delete(c) PROVE ListInv'
  <1>1. /\ presses < MaxPresses /\ presses' = presses + 1 /\ removal = NoPress
        /\ removal' = [at |-> "sent", of |-> c]
        /\ UNCHANGED <<stored, filter, shown, fresh, load, press, late, unaware, loads>>
    BY DEF Delete
  <1>2. removal' \in RemovalStates /\ removal'.at = "sent"
    BY <1>1 DEF RemovalStates
  <1>3. presses' \in 0 .. MaxPresses
    BY <1>1, ListTypes, ListAssumption
  <1>4. ListStates'
    BY <1>1, <1>2, <1>3, ListTypes DEF ListStates, Filters
  <1>5. LoadsGoOn /\ PressGoesOn
    BY <1>1, NothingLoads
  <1>6. WritesAreTold
    BY <1>1, ButtonFacts DEF WritesAreTold, Unanswered
  <1> QED BY <1>1, <1>4, <1>5, <1>6, ListKeeps

\* The campaign is deleted, and the phone has not heard; or it was gone.
LEMMA DeleteReachesKeeps == ASSUME ListInv, DeleteReaches PROVE ListInv'
  <1>1. /\ removal.at = "sent"
        /\ UNCHANGED <<filter, shown, fresh, load, press, late, unaware, presses, loads>>
    BY DEF DeleteReaches
  <1>2. PICK d \in RemovalStates : d = removal
    BY <1>1, ListTypes, ButtonFacts
  <1>3. \A at \in {"deleted", "refused"} : [d EXCEPT !.at = at] = [at |-> at, of |-> d.of]
    BY DEF RemovalStates
  <1>4. PICK at \in {"deleted", "refused"} :
           /\ removal' = [d EXCEPT !.at = at]
           /\ IF at = "deleted" THEN stored' = [stored EXCEPT ![d.of] = "deleted"] ELSE stored' = stored
    BY <1>2 DEF DeleteReaches
  <1>5. removal' \in RemovalStates /\ removal'.at = at
    <2>1. removal' = [at |-> at, of |-> d.of]
      BY <1>3, <1>4
    <2> QED BY <2>1 DEF RemovalStates
  <1>6. ListStates'
    <2>1. stored' \in [Listed -> {"on", "off", "deleted"}]
      BY <1>4, ListTypes, ButtonFacts
    <2> QED BY <1>1, <1>5, <2>1, ListTypes DEF ListStates, Filters
  <1>7. LoadsGoOn /\ PressGoesOn
    BY <1>1, NothingLoads
  <1>8. WritesAreTold
    BY <1>1, <1>4, <1>5 DEF WritesAreTold, Unanswered
  <1> QED BY <1>1, <1>6, <1>7, <1>8, ListKeeps

\* The delete's answer marks every list, and the toggle knows of the load.
LEMMA DeleteAnsweredKeeps == ASSUME ListInv, DeleteAnswered PROVE ListInv'
  <1>1. /\ removal' = NoPress /\ Invalidate /\ press' = Reloading(filter) /\ filter \in Filters
        /\ UNCHANGED <<stored, filter, shown, late, unaware, presses, loads>>
    BY ListTypes DEF DeleteAnswered
  <1>2. ListStates'
    BY <1>1, InvalidateMarks, ReloadingFacts, ListTypes DEF ListStates, Filters
  <1>3. LoadsGoOn /\ WritesAreTold
    BY <1>1, InvalidateMarks DEF LoadsGoOn, WritesAreTold
  <1>4. PressGoesOn
    <2>1. press # NoPress => press.key \in Filters
      BY ListTypes, ButtonFacts
    <2>2. press # NoPress => press.reloaded \/ load[press.key] = NoLoad
      BY DEF ListInv, LoadsAreNoticed
    <2> QED BY <1>1, <2>1, <2>2, InvalidateMarks, ReloadingFacts DEF PressGoesOn
  <1>5. \A f \in Filters : fresh'[f] => fresh[f]
    BY <1>1, InvalidateMarks
  <1> QED BY <1>1, <1>2, <1>3, <1>4, <1>5, ListKeeps

\* A delete whose answer is lost is one the phone was never told of.
LEMMA DeleteFailsKeeps == ASSUME ListInv, DeleteFails PROVE ListInv'
  <1>1. /\ removal' = NoPress
        /\ \/ /\ removal.at = "deleted" /\ unaware' = Filters /\ load' = Missed(load)
           \/ removal.at # "deleted" /\ UNCHANGED <<unaware, load>>
        /\ UNCHANGED <<stored, filter, shown, fresh, press, late, presses, loads>>
    BY DEF DeleteFails
  <1>2. CASE removal.at # "deleted" /\ UNCHANGED <<unaware, load>>
    <2>1. ListStates'
      BY <1>1, <1>2, ListTypes DEF ListStates, Filters
    <2>2. LoadsGoOn /\ PressGoesOn
      BY <1>1, <1>2, NothingLoads
    <2>3. WritesAreTold
      BY <1>1, <1>2, ButtonFacts DEF WritesAreTold, Unanswered
    <2> QED BY <1>1, <2>1, <2>2, <2>3, ListKeeps
  <1>3. CASE unaware' = Filters /\ load' = Missed(load)
    <2>1. /\ load' \in [Filters -> LoadStates]
          /\ \A f \in Filters :
                 /\ load'[f].at = load[f].at
                 /\ load'[f] = NoLoad <=> load[f] = NoLoad
                 /\ load[f].at = "read" => load'[f].rows = load[f].rows /\ load'[f].old
      BY <1>3, ListTypes, MissedFacts
    <2>2. ListStates'
      BY <1>1, <1>3, <2>1, ListTypes DEF ListStates, Filters
    <2>3. LoadsGoOn /\ WritesAreTold
      BY <1>1, <1>3, <2>1 DEF LoadsGoOn, WritesAreTold
    <2>4. PressGoesOn
      <3>1. press # NoPress => press.key \in Filters
        BY ListTypes, ButtonFacts
      <3>2. press # NoPress => press.reloaded \/ load[press.key] = NoLoad
        BY DEF ListInv, LoadsAreNoticed
      <3> QED BY <1>1, <2>1, <3>1, <3>2 DEF PressGoesOn
    <2> QED BY <1>1, <2>2, <2>3, <2>4, ListKeeps
  <1> QED BY <1>1, <1>2, <1>3

\* A step of others.
LEMMA ListStaysPut == ASSUME ListInv, UNCHANGED listVars PROVE ListInv'
  <1>1. /\ UNCHANGED <<stored, filter, shown, fresh, load, press>>
        /\ UNCHANGED <<removal, late, unaware, presses, loads>>
    BY DEF listVars
  <1>2. ListStates'
    BY <1>1, ListTypes DEF ListStates, Filters
  <1>3. LoadsGoOn /\ PressGoesOn
    BY <1>1, NothingLoads
  <1>4. WritesAreTold
    BY <1>1 DEF WritesAreTold, Unanswered
  <1> QED BY <1>1, <1>2, <1>3, <1>4, ListKeeps

\* At first nothing is loaded, and nothing is pressed.
LEMMA ListStarts == ListInit => ListInv
  <1> SUFFICES ASSUME ListInit PROVE ListInv
    OBVIOUS
  <1>1. /\ fresh = [f \in Filters |-> FALSE] /\ press = NoPress /\ shown = [f \in Filters |-> NoRows]
        /\ load = [f \in Filters |-> IF f = All THEN [at |-> "asked"] ELSE NoLoad]
    BY DEF ListInit
  <1>2. load \in [Filters -> LoadStates] /\ \A f \in Filters : load[f].at # "read"
    BY <1>1, LoadFacts
  <1>3. ListStates
    <2>1. presses \in 0 .. MaxPresses /\ loads \in Nat
      BY ListAssumption DEF ListInit
    <2>2. fresh \in [Filters -> BOOLEAN] /\ shown \in [Filters -> Lists \cup {NoRows}]
      BY <1>1
    <2>3. filter \in Filters
      BY DEF ListInit, Filters
    <2> QED BY <1>1, <1>2, <2>1, <2>2, <2>3 DEF ListInit, ListStates
  <1>4. HeardListsAreTrue /\ FreshListsAreOwn
    BY <1>1 DEF HeardListsAreTrue, FreshListsAreOwn
  <1>5. ReadsAreTrue /\ ReadsAreOwn
    BY <1>2 DEF ReadsAreTrue, ReadsAreOwn
  <1>6. LoadsAreNoticed /\ PressesHold
    BY <1>1 DEF LoadsAreNoticed, PressesHold
  <1> QED BY <1>3, <1>4, <1>5, <1>6 DEF ListInv

\* The invariant is inductive.
LEMMA ListInvariant == ListSpec => []ListInv
  <1>1. ASSUME ListInv, [ListNext]_listVars PROVE ListInv'
    <2>1. CASE UNCHANGED listVars
      BY <1>1, <2>1, ListStaysPut
    <2>2. ASSUME NEW f \in Filters, PickFilter(f) \/ LoadReads(f) \/ LoadAnswers(f) \/ LoadFails(f)
          PROVE  ListInv'
      BY <1>1, <2>2, PickFilterKeeps, LoadReadsKeeps, LoadAnswersKeeps, LoadFailsKeeps
    <2>3. ASSUME NEW c \in Listed, Press(c) \/ Delete(c) PROVE ListInv'
      BY <1>1, <2>3, PressKeeps, DeleteRowKeeps
    <2>4. CASE Pull \/ PressReaches \/ PressAnswered \/ PressFails \/ LateArrives
      BY <1>1, <2>4, PullKeeps, PressReachesKeeps, PressAnsweredKeeps, PressFailsKeeps, LateArrivesKeeps
    <2>5. CASE DeleteReaches \/ DeleteAnswered \/ DeleteFails
      BY <1>1, <2>5, DeleteReachesKeeps, DeleteAnsweredKeeps, DeleteFailsKeeps
    <2> QED BY <1>1, <2>1, <2>2, <2>3, <2>4, <2>5 DEF ListNext
  <1> QED BY <1>1, ListStarts, PTL DEF ListSpec

\* The list on the phone, whatever is pressed and loaded in whatever order, and
\* whichever answers are lost: a list that will not be loaded again is what the
\* database holds and shows its own account, and a pressed toggle stays as
\* pressed until it is answered (mobile/app/(app)/campaigns/index.jsx).
THEOREM ListHolds == ListSpec => []ListIsSound
  <1>1. ListInv => ListIsSound
    <2> SUFFICES ASSUME ListInv PROVE ListIsSound
      OBVIOUS
    <2>1. ListTypeOK
      <3>1. /\ press.at \in {"none", "sent", "saved", "refused"}
            /\ removal.at \in {"none", "sent", "deleted", "refused"}
            /\ \A f \in Filters : load[f].at \in {"none", "asked", "read"}
        BY ListTypes, ButtonFacts, LoadFacts
      <3> QED BY <3>1, ListTypes DEF ListTypeOK, Switches
    <2>2. FreshListsAreTrue
      BY ButtonFacts DEF ListInv, HeardListsAreTrue, FreshListsAreTrue, Unanswered, Pressed
    <2>3. ForeignRowsAreReloaded
      BY DEF ListInv, FreshListsAreOwn, ForeignRowsAreReloaded, IsOwn, Pressed, Switches
    <2> QED BY <2>1, <2>2, <2>3 DEF ListInv, ListIsSound
  <1> QED BY <1>1, ListInvariant, PTL

-----------------------------------------------------------------------------
(* CampaignCopies: the invariant                                           *)

CopyRows  == [account : Clients \cup {"gone"}, post : Posts \cup {Unbound}, next : BOOLEAN,
              any : BOOLEAN, dm : BOOLEAN, of : Ids]
Entries   == [of : Ids, from : Clients, post : Posts \cup {Unbound}, next : BOOLEAN,
              any : BOOLEAN, dm : BOOLEAN]
Asking    == [at : {"clone"}, of : Ids, left : SUBSET Clients]
Cloning   == [at : {"cloning"}, of : Ids, source : CopyRows, left : SUBSET Clients,
              made : SUBSET Clients]
Uploading == [at : {"import"}, account : Clients]
Loading   == [at : {"importing"}, account : Clients, left : SUBSET Entries, made : SUBSET Ids,
              used : SUBSET Posts]
CopyRequests == {NoRequest, [at |-> "failed"]} \cup Asking \cup Cloning \cup Uploading \cup Loading

CopiesStates ==
    /\ rows \in [Ids -> CopyRows \cup {NoCampaign}]
    /\ connected \subseteq Clients
    /\ exported \subseteq Entries /\ IsFiniteSet(exported)
    /\ request \in [Handlers -> CopyRequests]
    /\ waiting \in Handlers \cup {NoWaiting}
    /\ asks \in [Ids -> [Clients -> 0 .. MaxAsks]]
    /\ promised \in [Ids -> [Clients -> Nat]]
    /\ bound \subseteq Ids /\ raced \subseteq Clients

\* What a campaign listens to excludes the rest, and is something.
Listens(c) ==
    /\ c.any => ~c.next
    /\ c.any \/ c.next => c.post = Unbound
    /\ c.post # Unbound \/ c.next \/ c.any \/ c.dm

\* Campaigns are made one after the other, each of one made before it.
Taken(i) == rows[i] # NoCampaign
RowsFit ==
    \A i \in Ids : Taken(i) =>
        /\ Listens(rows[i]) /\ Taken(rows[i].of) /\ rows[i].of \in 1 .. i
        /\ \A j \in Ids : j < i => Taken(j)
PostsBelong == \A i \in Live : rows[i].post # Unbound => PostOwner[rows[i].post] = rows[i].account

\* An entry is one campaign as it was.
EntriesFit ==
    /\ \A e \in exported : /\ Taken(e.of)
                           /\ e.post # Unbound => PostOwner[e.post] = e.from /\ ~e.next /\ ~e.any
    /\ \A e, f \in exported : e.of = f.of => e = f

\* A request copies what was there, and what the file has.
RequestsFit ==
    \A h \in Handlers :
        /\ request[h].at \in {"clone", "cloning"} => Taken(request[h].of)
        /\ request[h].at = "cloning" => Listens(request[h].source)
        /\ request[h].at \in {"import", "importing"} => exported # {}
        /\ request[h].at = "importing" => request[h].left \subseteq exported

\* The copies request h is still to make, and those it has made.
ToCome(r, i, a) ==
    \/ r.at \in {"clone", "cloning"} /\ r.of = i /\ a \in r.left
    \/ r.at = "import" /\ r.account = a /\ \E e \in exported : e.of = i
    \/ r.at = "importing" /\ r.account = a /\ \E e \in r.left : e.of = i
HasMade(r, i, a) ==
    \/ r.at = "cloning" /\ r.of = i /\ a \in r.made
    \/ r.at = "importing" /\ r.account = a /\ i \in r.made

\* What was asked for is there, is to come, or failed.
AskedFor(i, a) == {h \in Handlers : ToCome(request[h], i, a)}
CopiesWereAsked ==
    \A i \in Ids, a \in connected : Copies(i, a) + Cardinality(AskedFor(i, a)) <= asks[i][a]

\* What is promised, or will be by the request the phone waits for, is there.
PromisesAreKept ==
    \A i \in Ids, a \in connected :
        /\ promised[i][a] <= Copies(i, a)
        /\ waiting # NoWaiting /\ HasMade(request[waiting], i, a) => promised[i][a] < Copies(i, a)
PromisesWereAsked ==
    \A i \in Ids, a \in Clients :
        /\ promised[i][a] <= asks[i][a]
        /\ waiting # NoWaiting /\ (HasMade(request[waiting], i, a) \/ ToCome(request[waiting], i, a))
              => promised[i][a] < asks[i][a]

\* An import knows the posts of its account, but for those a sweep or another
\* import has taken.
PostsAreKnown ==
    \A h \in Handlers : \A i \in Live \ bound :
        (Importing(h, rows[i].account) /\ rows[i].post # Unbound) =>
            rows[i].post \in request[h].used \/ rows[i].account \in raced
ImportsRace ==
    \A g, h \in Handlers, a \in Clients : g # h /\ Importing(g, a) /\ Importing(h, a) => a \in raced

CopiesInv ==
    /\ CopiesStates /\ RowsFit /\ PostsBelong /\ EntriesFit /\ RequestsFit
    /\ CopiesWereAsked /\ PromisesAreKept /\ PromisesWereAsked
    /\ PostsAreKnown /\ ImportsRace /\ TwinPostsAreRaces

-----------------------------------------------------------------------------
(* CampaignCopies: sets and records                                        *)

\* The types, for the provers.
LEMMA CopyTypes ==
    ASSUME CopiesInv
    PROVE  /\ rows \in [Ids -> CopyRows \cup {NoCampaign}] /\ connected \subseteq Clients
           /\ exported \subseteq Entries /\ IsFiniteSet(exported)
           /\ request \in [Handlers -> CopyRequests]
           /\ waiting \in Handlers \cup {NoWaiting} /\ NoWaiting \notin Handlers
           /\ asks \in [Ids -> [Clients -> 0 .. MaxAsks]] /\ promised \in [Ids -> [Clients -> Nat]]
           /\ bound \subseteq Ids /\ raced \subseteq Clients
           /\ MaxRows \in Nat /\ MaxAsks \in Nat /\ IsFiniteSet(Handlers) /\ IsFiniteSet(Clients)
  BY CopiesAssumption DEF CopiesInv, CopiesStates, NoWaiting

\* The places of a request are told apart by its name for them.
LEMMA RequestFacts ==
    /\ NoRequest \in CopyRequests /\ NoRequest.at = "idle"
    /\ [at |-> "failed"] \in CopyRequests /\ [at |-> "failed"].at = "failed"
    /\ \A r \in CopyRequests :
          /\ r.at \in {"idle", "clone", "cloning", "import", "importing", "failed"}
          /\ r.at = "idle" <=> r = NoRequest
          /\ r.at = "clone" => r \in Asking
          /\ r.at = "cloning" => r \in Cloning
          /\ r.at = "import" => r \in Uploading
          /\ r.at = "importing" => r \in Loading
  BY DEF CopyRequests, NoRequest, Asking, Cloning, Uploading, Loading

\* Whoever is on an account of the workspace is a campaign.
LEMMA LiveFacts ==
    ASSUME CopiesInv
    PROVE  /\ \A i \in Ids : (i \in Live <=> Taken(i) /\ rows[i].account # "gone")
           /\ \A i \in Ids : Taken(i) => rows[i] \in CopyRows
           /\ \A i \in Live : i \in Ids /\ Taken(i) /\ rows[i] \in CopyRows /\ rows[i].account \in Clients
  <1>1. NoCampaign.account \notin Clients /\ "gone" \notin Clients
    BY CopiesAssumption DEF NoCampaign
  <1>2. \A c \in CopyRows : c.account \in Clients \cup {"gone"}
    BY DEF CopyRows
  <1> QED BY <1>1, <1>2, CopyTypes DEF Live, Taken

CopySet(i, a) == {j \in Live : rows[j].of = i /\ j # i /\ rows[j].account = a}

\* Copies and requests are few enough to count.
LEMMA CountFacts ==
    ASSUME CopiesInv, NEW i, NEW a
    PROVE  /\ IsFiniteSet(Ids)
           /\ CopySet(i, a) \in SUBSET Ids /\ IsFiniteSet(CopySet(i, a))
           /\ Copies(i, a) = Cardinality(CopySet(i, a)) /\ Copies(i, a) \in Nat
           /\ AskedFor(i, a) \in SUBSET Handlers /\ Cardinality(AskedFor(i, a)) \in Nat
  <1>1. IsFiniteSet(Ids)
    BY FS_Interval, CopyTypes DEF Ids
  <1>2. CopySet(i, a) \in SUBSET Ids /\ AskedFor(i, a) \in SUBSET Handlers
    BY DEF CopySet, Live, AskedFor
  <1>3. Copies(i, a) = Cardinality(CopySet(i, a))
    BY DEF Copies, CopySet
  <1> QED BY <1>1, <1>2, <1>3, CopyTypes, FS_Subset, FS_CardinalityType

\* What is to come when one request moves.
LEMMA AskedForMoves ==
    ASSUME CopiesInv, NEW h \in Handlers, NEW x \in CopyRequests,
           request' = [request EXCEPT ![h] = x], exported' = exported
    PROVE  \A i, a :
           /\ Cardinality(AskedFor(i, a)) \in Nat /\ Cardinality(AskedFor(i, a)') \in Nat
           /\ Cardinality(AskedFor(i, a)') + (IF ToCome(request[h], i, a) THEN 1 ELSE 0)
                = Cardinality(AskedFor(i, a)) + (IF ToCome(x, i, a) THEN 1 ELSE 0)
  <1> SUFFICES ASSUME NEW i, NEW a
               PROVE  /\ Cardinality(AskedFor(i, a)) \in Nat /\ Cardinality(AskedFor(i, a)') \in Nat
                      /\ Cardinality(AskedFor(i, a)') + (IF ToCome(request[h], i, a) THEN 1 ELSE 0)
                            = Cardinality(AskedFor(i, a)) + (IF ToCome(x, i, a) THEN 1 ELSE 0)
    OBVIOUS
  <1>1. request'[h] = x /\ \A g \in Handlers \ {h} : request'[g] = request[g]
    BY CopyTypes
  <1>2. /\ AskedFor(i, a) \in SUBSET Handlers /\ AskedFor(i, a)' \in SUBSET Handlers
        /\ h \in AskedFor(i, a) <=> ToCome(request[h], i, a)
        /\ h \in AskedFor(i, a)' <=> ToCome(x, i, a)
        /\ \A g \in Handlers \ {h} : g \in AskedFor(i, a) <=> g \in AskedFor(i, a)'
    BY <1>1 DEF AskedFor, ToCome
  <1> QED BY <1>2, CopyTypes, SetsButOne

\* The sum the phone's bound goes by is no less than any of its parts.
LEMMA AskedBoundsEach ==
    ASSUME CopiesInv, NEW i \in Ids, NEW a \in Clients
    PROVE  Asked \in Nat /\ asks[i][a] <= Asked
  <1> DEFINE each == [j \in Ids |-> SumOver(asks[j], Clients)]
  <1>1. Asked = SumOver(each, Ids)
    <2>1. \A j \in Ids : FoldFunction(+, 0, asks[j]) = SumOver(asks[j], Clients)
      <3> SUFFICES ASSUME NEW j \in Ids PROVE FoldFunction(+, 0, asks[j]) = SumOver(asks[j], Clients)
        OBVIOUS
      <3>1. DOMAIN asks[j] = Clients
        BY CopyTypes
      <3> QED BY <3>1 DEF FoldFunction, FoldFunctionOnSet, SumOver, MapThenSumSet, MapThenFoldSet
    <2>2. Asked = FoldFunction(+, 0, [j \in Ids |-> FoldFunction(+, 0, asks[j])])
      BY DEF Asked
    <2>3. [j \in Ids |-> FoldFunction(+, 0, asks[j])] = each
      BY <2>1
    <2>4. DOMAIN each = Ids
      OBVIOUS
    <2> HIDE DEF each
    <2>5. FoldFunction(+, 0, each) = SumOver(each, Ids)
      BY <2>4 DEF FoldFunction, FoldFunctionOnSet, SumOver, MapThenSumSet, MapThenFoldSet
    <2> QED BY <2>2, <2>3, <2>5
  <1>2. \A j \in Ids : asks[j] \in [Clients -> Nat]
    BY CopyTypes
  <1>3. \A j \in Ids : SumOver(asks[j], Clients) \in Nat
    BY <1>2, CopyTypes, SumIsNat
  <1>4. each \in [Ids -> Nat] /\ each[i] = SumOver(asks[i], Clients)
    BY <1>3
  <1>5. asks[i][a] <= each[i] /\ asks[i][a] \in Nat
    BY <1>2, <1>4, CopyTypes, SumBoundsEach
  <1> HIDE DEF each
  <1>6. each[i] <= Asked /\ Asked \in Nat /\ each[i] \in Nat
    BY <1>1, <1>4, CountFacts, SumBoundsEach, SumIsNat
  <1> QED BY <1>5, <1>6

\* With the campaigns as they are, a request moves: to copies it was to make, or
\* that were just asked for, and to none made that it had not made; what it made
\* is reported at most once.
LEMMA MoveKeeps ==
    ASSUME CopiesInv, NEW h \in Handlers, NEW x \in CopyRequests,
           UNCHANGED <<rows, connected, exported, bound>>,
           request' = [request EXCEPT ![h] = x],
           asks' \in [Ids -> [Clients -> 0 .. MaxAsks]],
           promised' \in [Ids -> [Clients -> Nat]],
           raced \subseteq raced', raced' \subseteq Clients,
           x.at \in {"clone", "cloning"} => Taken(x.of),
           x.at = "cloning" => Listens(x.source),
           x.at \in {"import", "importing"} => exported # {},
           x.at = "importing" => x.left \subseteq exported,
           \A i \in Ids, a \in Clients :
               /\ asks[i][a] <= asks'[i][a]
               /\ ToCome(x, i, a) => ToCome(request[h], i, a) \/ asks[i][a] < asks'[i][a]
               /\ HasMade(x, i, a) => HasMade(request[h], i, a)
               /\ \/ promised'[i][a] = promised[i][a]
                  \/ /\ waiting = h /\ HasMade(request[h], i, a) /\ waiting' = NoWaiting
                     /\ promised'[i][a] = promised[i][a] + 1,
           \/ waiting' \in {NoWaiting, waiting}
           \/ /\ waiting' = h
              /\ \A i \in Ids, a \in Clients :
                    ~HasMade(x, i, a) /\ (ToCome(x, i, a) => asks[i][a] < asks'[i][a]),
           \A a \in Clients : x.at = "importing" /\ x.account = a =>
               \/ Importing(h, a) /\ request[h].used \subseteq x.used
               \/ /\ \A i \in Live : rows[i].account = a /\ rows[i].post # Unbound => rows[i].post \in x.used
                  /\ \A g \in Handlers \ {h} : Importing(g, a) => a \in raced'
    PROVE  CopiesInv'
  <1>1. request'[h] = x /\ \A g \in Handlers \ {h} : request'[g] = request[g]
    BY CopyTypes
  <1>2. Live' = Live /\ \A i \in Ids : Taken(i)' = Taken(i)
    BY DEF Live, Taken
  <1>3. \A i, a : Copies(i, a)' = Copies(i, a)
    BY <1>2 DEF Copies
  <1>4. \A i, a : Copies(i, a) \in Nat
    BY CountFacts
  <1>5. \A i \in Ids, a \in Clients : /\ asks[i][a] \in Nat /\ asks'[i][a] \in Nat
                                     /\ promised[i][a] \in Nat /\ promised'[i][a] \in Nat
    BY CopyTypes
  <1>6. \A i \in Ids, a \in connected : a \in Clients
    BY CopyTypes
  <1>7. CopiesStates'
    <2>1. request' \in [Handlers -> CopyRequests]
      BY CopyTypes
    <2>2. waiting' \in Handlers \cup {NoWaiting}
      BY CopyTypes
    <2> QED BY <2>1, <2>2, CopyTypes DEF CopiesStates
  <1>8. RowsFit'
    BY <1>2 DEF CopiesInv, RowsFit, Listens, Taken
  <1>9. PostsBelong'
    BY <1>2 DEF CopiesInv, PostsBelong
  <1>10. EntriesFit'
    BY <1>2, CopyTypes DEF CopiesInv, EntriesFit, Entries, Taken
  <1>11. RequestsFit'
    <2> SUFFICES ASSUME NEW g \in Handlers
                 PROVE  /\ request'[g].at \in {"clone", "cloning"} => rows[request'[g].of] # NoCampaign
                        /\ request'[g].at = "cloning" => Listens(request'[g].source)
                        /\ request'[g].at \in {"import", "importing"} => exported # {}
                        /\ request'[g].at = "importing" => request'[g].left \subseteq exported
      BY DEF RequestsFit, Taken, Listens
    <2>1. CASE g = h
      BY <2>1, <1>1 DEF Taken
    <2>2. CASE g # h
      BY <2>2, <1>1 DEF CopiesInv, RequestsFit, Taken
    <2> QED BY <2>1, <2>2
  <1>12. CopiesWereAsked'
    <2> SUFFICES ASSUME NEW i \in Ids, NEW a \in connected
                 PROVE  Copies(i, a)' + Cardinality(AskedFor(i, a)') <= asks'[i][a]
      BY DEF CopiesWereAsked
    <2>1. Copies(i, a) + Cardinality(AskedFor(i, a)) <= asks[i][a]
      BY DEF CopiesInv, CopiesWereAsked
    <2>2. asks[i][a] <= asks'[i][a]
      BY <1>6
    <2>3. PICK d \in {0, 1} : d = IF ToCome(request[h], i, a) THEN 1 ELSE 0
      OBVIOUS
    <2>4. PICK e \in {0, 1} : e = IF ToCome(x, i, a) THEN 1 ELSE 0
      OBVIOUS
    <2>5. e <= d \/ asks[i][a] < asks'[i][a]
      BY <2>3, <2>4, <1>6
    <2>6. /\ Cardinality(AskedFor(i, a)) \in Nat /\ Cardinality(AskedFor(i, a)') \in Nat
          /\ Cardinality(AskedFor(i, a)') + d = Cardinality(AskedFor(i, a)) + e
      BY <2>3, <2>4, AskedForMoves
    <2>7. Copies(i, a) \in Nat /\ asks[i][a] \in Nat /\ asks'[i][a] \in Nat
      BY <1>4, <1>5, <1>6
    <2>8. Copies(i, a)' = Copies(i, a)
      BY <1>3
    <2> QED BY <2>1, <2>2, <2>5, <2>6, <2>7, <2>8
  <1>13. ASSUME waiting' # NoWaiting, NEW i \in Ids, NEW a \in Clients
         PROVE  /\ waiting' \in Handlers /\ promised'[i][a] = promised[i][a]
                /\ HasMade(request'[waiting'], i, a) => waiting = waiting' /\ HasMade(request[waiting], i, a)
                /\ ToCome(request'[waiting'], i, a) =>
                      (waiting = waiting' /\ ToCome(request[waiting], i, a)) \/ asks[i][a] < asks'[i][a]
    <2>1. waiting' \in Handlers /\ promised'[i][a] = promised[i][a]
      BY <1>13, CopyTypes
    <2>2. CASE waiting' = h
      BY <2>1, <2>2, <1>1, <1>13
    <2>3. CASE waiting' # h
      BY <2>1, <2>3, <1>1, <1>13
    <2> QED BY <2>1, <2>2, <2>3
  <1>14. \A i, a : (HasMade(request[waiting], i, a)' <=> HasMade(request'[waiting'], i, a))
                /\ (ToCome(request[waiting], i, a)' <=> ToCome(request'[waiting'], i, a))
    BY DEF HasMade, ToCome
  <1>15. PromisesAreKept'
    <2> SUFFICES ASSUME NEW i \in Ids, NEW a \in connected
                 PROVE  /\ promised'[i][a] <= Copies(i, a)
                        /\ waiting' # NoWaiting /\ HasMade(request'[waiting'], i, a)
                              => promised'[i][a] < Copies(i, a)
      BY <1>3, <1>14 DEF PromisesAreKept
    <2>1. a \in Clients
      BY <1>6
    <2>2. /\ promised[i][a] <= Copies(i, a)
          /\ waiting # NoWaiting /\ HasMade(request[waiting], i, a) => promised[i][a] < Copies(i, a)
      BY DEF CopiesInv, PromisesAreKept
    <2>3. promised'[i][a] <= Copies(i, a)
      <3>1. CASE promised'[i][a] = promised[i][a]
        BY <3>1, <2>2
      <3>2. CASE promised'[i][a] # promised[i][a]
        <4>1. waiting = h /\ HasMade(request[h], i, a) /\ promised'[i][a] = promised[i][a] + 1
          BY <3>2, <2>1
        <4>2. promised[i][a] < Copies(i, a)
          BY <4>1, <2>2, CopyTypes
        <4> QED BY <4>1, <4>2, <2>1, <1>4, <1>5
      <3> QED BY <3>1, <3>2
    <2>4. waiting' # NoWaiting /\ HasMade(request'[waiting'], i, a) => promised'[i][a] < Copies(i, a)
      BY <2>1, <2>2, <1>13
    <2> QED BY <2>3, <2>4
  <1>16. PromisesWereAsked'
    <2> SUFFICES ASSUME NEW i \in Ids, NEW a \in Clients
                 PROVE  /\ promised'[i][a] <= asks'[i][a]
                        /\ waiting' # NoWaiting
                              /\ (HasMade(request'[waiting'], i, a) \/ ToCome(request'[waiting'], i, a))
                              => promised'[i][a] < asks'[i][a]
      BY <1>14 DEF PromisesWereAsked
    <2>1. /\ promised[i][a] <= asks[i][a]
          /\ waiting # NoWaiting /\ (HasMade(request[waiting], i, a) \/ ToCome(request[waiting], i, a))
                => promised[i][a] < asks[i][a]
      BY DEF CopiesInv, PromisesWereAsked
    <2>2. asks[i][a] <= asks'[i][a]
      OBVIOUS
    <2>3. promised'[i][a] <= asks'[i][a]
      <3>1. CASE promised'[i][a] = promised[i][a]
        BY <3>1, <2>1, <2>2, <1>5
      <3>2. CASE promised'[i][a] # promised[i][a]
        <4>1. waiting = h /\ HasMade(request[h], i, a) /\ promised'[i][a] = promised[i][a] + 1
          BY <3>2
        <4>2. promised[i][a] < asks[i][a]
          BY <4>1, <2>1, CopyTypes
        <4> QED BY <4>1, <4>2, <2>2, <1>5
      <3> QED BY <3>1, <3>2
    <2>4. ASSUME waiting' # NoWaiting,
                 HasMade(request'[waiting'], i, a) \/ ToCome(request'[waiting'], i, a)
          PROVE  promised'[i][a] < asks'[i][a]
      <3>1. /\ promised'[i][a] = promised[i][a]
            /\ \/ waiting # NoWaiting /\ (HasMade(request[waiting], i, a) \/ ToCome(request[waiting], i, a))
               \/ asks[i][a] < asks'[i][a]
        BY <2>4, <1>13
      <3> QED BY <3>1, <2>1, <2>2, <1>5
    <2> QED BY <2>3, <2>4
  <1>17. PostsAreKnown'
    <2> SUFFICES ASSUME NEW g \in Handlers, NEW i \in Live \ bound,
                        request'[g].at = "importing", request'[g].account = rows[i].account,
                        rows[i].post # Unbound
                 PROVE  rows[i].post \in request'[g].used \/ rows[i].account \in raced'
      BY <1>2 DEF PostsAreKnown, Importing
    <2>1. CASE g # h
      BY <2>1, <1>1 DEF CopiesInv, PostsAreKnown, Importing
    <2>2. CASE g = h
      <3>1. rows[i].account \in Clients
        BY LiveFacts
      <3>2. x.at = "importing" /\ x.account = rows[i].account /\ request'[g].used = x.used
        BY <2>2, <1>1
      <3>3. CASE Importing(h, rows[i].account) /\ request[h].used \subseteq x.used
        BY <3>2, <3>3 DEF CopiesInv, PostsAreKnown
      <3>4. CASE \A j \in Live : rows[j].account = rows[i].account /\ rows[j].post # Unbound
                                    => rows[j].post \in x.used
        BY <3>2, <3>4
      <3> QED BY <3>1, <3>2, <3>3, <3>4
    <2> QED BY <2>1, <2>2
  <1>18. ImportsRace'
    <2> SUFFICES ASSUME NEW g \in Handlers, NEW k \in Handlers, NEW a \in Clients, g # k,
                        request'[g].at = "importing", request'[g].account = a,
                        request'[k].at = "importing", request'[k].account = a
                 PROVE  a \in raced'
      BY DEF ImportsRace, Importing
    <2>1. CASE g # h /\ k # h
      BY <2>1, <1>1 DEF CopiesInv, ImportsRace, Importing
    <2>2. ASSUME NEW m \in Handlers, m # h, request[m].at = "importing", request[m].account = a,
                 x.at = "importing", x.account = a
          PROVE  a \in raced'
      <3>1. CASE Importing(h, a)
        BY <2>2, <3>1 DEF CopiesInv, ImportsRace, Importing
      <3>2. CASE ~Importing(h, a)
        BY <2>2, <3>2 DEF Importing
      <3> QED BY <3>1, <3>2
    <2>3. CASE g = h
      BY <2>2, <2>3, <1>1
    <2>4. CASE k = h
      BY <2>2, <2>4, <1>1
    <2> QED BY <2>1, <2>3, <2>4
  <1>19. TwinPostsAreRaces'
    BY <1>2 DEF CopiesInv, TwinPostsAreRaces
  <1> QED BY <1>7, <1>8, <1>9, <1>10, <1>11, <1>12, <1>15, <1>16, <1>17, <1>18, <1>19 DEF CopiesInv

\* A copy that was to come is made: the next campaign n is c, of i on account a,
\* and request h becomes x.
Makes(h, x, i, a, n, c) ==
    /\ UNCHANGED <<connected, exported, waiting, asks, promised, bound, raced>>
    /\ rows' = [rows EXCEPT ![n] = c]
    /\ request' = [request EXCEPT ![h] = x]
    /\ c.account = a /\ c.of = i /\ Listens(c) /\ Taken(i)
    /\ c.post # Unbound => /\ PostOwner[c.post] = a
                           /\ Importing(h, a) /\ x.at = "importing"
                           /\ c.post \notin request[h].used /\ c.post \in x.used
    /\ x.at \in {"clone", "cloning"} => Taken(x.of)
    /\ x.at = "cloning" => Listens(x.source)
    /\ x.at \in {"import", "importing"} => exported # {}
    /\ x.at = "importing" =>
          /\ x.left \subseteq exported
          /\ request[h].at = "importing" /\ request[h].account = x.account
          /\ request[h].used \subseteq x.used
    /\ ToCome(request[h], i, a) /\ ~ToCome(x, i, a)
    /\ \A j \in Ids, b \in Clients :
          /\ ToCome(x, j, b) => ToCome(request[h], j, b)
          /\ HasMade(x, j, b) => HasMade(request[h], j, b) \/ (j = i /\ b = a)

\* One more campaign, last of all.
LEMMA MakeKeeps ==
    ASSUME CopiesInv, NEW h \in Handlers, NEW x \in CopyRequests,
           NEW i \in Ids, NEW a \in connected, NEW n \in Free, NEW c \in CopyRows,
           Makes(h, x, i, a, n, c)
    PROVE  CopiesInv'
  <1> USE DEF Makes
  <1>0. exported' = exported
    OBVIOUS
  <1>25. \A j, b :
            /\ Cardinality(AskedFor(j, b)) \in Nat /\ Cardinality(AskedFor(j, b)') \in Nat
            /\ Cardinality(AskedFor(j, b)') + (IF ToCome(request[h], j, b) THEN 1 ELSE 0)
                  = Cardinality(AskedFor(j, b)) + (IF ToCome(x, j, b) THEN 1 ELSE 0)
    BY <1>0, AskedForMoves
  <1>1. request'[h] = x /\ \A g \in Handlers \ {h} : request'[g] = request[g]
    BY CopyTypes
  <1>2. /\ n \in Ids /\ ~Taken(n) /\ \A j \in Ids : j < n => Taken(j)
        /\ rows'[n] = c /\ \A j \in Ids \ {n} : rows'[j] = rows[j]
    BY CopyTypes DEF Free, Taken
  <1>3. a \in Clients /\ c.account # NoCampaign.account /\ c # NoCampaign
    <2>1. a \in Clients
      BY CopyTypes
    <2>2. a # "none"
      BY <2>1, CopiesAssumption
    <2>3. NoCampaign.account = "none"
      BY DEF NoCampaign
    <2> QED BY <2>1, <2>2, <2>3
  <1>4. \A j \in Ids : Taken(j)' <=> Taken(j) \/ j = n
    BY <1>2, <1>3 DEF Taken
  <1>5. n \notin Live /\ Live' = Live \cup {n}
    <2>1. n \notin Live
      BY <1>2, LiveFacts
    <2> QED BY <2>1, <1>2, <1>3 DEF Live
  <1>6. i # n /\ i \in 1 .. n
    <2>1. i # n
      BY <1>2
    <2>2. ~(n < i)
      BY <1>2 DEF CopiesInv, RowsFit
    <2> QED BY <2>1, <2>2, <1>2, CopyTypes DEF Ids
  <1>7. ASSUME NEW j \in Ids, NEW b
        PROVE  /\ Copies(j, b) \in Nat /\ Copies(j, b)' \in Nat
               /\ Copies(j, b)' = Copies(j, b) + (IF j = i /\ b = a THEN 1 ELSE 0)
    <2>1. /\ CopySet(j, b) \in SUBSET Ids /\ CopySet(j, b)' \in SUBSET Ids
          /\ n \notin CopySet(j, b) /\ (n \in CopySet(j, b)' <=> j = i /\ b = a)
          /\ \A k \in Ids \ {n} : k \in CopySet(j, b) <=> k \in CopySet(j, b)'
      BY <1>2, <1>5, <1>6, CountFacts DEF CopySet, Live
    <2>2. Copies(j, b) = Cardinality(CopySet(j, b)) /\ Copies(j, b)' = Cardinality(CopySet(j, b)')
      BY DEF Copies, CopySet
    <2>3. IsFiniteSet(Ids)
      BY CountFacts
    <2>4. /\ Cardinality(CopySet(j, b)) \in Nat /\ Cardinality(CopySet(j, b)') \in Nat
          /\ Cardinality(CopySet(j, b)') + (IF n \in CopySet(j, b) THEN 1 ELSE 0)
                = Cardinality(CopySet(j, b)) + (IF n \in CopySet(j, b)' THEN 1 ELSE 0)
      BY <2>1, <2>3, <1>2, SetsButOne
    <2> QED BY <2>1, <2>2, <2>4
  <1>8. \A j \in Ids, b \in Clients : asks[j][b] \in Nat /\ promised[j][b] \in Nat
    BY CopyTypes
  <1>9. \A b \in connected : b \in Clients
    BY CopyTypes
  <1>10. CopiesStates'
    <2>1. rows' \in [Ids -> CopyRows \cup {NoCampaign}]
      BY CopyTypes
    <2>2. request' \in [Handlers -> CopyRequests]
      BY CopyTypes
    <2> QED BY <2>1, <2>2, CopyTypes DEF CopiesStates
  <1>11. RowsFit'
    <2> SUFFICES ASSUME NEW j \in Ids, Taken(j)'
                 PROVE  /\ Listens(rows'[j]) /\ rows'[rows'[j].of] # NoCampaign /\ rows'[j].of \in 1 .. j
                        /\ \A k \in Ids : k < j => Taken(k)'
      BY DEF RowsFit, Listens, Taken
    <2>1. CASE j = n
      BY <2>1, <1>2, <1>4, <1>6 DEF Taken
    <2>2. CASE j # n
      <3>1. Taken(j) /\ rows'[j] = rows[j]
        BY <2>2, <1>2, <1>4
      <3>2. /\ Listens(rows[j]) /\ Taken(rows[j].of) /\ rows[j].of \in 1 .. j
            /\ \A k \in Ids : k < j => Taken(k)
        BY <3>1 DEF CopiesInv, RowsFit
      <3>3. rows[j].of \in Ids
        BY <3>2, CopyTypes DEF Ids
      <3>4. rows'[rows'[j].of] # NoCampaign
        BY <3>1, <3>2, <3>3, <1>4 DEF Taken
      <3> QED BY <3>1, <3>2, <3>4, <1>4
    <2> QED BY <2>1, <2>2
  <1>12. PostsBelong'
    <2> SUFFICES ASSUME NEW j \in Live', rows'[j].post # Unbound
                 PROVE  PostOwner[rows'[j].post] = rows'[j].account
      BY DEF PostsBelong
    <2>1. CASE j = n
      BY <2>1, <1>2
    <2>2. CASE j # n
      BY <2>2, <1>2, <1>5, LiveFacts DEF CopiesInv, PostsBelong
    <2> QED BY <2>1, <2>2
  <1>13. EntriesFit'
    BY <1>4, CopyTypes DEF CopiesInv, EntriesFit, Entries
  <1>14. RequestsFit'
    <2> SUFFICES ASSUME NEW g \in Handlers
                 PROVE  /\ request'[g].at \in {"clone", "cloning"} => rows'[request'[g].of] # NoCampaign
                        /\ request'[g].at = "cloning" => Listens(request'[g].source)
                        /\ request'[g].at \in {"import", "importing"} => exported # {}
                        /\ request'[g].at = "importing" => request'[g].left \subseteq exported
      BY DEF RequestsFit, Listens, Taken
    <2>1. \A r \in CopyRequests : r.at \in {"clone", "cloning"} => r.of \in Ids
      BY RequestFacts DEF Asking, Cloning
    <2>2. request'[g] \in CopyRequests
      BY <1>10 DEF CopiesStates
    <2>3. request'[g].at \in {"clone", "cloning"} => Taken(request'[g].of)
      <3>1. CASE g = h
        BY <3>1, <1>1
      <3>2. CASE g # h
        BY <3>2, <1>1 DEF CopiesInv, RequestsFit
      <3> QED BY <3>1, <3>2
    <2>6. request'[g].at \in {"clone", "cloning"} => rows'[request'[g].of] # NoCampaign
      BY <2>1, <2>2, <2>3, <1>4 DEF Taken
    <2>4. CASE g = h
      BY <2>4, <2>6, <1>1
    <2>5. CASE g # h
      BY <2>5, <2>6, <1>1 DEF CopiesInv, RequestsFit
    <2> QED BY <2>4, <2>5
  <1>15. CopiesWereAsked'
    <2> SUFFICES ASSUME NEW j \in Ids, NEW b \in connected
                 PROVE  Copies(j, b)' + Cardinality(AskedFor(j, b)') <= asks[j][b]
      BY DEF CopiesWereAsked
    <2>1. Copies(j, b) + Cardinality(AskedFor(j, b)) <= asks[j][b]
      BY DEF CopiesInv, CopiesWereAsked
    <2>2. PICK d \in {0, 1} : d = IF ToCome(request[h], j, b) THEN 1 ELSE 0
      OBVIOUS
    <2>3. PICK e \in {0, 1} : e = IF ToCome(x, j, b) THEN 1 ELSE 0
      OBVIOUS
    <2>4. PICK f \in {0, 1} : f = IF j = i /\ b = a THEN 1 ELSE 0
      OBVIOUS
    <2>5. e + f <= d
      BY <2>2, <2>3, <2>4, <1>9
    <2>6. /\ Cardinality(AskedFor(j, b)) \in Nat /\ Cardinality(AskedFor(j, b)') \in Nat
          /\ Cardinality(AskedFor(j, b)') + d = Cardinality(AskedFor(j, b)) + e
      BY <2>2, <2>3, <1>25
    <2>7. Copies(j, b) \in Nat /\ Copies(j, b)' = Copies(j, b) + f
      BY <2>4, <1>7
    <2>8. asks[j][b] \in Nat
      BY <1>8, <1>9
    <2> QED BY <2>1, <2>5, <2>6, <2>7, <2>8
  <1>16. ASSUME waiting # NoWaiting, NEW j \in Ids, NEW b \in Clients
         PROVE  /\ waiting \in Handlers
                /\ HasMade(request'[waiting], j, b) =>
                      HasMade(request[waiting], j, b) \/ (waiting = h /\ j = i /\ b = a)
                /\ ToCome(request'[waiting], j, b) => ToCome(request[waiting], j, b)
    <2>1. waiting \in Handlers
      BY <1>16, CopyTypes
    <2>2. CASE waiting = h
      BY <2>1, <2>2, <1>1
    <2>3. CASE waiting # h
      BY <2>1, <2>3, <1>1
    <2> QED BY <2>1, <2>2, <2>3
  <1>17. \A j, b : (HasMade(request[waiting], j, b)' <=> HasMade(request'[waiting], j, b))
                /\ (ToCome(request[waiting], j, b)' <=> ToCome(request'[waiting], j, b))
    BY DEF HasMade, ToCome
  <1>18. PromisesAreKept'
    <2> SUFFICES ASSUME NEW j \in Ids, NEW b \in connected
                 PROVE  /\ promised[j][b] <= Copies(j, b)'
                        /\ waiting # NoWaiting /\ HasMade(request'[waiting], j, b)
                              => promised[j][b] < Copies(j, b)'
      BY <1>17 DEF PromisesAreKept
    <2>1. b \in Clients /\ promised[j][b] \in Nat
      BY <1>8, <1>9
    <2>2. /\ promised[j][b] <= Copies(j, b)
          /\ waiting # NoWaiting /\ HasMade(request[waiting], j, b) => promised[j][b] < Copies(j, b)
      BY DEF CopiesInv, PromisesAreKept
    <2>3. PICK f \in {0, 1} : f = IF j = i /\ b = a THEN 1 ELSE 0
      OBVIOUS
    <2>4. Copies(j, b) \in Nat /\ Copies(j, b)' = Copies(j, b) + f
      BY <2>3, <1>7
    <2>5. ASSUME waiting # NoWaiting, HasMade(request'[waiting], j, b)
          PROVE  promised[j][b] < Copies(j, b)'
      <3>1. HasMade(request[waiting], j, b) \/ f = 1
        BY <2>1, <2>3, <2>5, <1>16
      <3> QED BY <3>1, <2>1, <2>2, <2>4, <2>5
    <2> QED BY <2>1, <2>2, <2>4, <2>5
  <1>19. PromisesWereAsked'
    <2> SUFFICES ASSUME NEW j \in Ids, NEW b \in Clients
                 PROVE  /\ promised[j][b] <= asks[j][b]
                        /\ waiting # NoWaiting
                              /\ (HasMade(request'[waiting], j, b) \/ ToCome(request'[waiting], j, b))
                              => promised[j][b] < asks[j][b]
      BY <1>17 DEF PromisesWereAsked
    <2>1. /\ promised[j][b] <= asks[j][b]
          /\ waiting # NoWaiting /\ (HasMade(request[waiting], j, b) \/ ToCome(request[waiting], j, b))
                => promised[j][b] < asks[j][b]
      BY DEF CopiesInv, PromisesWereAsked
    <2>2. ASSUME waiting # NoWaiting, HasMade(request'[waiting], j, b) \/ ToCome(request'[waiting], j, b)
          PROVE  HasMade(request[waiting], j, b) \/ ToCome(request[waiting], j, b)
      BY <2>2, <1>16
    <2> QED BY <2>1, <2>2
  <1>20. ASSUME NEW g \in Handlers, request'[g].at = "importing"
         PROVE  Importing(g, request'[g].account) /\ request[g].used \subseteq request'[g].used
    <2>1. CASE g = h
      BY <2>1, <1>1, <1>20 DEF Importing
    <2>2. CASE g # h
      BY <2>2, <1>1, <1>20 DEF Importing
    <2> QED BY <2>1, <2>2
  <1>21. PostsAreKnown'
    <2> SUFFICES ASSUME NEW g \in Handlers, NEW j \in Live' \ bound,
                        request'[g].at = "importing", request'[g].account = rows'[j].account,
                        rows'[j].post # Unbound
                 PROVE  rows'[j].post \in request'[g].used \/ rows'[j].account \in raced
      BY DEF PostsAreKnown, Importing
    <2>1. CASE j # n
      <3>1. j \in Live \ bound /\ rows'[j] = rows[j]
        BY <2>1, <1>2, <1>5, LiveFacts
      <3>2. rows[j].post # Unbound
        BY <3>1
      <3>3. Importing(g, rows[j].account) /\ request[g].used \subseteq request'[g].used
        BY <3>1, <1>20
      <3> QED BY <3>1, <3>2, <3>3 DEF CopiesInv, PostsAreKnown
    <2>2. CASE j = n /\ g = h
      BY <2>2, <1>1, <1>2
    <2>3. CASE j = n /\ g # h
      <3>1. request'[g].account = a
        BY <2>3, <1>2
      <3>2. Importing(g, a) /\ Importing(h, a)
        BY <2>3, <3>1, <1>2, <1>20
      <3> QED BY <2>3, <3>2, <1>2, <1>3 DEF CopiesInv, ImportsRace
    <2> QED BY <2>1, <2>2, <2>3
  <1>22. ImportsRace'
    <2> SUFFICES ASSUME NEW g \in Handlers, NEW k \in Handlers, NEW b \in Clients, g # k,
                        request'[g].at = "importing", request'[g].account = b,
                        request'[k].at = "importing", request'[k].account = b
                 PROVE  b \in raced
      BY DEF ImportsRace, Importing
    <2> QED BY <1>20 DEF CopiesInv, ImportsRace
  <1>23. ASSUME NEW j \in Live, rows[j].post = c.post, c.post # Unbound
         PROVE  j \in bound \/ a \in raced
    <2>1. PostOwner[rows[j].post] = rows[j].account
      BY <1>23 DEF CopiesInv, PostsBelong
    <2>2. rows[j].account = a
      BY <2>1, <1>23
    <2> QED BY <2>2, <1>23 DEF CopiesInv, PostsAreKnown
  <1>24. TwinPostsAreRaces'
    <2> SUFFICES ASSUME NEW j \in Live', NEW k \in Live', j # k, rows'[j].post = rows'[k].post,
                        rows'[j].post # Unbound
                 PROVE  {j, k} \cap bound # {} \/ rows'[j].account \in raced
      BY DEF TwinPostsAreRaces
    <2>1. \A m \in Live : m # n /\ m \in Ids /\ rows'[m] = rows[m]
      BY <1>2, <1>5, LiveFacts
    <2>2. CASE j # n /\ k # n
      BY <2>1, <2>2, <1>5 DEF CopiesInv, TwinPostsAreRaces
    <2>3. CASE j = n
      <3>1. k \in Live /\ rows[k].post = c.post /\ c.post # Unbound /\ rows'[j].account = a
        BY <2>1, <2>3, <1>2, <1>5
      <3> QED BY <3>1, <1>23
    <2>4. CASE k = n
      <3>1. j \in Live /\ rows[j].post = c.post /\ c.post # Unbound /\ rows'[j].account = rows[j].account
        BY <2>1, <2>4, <1>2, <1>5
      <3>2. rows[j].account = a
        BY <3>1 DEF CopiesInv, PostsBelong
      <3> QED BY <3>1, <3>2, <1>23
    <2> QED BY <2>2, <2>3, <2>4
  <1> QED BY <1>10, <1>11, <1>12, <1>13, <1>14, <1>15, <1>18, <1>19, <1>21, <1>22, <1>24 DEF CopiesInv

\* Clones, requests that fail, requests that are answered: one request moves.
LEMMA SubmitCloneKeeps ==
    ASSUME CopiesInv, NEW h \in Handlers, NEW i \in Ids, NEW s \in SUBSET Clients, SubmitClone(h, i, s)
    PROVE  CopiesInv'
  <1> DEFINE x == [at |-> "clone", of |-> i, left |-> s]
  <1>1. /\ waiting = NoWaiting /\ waiting' = h /\ i \in Live /\ s # {}
        /\ Asked + Cardinality(s) <= MaxAsks
        /\ request' = [request EXCEPT ![h] = x]
        /\ asks' = [asks EXCEPT ![i] = [a \in Clients |-> IF a \in s THEN asks[i][a] + 1 ELSE asks[i][a]]]
        /\ UNCHANGED <<rows, connected, exported, promised, bound, raced>>
    BY DEF SubmitClone
  <1>2. x \in CopyRequests /\ x.at = "clone" /\ x.of = i /\ x.left = s
    BY DEF CopyRequests, Asking
  <1>3. Cardinality(s) \in Nat /\ Cardinality(s) >= 1
    BY <1>1, CopyTypes, FS_Subset, FS_CardinalityType, FS_EmptySet
  <1>4. \A a \in Clients : asks[i][a] \in Nat /\ asks[i][a] + 1 <= MaxAsks
    BY <1>1, <1>3, AskedBoundsEach, CopyTypes
  <1> DEFINE row == [a \in Clients |-> IF a \in s THEN asks[i][a] + 1 ELSE asks[i][a]]
  <1>5. row \in [Clients -> 0 .. MaxAsks]
    BY <1>4, CopyTypes
  <1>6. \A a \in Clients : asks'[i][a] = (IF a \in s THEN asks[i][a] + 1 ELSE asks[i][a])
    BY <1>1, CopyTypes
  <1>7. \A j \in Ids \ {i} : asks'[j] = asks[j]
    BY <1>1, CopyTypes
  <1>8. asks' \in [Ids -> [Clients -> 0 .. MaxAsks]]
    <2> HIDE DEF row
    <2>1. asks' = [asks EXCEPT ![i] = row]
      BY <1>1 DEF row
    <2> QED BY <2>1, <1>5, CopyTypes
  <1>9. \A j \in Ids, a \in Clients :
            /\ asks[j][a] <= asks'[j][a]
            /\ ToCome(x, j, a) => asks[j][a] < asks'[j][a]
            /\ ~HasMade(x, j, a)
    <2> SUFFICES ASSUME NEW j \in Ids, NEW a \in Clients
                 PROVE  /\ asks[j][a] <= asks'[j][a]
                        /\ ToCome(x, j, a) => asks[j][a] < asks'[j][a]
                        /\ ~HasMade(x, j, a)
      OBVIOUS
    <2>1. asks[j][a] \in Nat
      BY CopyTypes
    <2>2. ToCome(x, j, a) => j = i /\ a \in s
      BY <1>2 DEF ToCome
    <2>3. ~HasMade(x, j, a)
      BY <1>2 DEF HasMade
    <2> QED BY <2>1, <2>2, <2>3, <1>4, <1>6, <1>7
  <1>10. Taken(i)
    BY <1>1, LiveFacts
  <1>11. promised' \in [Ids -> [Clients -> Nat]] /\ raced' \subseteq Clients
    BY <1>1, CopyTypes
  <1> HIDE DEF x, row
  <1> QED BY <1>1, <1>2, <1>8, <1>9, <1>10, <1>11, MoveKeeps

\* A request that is to make no more than before, and has made nothing more, and is
\* no import that just began.
LEMMA StepKeeps ==
    ASSUME CopiesInv, NEW h \in Handlers, NEW x \in CopyRequests,
           UNCHANGED <<rows, connected, exported, bound, asks, raced>>,
           request' = [request EXCEPT ![h] = x],
           promised' \in [Ids -> [Clients -> Nat]],
           waiting' \in {NoWaiting, waiting},
           x.at \in {"clone", "cloning"} => Taken(x.of),
           x.at = "cloning" => Listens(x.source),
           x.at \in {"import", "importing"} => exported # {},
           x.at = "importing" => /\ x.left \subseteq exported
                                 /\ Importing(h, x.account) /\ request[h].used \subseteq x.used,
           \A i \in Ids, a \in Clients :
               /\ ToCome(x, i, a) => ToCome(request[h], i, a)
               /\ HasMade(x, i, a) => HasMade(request[h], i, a)
               /\ \/ promised'[i][a] = promised[i][a]
                  \/ /\ waiting = h /\ HasMade(request[h], i, a) /\ waiting' = NoWaiting
                     /\ promised'[i][a] = promised[i][a] + 1
    PROVE  CopiesInv'
  <1>1. asks' \in [Ids -> [Clients -> 0 .. MaxAsks]] /\ raced \subseteq raced' /\ raced' \subseteq Clients
    BY CopyTypes
  <1>2. \A i \in Ids, a \in Clients : asks[i][a] <= asks'[i][a]
    BY CopyTypes
  <1>3. UNCHANGED <<rows, connected, exported, bound>>
    OBVIOUS
  <1>5. \A i \in Ids, a \in Clients :
           /\ asks[i][a] <= asks'[i][a]
           /\ ToCome(x, i, a) => ToCome(request[h], i, a) \/ asks[i][a] < asks'[i][a]
           /\ HasMade(x, i, a) => HasMade(request[h], i, a)
           /\ \/ promised'[i][a] = promised[i][a]
              \/ /\ waiting = h /\ HasMade(request[h], i, a) /\ waiting' = NoWaiting
                 /\ promised'[i][a] = promised[i][a] + 1
    BY <1>2
  <1>6. /\ x.at = "importing" => x.left \subseteq exported
        /\ \/ waiting' \in {NoWaiting, waiting}
           \/ /\ waiting' = h
              /\ \A i \in Ids, a \in Clients :
                    ~HasMade(x, i, a) /\ (ToCome(x, i, a) => asks[i][a] < asks'[i][a])
    OBVIOUS
  <1>4. \A a \in Clients : x.at = "importing" /\ x.account = a =>
           Importing(h, a) /\ request[h].used \subseteq x.used
    OBVIOUS
  <1>7. \A a \in Clients : x.at = "importing" /\ x.account = a =>
           \/ Importing(h, a) /\ request[h].used \subseteq x.used
           \/ /\ \A i \in Live : rows[i].account = a /\ rows[i].post # Unbound => rows[i].post \in x.used
              /\ \A g \in Handlers \ {h} : Importing(g, a) => a \in raced'
    BY <1>4
  <1> QED BY <1>1, <1>3, <1>5, <1>6, <1>7, MoveKeeps

\* A request that has come to its end, or failed, owes nothing.
LEMMA EndKeeps ==
    ASSUME CopiesInv, NEW h \in Handlers, NEW x \in {NoRequest, [at |-> "failed"]},
           UNCHANGED <<rows, connected, exported, bound, asks, raced>>,
           request' = [request EXCEPT ![h] = x],
           promised' \in [Ids -> [Clients -> Nat]],
           waiting' \in {NoWaiting, waiting},
           \A i \in Ids, a \in Clients :
               \/ promised'[i][a] = promised[i][a]
               \/ /\ waiting = h /\ HasMade(request[h], i, a) /\ waiting' = NoWaiting
                  /\ promised'[i][a] = promised[i][a] + 1
    PROVE  CopiesInv'
  <1>1. x \in CopyRequests /\ x.at \in {"idle", "failed"}
    BY RequestFacts
  <1>2. \A i \in Ids, a \in Clients : ~ToCome(x, i, a) /\ ~HasMade(x, i, a)
    BY <1>1 DEF ToCome, HasMade
  <1> QED BY <1>1, <1>2, StepKeeps

\* A request fails, and what it made stays.
LEMMA RequestFailsKeeps ==
    ASSUME CopiesInv, NEW h \in Handlers, RequestFails(h)
    PROVE  CopiesInv'
  <1>1. /\ request' = [request EXCEPT ![h] = NoRequest] /\ waiting' \in {NoWaiting, waiting}
        /\ UNCHANGED <<rows, connected, exported, bound, asks, raced>> /\ promised' = promised
    BY DEF RequestFails
  <1> QED BY <1>1, CopyTypes, EndKeeps

\* The phone no longer waits.
LEMMA GiveUpKeeps ==
    ASSUME CopiesInv, GiveUp
    PROVE  CopiesInv'
  <1>1. /\ waiting \in Handlers /\ waiting' = NoWaiting /\ request' = request /\ promised' = promised
        /\ UNCHANGED <<rows, connected, exported, bound, asks, raced>>
    BY CopyTypes DEF GiveUp
  <1> DEFINE x == request[waiting]
  <1>2. x \in CopyRequests /\ request' = [request EXCEPT ![waiting] = x]
    BY <1>1, CopyTypes
  <1>3. /\ x.at \in {"clone", "cloning"} => Taken(x.of)
        /\ x.at = "cloning" => Listens(x.source)
        /\ x.at \in {"import", "importing"} => exported # {}
        /\ x.at = "importing" => x.left \subseteq exported
    BY <1>1 DEF CopiesInv, RequestsFit
  <1>4. x.at = "importing" => Importing(waiting, x.account)
    BY DEF Importing
  <1> HIDE DEF x
  <1>5. x = request[waiting]
    BY DEF x
  <1> QED BY <1>1, <1>2, <1>3, <1>4, <1>5, CopyTypes, StepKeeps

\* The source of a clone is read.
LEMMA ReadSourceKeeps ==
    ASSUME CopiesInv, NEW h \in Handlers, ReadSource(h)
    PROVE  CopiesInv'
  <1> DEFINE r == request[h]
             i == r.of
             x == [at |-> "cloning", of |-> i, source |-> rows[i],
                   left |-> (r.left \cap connected) \ {rows[i].account}, made |-> {}]
  <1>1. /\ r.at = "clone" /\ request' = [request EXCEPT ![h] = IF i \in Live THEN x ELSE [at |-> "failed"]]
        /\ UNCHANGED <<rows, connected, exported, bound, asks, raced>>
        /\ promised' = promised /\ waiting' = waiting
    BY DEF ReadSource
  <1>2. r \in Asking
    BY <1>1, CopyTypes, RequestFacts
  <1>3. CASE i \notin Live
    <2> HIDE DEF r, i, x
    <2>1. request' = [request EXCEPT ![h] = [at |-> "failed"]]
      BY <1>1, <1>3
    <2> QED BY <2>1, <1>1, CopyTypes, EndKeeps
  <1>4. CASE i \in Live
    <2>1. Taken(i) /\ rows[i] \in CopyRows /\ i \in Ids /\ Listens(rows[i])
      BY <1>4, LiveFacts DEF CopiesInv, RowsFit
    <2>2. r.left \in SUBSET Clients
      BY <1>2 DEF Asking
    <2>3. x \in CopyRequests
      BY <2>1, <2>2 DEF CopyRequests, Cloning
    <2>4. /\ x.at = "cloning" /\ x.of = i /\ x.source = rows[i] /\ x.made = {}
          /\ x.left \subseteq r.left
      OBVIOUS
    <2>5. \A j \in Ids, a \in Clients : (ToCome(x, j, a) => ToCome(r, j, a)) /\ ~HasMade(x, j, a)
      BY <2>4, <1>1 DEF ToCome, HasMade
    <2>6. r = request[h]
      OBVIOUS
    <2> HIDE DEF r, i, x
    <2>7. request' = [request EXCEPT ![h] = x]
      BY <1>1, <1>4
    <2> QED BY <2>1, <2>3, <2>4, <2>5, <2>6, <2>7, <1>1, CopyTypes, StepKeeps
  <1> QED BY <1>3, <1>4

\* What a step of the loop changes in its request.
LEMMA CloningMoves ==
    ASSUME NEW r \in Cloning, NEW a \in Clients
    PROVE  [r EXCEPT !.left = @ \ {a}, !.made = @ \cup {a}] =
               [at |-> "cloning", of |-> r.of, source |-> r.source, left |-> r.left \ {a},
                made |-> r.made \cup {a}]
  <1>1. \A q \in Cloning, b \in SUBSET Clients :
           [q EXCEPT !.left = b] = [at |-> "cloning", of |-> q.of, source |-> q.source, left |-> b,
                                    made |-> q.made]
    BY DEF Cloning
  <1>2. \A q \in Cloning, b \in SUBSET Clients :
           [q EXCEPT !.made = b] = [at |-> "cloning", of |-> q.of, source |-> q.source,
                                    left |-> q.left, made |-> b]
    BY DEF Cloning
  <1> DEFINE l == r.left \ {a}
             m == r.made \cup {a}
             q == [at |-> "cloning", of |-> r.of, source |-> r.source, left |-> l, made |-> r.made]
  <1>3. l \in SUBSET Clients /\ m \in SUBSET Clients /\ q \in Cloning
    BY DEF Cloning
  <1>4. q.of = r.of /\ q.source = r.source /\ q.left = l
    OBVIOUS
  <1> HIDE DEF l, m, q
  <1>5. [r EXCEPT !.left = l] = q
    BY <1>1, <1>3 DEF q
  <1>6. [q EXCEPT !.made = m] = [at |-> "cloning", of |-> r.of, source |-> r.source, left |-> l, made |-> m]
    BY <1>2, <1>3, <1>4
  <1>7. [[r EXCEPT !.left = l] EXCEPT !.made = m]
           = [at |-> "cloning", of |-> r.of, source |-> r.source, left |-> l, made |-> m]
    BY <1>5, <1>6, Zenon
  <1> QED BY <1>7, Zenon DEF l, m

\* One account of a clone.
LEMMA CloneOneKeeps ==
    ASSUME CopiesInv, NEW h \in Handlers, CloneOne(h)
    PROVE  CopiesInv'
  <1> DEFINE r == request[h]
  <1>1. /\ r.at = "cloning"
        /\ UNCHANGED <<connected, exported, waiting, asks, promised, bound, raced>>
        /\ \E a \in r.left :
              IF a \in connected
              THEN \E n \in Free :
                      /\ rows' = [rows EXCEPT ![n] = Cloned(r, a)]
                      /\ request' = [request EXCEPT ![h].left = @ \ {a}, ![h].made = @ \cup {a}]
              ELSE /\ request' = [request EXCEPT ![h] = [at |-> "failed"]]
                   /\ UNCHANGED rows
    BY DEF CloneOne
  <1>2. r \in Cloning /\ request \in [Handlers -> CopyRequests]
    BY <1>1, CopyTypes, RequestFacts
  <1>3. PICK a \in r.left :
              IF a \in connected
              THEN \E n \in Free :
                      /\ rows' = [rows EXCEPT ![n] = Cloned(r, a)]
                      /\ request' = [request EXCEPT ![h].left = @ \ {a}, ![h].made = @ \cup {a}]
              ELSE /\ request' = [request EXCEPT ![h] = [at |-> "failed"]]
                   /\ UNCHANGED rows
    BY <1>1
  <1>4. CASE a \notin connected
    <2>1. request' = [request EXCEPT ![h] = [at |-> "failed"]] /\ rows' = rows
      BY <1>3, <1>4
    <2> HIDE DEF r
    <2> QED BY <2>1, <1>1, CopyTypes, EndKeeps
  <1>5. CASE a \in connected
    <2>1. PICK n \in Free :
              /\ rows' = [rows EXCEPT ![n] = Cloned(r, a)]
              /\ request' = [request EXCEPT ![h].left = @ \ {a}, ![h].made = @ \cup {a}]
      BY <1>3, <1>5
    <2> DEFINE x == [r EXCEPT !.left = @ \ {a}, !.made = @ \cup {a}]
               c == Cloned(r, a)
    <2>2. PICK o \in Ids, src \in CopyRows, lf \in SUBSET Clients, md \in SUBSET Clients :
             r = [at |-> "cloning", of |-> o, source |-> src, left |-> lf, made |-> md]
      BY <1>2 DEF Cloning
    <2>3. a \in Clients /\ r.of = o /\ r.source = src /\ r.left = lf /\ r.made = md
      BY <2>2, <1>2 DEF Cloning
    <2>4. x = [at |-> "cloning", of |-> o, source |-> src, left |-> lf \ {a}, made |-> md \cup {a}]
      BY <2>3, <1>2, CloningMoves
    <2>5. request' = [request EXCEPT ![h] = x]
      BY <2>1, <1>2
    <2>6. x \in CopyRequests
      BY <2>4, <2>3 DEF CopyRequests, Cloning
    <2>7. /\ x.at = "cloning" /\ x.of = o /\ x.source = src /\ x.left = lf \ {a} /\ x.made = md \cup {a}
      BY <2>4
    <2>8. Taken(o) /\ Listens(src)
      BY <2>3, <1>1 DEF CopiesInv, RequestsFit
    <2>9. /\ c.account = a /\ c.post = Unbound /\ c.any = src.any /\ c.dm = src.dm /\ c.of = o
          /\ c.next = (~src.any /\ (src.next \/ src.post # Unbound))
      BY <2>3 DEF Cloned, Campaign
    <2>10. c \in CopyRows
      BY <2>3 DEF Cloned, Campaign, CopyRows
    <2>11. Listens(c)
      BY <2>8, <2>9 DEF Listens
    <2>12. ToCome(r, o, a) /\ ~ToCome(x, o, a)
      BY <2>3, <2>7, <1>1 DEF ToCome
    <2>13. \A j \in Ids, b \in Clients :
              /\ ToCome(x, j, b) => ToCome(r, j, b)
              /\ HasMade(x, j, b) => HasMade(r, j, b) \/ (j = o /\ b = a)
      BY <2>3, <2>7, <1>1 DEF ToCome, HasMade
    <2>14. rows' = [rows EXCEPT ![n] = c] /\ r = request[h]
      BY <2>1
    <2>15. /\ x.at \in {"clone", "cloning"} /\ Taken(x.of) /\ Listens(x.source)
           /\ x.at \notin {"import", "importing"}
      BY <2>7, <2>8
    <2> HIDE DEF r, x, c
    <2>16. a \in connected /\ n \in Free /\ o \in Ids /\ c \in CopyRows /\ x \in CopyRequests
      BY <1>5, <2>6, <2>10
    <2>17. /\ c.account = a /\ c.of = o /\ Listens(c) /\ Taken(o)
           /\ c.post # Unbound => /\ PostOwner[c.post] = a
                                  /\ Importing(h, a) /\ x.at = "importing"
                                  /\ c.post \notin request[h].used /\ c.post \in x.used
      BY <2>8, <2>9, <2>11
    <2>18. /\ x.at \in {"clone", "cloning"} => Taken(x.of)
           /\ x.at = "cloning" => Listens(x.source)
           /\ x.at \in {"import", "importing"} => exported # {}
           /\ x.at = "importing" =>
                /\ x.left \subseteq exported
                /\ request[h].at = "importing" /\ request[h].account = x.account
                /\ request[h].used \subseteq x.used
      BY <2>15
    <2>20. UNCHANGED <<connected, exported, waiting, asks, promised, bound, raced>>
      BY <1>1
    <2>19. /\ ToCome(request[h], o, a) /\ ~ToCome(x, o, a)
           /\ \A j \in Ids, b \in Clients :
                 /\ ToCome(x, j, b) => ToCome(request[h], j, b)
                 /\ HasMade(x, j, b) => HasMade(request[h], j, b) \/ (j = o /\ b = a)
      BY <2>12, <2>13, <2>14
    <2>21. Makes(h, x, o, a, n, c)
      BY <2>5, <2>14, <2>17, <2>18, <2>19, <2>20 DEF Makes
    <2> QED BY <2>16, <2>21, MakeKeeps
  <1> QED BY <1>4, <1>5

\* An import: its account is looked up, and the posts that are taken are read.
LEMMA SubmitImportKeeps ==
    ASSUME CopiesInv, NEW h \in Handlers, NEW a \in Clients, SubmitImport(h, a)
    PROVE  CopiesInv'
  <1> DEFINE x == [at |-> "import", account |-> a]
             In(i) == \E e \in exported : e.of = i
  <1>1. /\ waiting' = h /\ exported # {}
        /\ Asked + Cardinality(exported) <= MaxAsks
        /\ request' = [request EXCEPT ![h] = x]
        /\ asks' = [i \in Ids |-> IF In(i) THEN [asks[i] EXCEPT ![a] = asks[i][a] + 1] ELSE asks[i]]
        /\ UNCHANGED <<rows, connected, exported, promised, bound, raced>>
    BY DEF SubmitImport
  <1>2. x \in CopyRequests /\ x.at = "import" /\ x.account = a
    BY DEF CopyRequests, Uploading
  <1>3. Cardinality(exported) \in Nat /\ Cardinality(exported) >= 1
    BY <1>1, CopyTypes, FS_CardinalityType, FS_EmptySet
  <1>4. \A i \in Ids : asks[i][a] \in Nat /\ asks[i][a] + 1 <= MaxAsks
    BY <1>1, <1>3, AskedBoundsEach, CopyTypes
  <1> HIDE DEF In
  <1>5. ASSUME NEW i \in Ids
        PROVE  /\ asks'[i] \in [Clients -> 0 .. MaxAsks]
               /\ asks'[i][a] = IF In(i) THEN asks[i][a] + 1 ELSE asks[i][a]
               /\ \A b \in Clients \ {a} : asks'[i][b] = asks[i][b]
    <2>1. asks[i] \in [Clients -> 0 .. MaxAsks] /\ asks[i][a] + 1 \in 0 .. MaxAsks
      BY <1>4, CopyTypes
    <2>2. asks'[i] = IF In(i) THEN [asks[i] EXCEPT ![a] = asks[i][a] + 1] ELSE asks[i]
      BY <1>1
    <2> QED BY <2>1, <2>2
  <1>6. asks' \in [Ids -> [Clients -> 0 .. MaxAsks]]
    <2>1. asks' = [i \in Ids |-> asks'[i]]
      BY <1>1
    <2> QED BY <2>1, <1>5
  <1>7. ASSUME NEW i \in Ids, NEW b \in Clients
        PROVE  /\ asks[i][b] <= asks'[i][b]
               /\ ToCome(x, i, b) => asks[i][b] < asks'[i][b]
               /\ ~HasMade(x, i, b)
    <2>1. asks[i][b] \in Nat
      BY CopyTypes
    <2>2. ToCome(x, i, b) => b = a /\ In(i)
      BY <1>2 DEF ToCome, In
    <2>3. ~HasMade(x, i, b)
      BY <1>2 DEF HasMade
    <2> QED BY <2>1, <2>2, <2>3, <1>5
  <1>8. promised' \in [Ids -> [Clients -> Nat]] /\ raced' \subseteq Clients
    BY <1>1, CopyTypes
  <1> HIDE DEF x
  <1> QED BY <1>1, <1>2, <1>6, <1>7, <1>8, MoveKeeps

\* The posts that are taken are read.
LEMMA ReadUsedPostsKeeps ==
    ASSUME CopiesInv, NEW h \in Handlers, ReadUsedPosts(h)
    PROVE  CopiesInv'
  <1> DEFINE r == request[h]
             a == r.account
             used == {rows[i].post : i \in {j \in Live : rows[j].account = a}} \ {Unbound}
             x == [at |-> "importing", account |-> a, left |-> exported, made |-> {}, used |-> used]
  <1>1. /\ r.at = "import"
        /\ UNCHANGED <<rows, connected, exported, waiting, asks, promised, bound>>
    BY DEF ReadUsedPosts
  <1>2. r \in Uploading
    BY <1>1, CopyTypes, RequestFacts
  <1>3. a \in Clients
    BY <1>2 DEF Uploading
  <1>4. CASE a \notin connected
    <2>1. request' = [request EXCEPT ![h] = [at |-> "failed"]] /\ raced' = raced
      BY <1>4 DEF ReadUsedPosts
    <2> HIDE DEF r, a, used, x
    <2> QED BY <2>1, <1>1, CopyTypes, EndKeeps
  <1>5. CASE a \in connected
    <2>1. request' = [request EXCEPT ![h] = x]
      BY <1>5 DEF ReadUsedPosts
    <2>2. raced' = IF \E g \in Handlers : Importing(g, a) THEN raced \cup {a} ELSE raced
      BY <1>5 DEF ReadUsedPosts
    <2>3. raced \subseteq raced' /\ raced' \subseteq Clients
      BY <2>2, <1>3, CopyTypes
    <2>4. \A i \in Live : rows[i].post \in Posts \cup {Unbound}
      BY LiveFacts DEF CopyRows
    <2>5. used \in SUBSET Posts
      BY <2>4
    <2>6. \A i \in Live : rows[i].account = a /\ rows[i].post # Unbound => rows[i].post \in used
      OBVIOUS
    <2>7. /\ x.at = "importing" /\ x.account = a /\ x.left = exported /\ x.made = {} /\ x.used = used
      OBVIOUS
    <2> HIDE DEF used
    <2>8. x \in CopyRequests
      BY <2>5, <1>3, CopyTypes DEF CopyRequests, Loading
    <2>9. exported # {}
      BY <1>1 DEF CopiesInv, RequestsFit
    <2>10. \A i \in Ids, b \in Clients : (ToCome(x, i, b) => ToCome(r, i, b)) /\ ~HasMade(x, i, b)
      BY <2>7, <1>1 DEF ToCome, HasMade
    <2>11. r = request[h]
      OBVIOUS
    <2> HIDE DEF x, r, a
    <2>12. \A i \in Ids, b \in Clients :
               /\ asks[i][b] <= asks'[i][b]
               /\ ToCome(x, i, b) => ToCome(request[h], i, b) \/ asks[i][b] < asks'[i][b]
               /\ HasMade(x, i, b) => HasMade(request[h], i, b)
               /\ \/ promised'[i][b] = promised[i][b]
                  \/ /\ waiting = h /\ HasMade(request[h], i, b) /\ waiting' = NoWaiting
                     /\ promised'[i][b] = promised[i][b] + 1
      BY <2>10, <2>11, <1>1, CopyTypes
    <2>13. \A b \in Clients : x.at = "importing" /\ x.account = b =>
               \/ Importing(h, b) /\ request[h].used \subseteq x.used
               \/ /\ \A i \in Live : rows[i].account = b /\ rows[i].post # Unbound => rows[i].post \in x.used
                  /\ \A g \in Handlers \ {h} : Importing(g, b) => b \in raced'
      BY <2>2, <2>6, <2>7
    <2>14. /\ asks' \in [Ids -> [Clients -> 0 .. MaxAsks]] /\ promised' \in [Ids -> [Clients -> Nat]]
           /\ waiting' \in {NoWaiting, waiting}
           /\ UNCHANGED <<rows, connected, exported, bound>>
      BY <1>1, CopyTypes
    <2>15. /\ x.at \in {"clone", "cloning"} => Taken(x.of)
           /\ x.at = "cloning" => Listens(x.source)
           /\ x.at \in {"import", "importing"} => exported # {}
           /\ x.at = "importing" => x.left \subseteq exported
      BY <2>7, <2>9
    <2> QED BY <2>1, <2>3, <2>8, <2>12, <2>13, <2>14, <2>15, MoveKeeps
  <1> QED BY <1>4, <1>5

\* What a step of an import changes in its request.
LEMMA LoadingMoves ==
    ASSUME NEW r \in Loading, NEW e
    PROVE  /\ [r EXCEPT !.left = @ \ {e}]
                 = [at |-> "importing", account |-> r.account, left |-> r.left \ {e}, made |-> r.made,
                    used |-> r.used]
           /\ \A i \in Ids, v \in SUBSET Posts :
                 [[r EXCEPT !.left = @ \ {e}] EXCEPT !.made = @ \cup {i}, !.used = @ \cup v]
                    = [at |-> "importing", account |-> r.account, left |-> r.left \ {e},
                       made |-> r.made \cup {i}, used |-> r.used \cup v]
  <1>1. \A q \in Loading, b \in SUBSET Entries :
           [q EXCEPT !.left = b] = [at |-> "importing", account |-> q.account, left |-> b,
                                    made |-> q.made, used |-> q.used]
    BY DEF Loading
  <1>2. \A q \in Loading, b \in SUBSET Ids :
           [q EXCEPT !.made = b] = [at |-> "importing", account |-> q.account, left |-> q.left,
                                    made |-> b, used |-> q.used]
    BY DEF Loading
  <1>3. \A q \in Loading, b \in SUBSET Posts :
           [q EXCEPT !.used = b] = [at |-> "importing", account |-> q.account, left |-> q.left,
                                    made |-> q.made, used |-> b]
    BY DEF Loading
  <1> DEFINE l == r.left \ {e}
             p == [at |-> "importing", account |-> r.account, left |-> l, made |-> r.made, used |-> r.used]
  <1>4. l \in SUBSET Entries /\ p \in Loading /\ r.made \in SUBSET Ids /\ r.used \in SUBSET Posts
    BY DEF Loading
  <1>5. p.account = r.account /\ p.left = l /\ p.made = r.made /\ p.used = r.used
    OBVIOUS
  <1> HIDE DEF l, p
  <1>6. [r EXCEPT !.left = l] = p
    BY <1>1, <1>4 DEF p
  <1>7. ASSUME NEW i \in Ids, NEW v \in SUBSET Posts
        PROVE  [[r EXCEPT !.left = l] EXCEPT !.made = @ \cup {i}, !.used = @ \cup v]
                  = [at |-> "importing", account |-> r.account, left |-> l,
                     made |-> r.made \cup {i}, used |-> r.used \cup v]
    <2> DEFINE m == p.made \cup {i}
               w == p.used \cup v
               q == [at |-> "importing", account |-> r.account, left |-> l, made |-> m, used |-> r.used]
    <2>1. m \in SUBSET Ids /\ w \in SUBSET Posts /\ m = r.made \cup {i} /\ w = r.used \cup v
      BY <1>4, <1>5
    <2> HIDE DEF m, w
    <2>2. q \in Loading
      BY <2>1, <1>4 DEF Loading
    <2>3. q.account = r.account /\ q.left = l /\ q.made = m /\ q.used = r.used
      OBVIOUS
    <2> HIDE DEF q
    <2>4. [p EXCEPT !.made = m] = q
      BY <2>1, <1>2, <1>4, <1>5 DEF q
    <2>5. [q EXCEPT !.used = w]
              = [at |-> "importing", account |-> r.account, left |-> l, made |-> m, used |-> w]
      BY <2>1, <2>2, <2>3, <1>3
    <2>6. [[p EXCEPT !.made = m] EXCEPT !.used = w]
              = [at |-> "importing", account |-> r.account, left |-> l, made |-> m, used |-> w]
      BY <2>4, <2>5, Zenon
    <2>7. [p EXCEPT !.made = @ \cup {i}, !.used = @ \cup v]
              = [at |-> "importing", account |-> r.account, left |-> l, made |-> m, used |-> w]
      BY <2>6, Zenon DEF m, w
    <2>8. [at |-> "importing", account |-> r.account, left |-> l, made |-> m, used |-> w]
             = [at |-> "importing", account |-> r.account, left |-> l,
                made |-> r.made \cup {i}, used |-> r.used \cup v]
      BY <2>1
    <2> QED BY <2>7, <2>8, <1>6, Zenon
  <1>8. /\ [r EXCEPT !.left = l] = p
        /\ \A i \in Ids, v \in SUBSET Posts :
                 [[r EXCEPT !.left = l] EXCEPT !.made = @ \cup {i}, !.used = @ \cup v]
                    = [at |-> "importing", account |-> r.account, left |-> l,
                       made |-> r.made \cup {i}, used |-> r.used \cup v]
    BY <1>6, <1>7, Zenon
  <1> QED BY <1>8, Zenon DEF l, p

\* An entry is skipped, or the campaign it becomes is made.
LEMMA ImportOneKeeps ==
    ASSUME CopiesInv, NEW h \in Handlers, ImportOne(h)
    PROVE  CopiesInv'
  <1> DEFINE r == request[h]
             a == r.account
             done(e) == [r EXCEPT !.left = @ \ {e}]
             Kept(e) == IF KeepsPost(e, a) THEN {e.post} ELSE {}
             more(e) == [done(e) EXCEPT !.made = @ \cup {e.of}, !.used = @ \cup Kept(e)]
  <1>1. /\ r.at = "importing"
        /\ UNCHANGED <<connected, exported, waiting, asks, promised, bound, raced>>
        /\ \E e \in r.left :
              \/ /\ KeepsPost(e, a) /\ e.post \in r.used
                 /\ request' = [request EXCEPT ![h] = done(e)]
                 /\ UNCHANGED rows
              \/ /\ ~(KeepsPost(e, a) /\ e.post \in r.used)
                 /\ IF a \in connected
                    THEN \E n \in Free :
                            /\ rows' = [rows EXCEPT ![n] = Imported(e, a)]
                            /\ request' = [request EXCEPT ![h] = more(e)]
                    ELSE request' = [request EXCEPT ![h] = [at |-> "failed"]] /\ UNCHANGED rows
    BY Zenon DEF ImportOne
  <1>2. r \in Loading
    BY <1>1, CopyTypes, RequestFacts
  <1> HIDE DEF done, more, Kept
  <1>3. PICK e \in r.left :
              \/ /\ KeepsPost(e, a) /\ e.post \in r.used
                 /\ request' = [request EXCEPT ![h] = done(e)]
                 /\ UNCHANGED rows
              \/ /\ ~(KeepsPost(e, a) /\ e.post \in r.used)
                 /\ IF a \in connected
                    THEN \E n \in Free :
                            /\ rows' = [rows EXCEPT ![n] = Imported(e, a)]
                            /\ request' = [request EXCEPT ![h] = more(e)]
                    ELSE request' = [request EXCEPT ![h] = [at |-> "failed"]] /\ UNCHANGED rows
    BY <1>1
  <1>4. /\ a \in Clients /\ r.left \subseteq exported /\ exported # {} /\ r.left \in SUBSET Entries
        /\ r.made \in SUBSET Ids /\ r.used \in SUBSET Posts /\ e \in exported
    BY <1>1, <1>2, <1>3 DEF CopiesInv, RequestsFit, Loading
  <1>5. e \in Entries /\ e.of \in Ids /\ e.post \in Posts \cup {Unbound}
    BY <1>4, CopyTypes DEF Entries
  <1>6. Importing(h, a)
    BY <1>1 DEF Importing
  <1>7. CASE request' = [request EXCEPT ![h] = [at |-> "failed"]] /\ UNCHANGED rows
    <2>1. UNCHANGED <<rows, connected, exported, bound, asks, raced>> /\ waiting' = waiting /\ promised' = promised
      BY <1>1, <1>7
    <2> HIDE DEF r, a
    <2> QED BY <2>1, <1>7, CopyTypes, EndKeeps
  <1>8. CASE request' = [request EXCEPT ![h] = done(e)] /\ UNCHANGED rows
    <2> DEFINE x == [at |-> "importing", account |-> a, left |-> r.left \ {e}, made |-> r.made, used |-> r.used]
    <2>1. done(e) = x
      BY <1>2, LoadingMoves DEF done
    <2>2. x \in CopyRequests
      BY <1>4 DEF CopyRequests, Loading
    <2>3. /\ x.at = "importing" /\ x.account = a /\ x.left = r.left \ {e} /\ x.made = r.made /\ x.used = r.used
      OBVIOUS
    <2>4. \A i \in Ids, b \in Clients : (ToCome(x, i, b) => ToCome(r, i, b)) /\ (HasMade(x, i, b) => HasMade(r, i, b))
      BY <2>3, <1>1 DEF ToCome, HasMade
    <2> HIDE DEF x
    <2>5. request' = [request EXCEPT ![h] = x]
      BY <2>1, <1>8
    <2>6. /\ x.at \in {"clone", "cloning"} => Taken(x.of)
          /\ x.at = "cloning" => Listens(x.source)
          /\ x.at \in {"import", "importing"} => exported # {}
          /\ x.at = "importing" => /\ x.left \subseteq exported
                                   /\ Importing(h, x.account) /\ request[h].used \subseteq x.used
      BY <2>3, <1>4, <1>6
    <2>7. /\ UNCHANGED <<rows, connected, exported, bound, asks, raced>>
          /\ waiting' \in {NoWaiting, waiting} /\ promised' \in [Ids -> [Clients -> Nat]]
      BY <1>1, <1>8, CopyTypes
    <2>8. \A i \in Ids, b \in Clients :
              /\ ToCome(x, i, b) => ToCome(request[h], i, b)
              /\ HasMade(x, i, b) => HasMade(request[h], i, b)
              /\ \/ promised'[i][b] = promised[i][b]
                 \/ /\ waiting = h /\ HasMade(request[h], i, b) /\ waiting' = NoWaiting
                    /\ promised'[i][b] = promised[i][b] + 1
      BY <2>4, <1>1
    <2> HIDE DEF r, a
    <2> QED BY <2>2, <2>5, <2>6, <2>7, <2>8, StepKeeps
  <1>9. ASSUME ~(KeepsPost(e, a) /\ e.post \in r.used), a \in connected, NEW n \in Free,
               rows' = [rows EXCEPT ![n] = Imported(e, a)], request' = [request EXCEPT ![h] = more(e)]
        PROVE  CopiesInv'
    <2> DEFINE i == e.of
               c == Imported(e, a)
               x == [at |-> "importing", account |-> a, left |-> r.left \ {e}, made |-> r.made \cup {i},
                     used |-> r.used \cup Kept(e)]
    <2>1. Kept(e) \in SUBSET Posts
      BY <1>5 DEF Kept, KeepsPost
    <2>2. more(e) = x
      <3>0. \A j \in Ids, v \in SUBSET Posts :
               [[r EXCEPT !.left = @ \ {e}] EXCEPT !.made = @ \cup {j}, !.used = @ \cup v]
                  = [at |-> "importing", account |-> r.account, left |-> r.left \ {e},
                     made |-> r.made \cup {j}, used |-> r.used \cup v]
        <4> HIDE DEF r
        <4> QED BY <1>2, LoadingMoves, Zenon
      <3>1. [[r EXCEPT !.left = @ \ {e}] EXCEPT !.made = @ \cup {e.of}, !.used = @ \cup Kept(e)] = x
        <4> HIDE DEF r
        <4> QED BY <2>1, <1>5, <3>0, Zenon
      <3> QED BY <3>1, Zenon DEF done, more
    <2>3. x \in CopyRequests
      BY <2>1, <1>4, <1>5 DEF CopyRequests, Loading
    <2>4. /\ x.at = "importing" /\ x.account = a /\ x.left = r.left \ {e} /\ x.made = r.made \cup {i}
          /\ x.used = r.used \cup Kept(e)
      OBVIOUS
    <2>5. Taken(i) /\ (e.post # Unbound => PostOwner[e.post] = e.from /\ ~e.next /\ ~e.any)
      BY <1>4 DEF CopiesInv, EntriesFit
    <2>6. \A f \in exported : f.of = i => f = e
      BY <1>4 DEF CopiesInv, EntriesFit
    <2>7. ToCome(r, i, a) /\ ~ToCome(x, i, a)
      <3>1. ToCome(r, i, a)
        BY <1>1, <1>3 DEF ToCome
      <3>2. ~ToCome(x, i, a)
        BY <2>4, <2>6, <1>4 DEF ToCome
      <3> QED BY <3>1, <3>2
    <2>8. \A j \in Ids, b \in Clients :
              /\ ToCome(x, j, b) => ToCome(r, j, b)
              /\ HasMade(x, j, b) => HasMade(r, j, b) \/ (j = i /\ b = a)
      BY <2>4, <1>1 DEF ToCome, HasMade
    <2> DEFINE keep == KeepsPost(e, a)
    <2>9. e.next \in BOOLEAN /\ e.any \in BOOLEAN /\ e.dm \in BOOLEAN /\ keep \in BOOLEAN
      BY <1>5 DEF Entries, KeepsPost
    <2>10. /\ c.account = a /\ c.of = i
           /\ c.post = (IF keep THEN e.post ELSE Unbound)
           /\ c.any = (~keep /\ e.any)
           /\ c.next = (~(~keep /\ e.any) /\ (e.next \/ (e.post # Unbound /\ ~keep)))
           /\ c.dm = (e.dm \/ ~(keep \/ (~keep /\ e.any)
                                  \/ (~(~keep /\ e.any) /\ (e.next \/ (e.post # Unbound /\ ~keep)))))
      BY DEF Imported, Campaign
    <2>11. c \in CopyRows
      BY <2>9, <1>4, <1>5 DEF Imported, Campaign, CopyRows
    <2>12. keep => e.from = a /\ e.post # Unbound
      BY DEF KeepsPost
    <2>13. Listens(c)
      <3>1. c.any => ~c.next
        BY <2>10
      <3>2. c.any \/ c.next => c.post = Unbound
        BY <2>5, <2>10, <2>12
      <3>3. c.post # Unbound \/ c.next \/ c.any \/ c.dm
        BY <2>10, <2>12
      <3> QED BY <3>1, <3>2, <3>3 DEF Listens
    <2>14. c.post # Unbound => /\ PostOwner[c.post] = a
                               /\ Importing(h, a) /\ x.at = "importing"
                               /\ c.post \notin r.used /\ c.post \in x.used
      BY <2>4, <2>5, <2>10, <2>12, <1>6, <1>9 DEF Kept
    <2>15. n \in Free /\ c \in CopyRows /\ i \in Ids /\ a \in connected
      BY <2>11, <1>5, <1>9
    <2>16. rows' = [rows EXCEPT ![n] = c]
      BY <1>9
    <2> HIDE DEF i, c, x, keep
    <2>17. request' = [request EXCEPT ![h] = x]
      BY <2>2, <1>9
    <2>18. /\ x.at \in {"clone", "cloning"} => Taken(x.of)
           /\ x.at = "cloning" => Listens(x.source)
           /\ x.at \in {"import", "importing"} => exported # {}
           /\ x.at = "importing" =>
                 /\ x.left \subseteq exported
                 /\ r.at = "importing" /\ r.account = x.account
                 /\ r.used \subseteq x.used
      BY <2>4, <1>1, <1>4
    <2>19. UNCHANGED <<connected, exported, waiting, asks, promised, bound, raced>>
      BY <1>1
    <2>20. r = request[h]
      OBVIOUS
    <2> HIDE DEF r, a
    <2>21. Makes(h, x, i, a, n, c)
      BY <2>5, <2>7, <2>8, <2>10, <2>13, <2>14, <2>16, <2>17, <2>18, <2>19, <2>20 DEF Makes
    <2> QED BY <2>3, <2>15, <2>21, MakeKeeps
  <1> QED BY <1>3, <1>7, <1>8, <1>9

\* The phone is told what was made, if it still waits.
LEMMA AnsweredKeeps ==
    ASSUME CopiesInv, NEW h \in Handlers, Answered(h)
    PROVE  CopiesInv'
  <1> DEFINE r == request[h]
  <1>1. /\ r.at \in {"cloning", "importing"}
        /\ request' = [request EXCEPT ![h] = NoRequest]
        /\ waiting' = IF waiting = h THEN NoWaiting ELSE waiting
        /\ UNCHANGED <<rows, connected, exported, asks, bound, raced>>
        /\ promised' =
              IF waiting # h THEN promised
              ELSE IF r.at = "cloning"
                   THEN [promised EXCEPT ![r.of] =
                            [a \in Clients |-> IF a \in r.made THEN promised[r.of][a] + 1 ELSE promised[r.of][a]]]
                   ELSE [i \in Ids |-> IF i \in r.made
                                       THEN [promised[i] EXCEPT ![r.account] = promised[i][r.account] + 1]
                                       ELSE promised[i]]
    BY DEF Answered
  <1>2. \A i \in Ids : promised[i] \in [Clients -> Nat]
    BY CopyTypes
  <1>3. /\ promised' \in [Ids -> [Clients -> Nat]]
        /\ \A i \in Ids, a \in Clients :
               \/ promised'[i][a] = promised[i][a]
               \/ /\ waiting = h /\ HasMade(request[h], i, a) /\ waiting' = NoWaiting
                  /\ promised'[i][a] = promised[i][a] + 1
    <2>1. CASE waiting # h
      BY <2>1, <1>1, CopyTypes
    <2>2. CASE waiting = h /\ r.at = "cloning"
      <3>1. r.of \in Ids /\ r.made \in SUBSET Clients
        BY <2>2, CopyTypes, RequestFacts DEF Cloning
      <3> DEFINE row == [a \in Clients |-> IF a \in r.made THEN promised[r.of][a] + 1 ELSE promised[r.of][a]]
      <3>2. promised' = [promised EXCEPT ![r.of] = row]
        BY <2>2, <1>1
      <3>3. row \in [Clients -> Nat]
        BY <3>1, <1>2
      <3>4. \A a \in Clients : row[a] = IF a \in r.made THEN promised[r.of][a] + 1 ELSE promised[r.of][a]
        OBVIOUS
      <3>5. \A i \in Ids, a \in Clients : i = r.of /\ a \in r.made => HasMade(r, i, a)
        BY <2>2 DEF HasMade
      <3>6. r = request[h]
        OBVIOUS
      <3> HIDE DEF row, r
      <3>7. promised' \in [Ids -> [Clients -> Nat]]
        BY <3>1, <3>2, <3>3, CopyTypes
      <3>8. \A i \in Ids : promised'[i] = IF i = r.of THEN row ELSE promised[i]
        BY <3>1, <3>2, CopyTypes
      <3> QED BY <3>4, <3>5, <3>6, <3>7, <3>8, <2>2, <1>1
    <2>3. CASE waiting = h /\ r.at = "importing"
      <3>1. r.account \in Clients /\ r.made \in SUBSET Ids
        BY <2>3, CopyTypes, RequestFacts DEF Loading
      <3>2. promised' = [i \in Ids |-> IF i \in r.made
                                       THEN [promised[i] EXCEPT ![r.account] = promised[i][r.account] + 1]
                                       ELSE promised[i]]
        BY <2>3, <1>1
      <3>3. \A i \in Ids, a \in Clients : i \in r.made /\ a = r.account => HasMade(r, i, a)
        BY <2>3 DEF HasMade
      <3>4. r = request[h]
        OBVIOUS
      <3> HIDE DEF r
      <3>5. ASSUME NEW i \in Ids
            PROVE  /\ promised'[i] \in [Clients -> Nat]
                   /\ \A a \in Clients : promised'[i][a] =
                         IF i \in r.made /\ a = r.account THEN promised[i][a] + 1 ELSE promised[i][a]
        <4>1. promised'[i] = IF i \in r.made
                             THEN [promised[i] EXCEPT ![r.account] = promised[i][r.account] + 1]
                             ELSE promised[i]
          BY <3>2
        <4>2. promised[i][r.account] + 1 \in Nat /\ promised[i] \in [Clients -> Nat]
          BY <3>1, <1>2
        <4> QED BY <4>1, <4>2, <3>1
      <3>6. promised' \in [Ids -> [Clients -> Nat]]
        <4>1. promised' = [i \in Ids |-> promised'[i]]
          BY <3>2
        <4> QED BY <4>1, <3>5
      <3> QED BY <3>3, <3>4, <3>5, <3>6, <2>3, <1>1
    <2> QED BY <2>1, <2>2, <2>3, <1>1
  <1>4. waiting' \in {NoWaiting, waiting}
    BY <1>1
  <1> HIDE DEF r
  <1> QED BY <1>1, <1>3, <1>4, EndKeeps

\* The export is what is on the screen, and there was none before.
LEMMA ExportKeeps ==
    ASSUME CopiesInv, Export
    PROVE  CopiesInv'
  <1> DEFINE entry(i) == [of |-> i, from |-> rows[i].account, post |-> rows[i].post, next |-> rows[i].next,
                          any |-> rows[i].any, dm |-> rows[i].dm]
             Own == {j \in Live : rows[j].of = j}
  <1>1. /\ exported = {} /\ exported' = {entry(i) : i \in Own}
        /\ UNCHANGED <<rows, connected, request, waiting, asks, promised, bound, raced>>
    BY DEF Export
  <1>2. \A i \in Own : /\ i \in Live /\ i \in Ids /\ Taken(i) /\ rows[i] \in CopyRows
                      /\ rows[i].account \in Clients
    BY LiveFacts
  <1>3. \A i \in Own : entry(i) \in Entries
    BY <1>2 DEF CopyRows, Entries
  <1>4. IsFiniteSet(exported')
    <2>1. IsFiniteSet(Own)
      BY CountFacts, FS_Subset DEF Live
    <2> DEFINE f == [i \in Own |-> entry(i)]
    <2>2. f \in [Own -> exported'] /\ \A t \in exported' : \E i \in Own : f[i] = t
      BY <1>1
    <2> HIDE DEF f
    <2>3. f \in Surjection(Own, exported')
      BY <2>2 DEF Surjection
    <2> QED BY <2>1, <2>3, FS_Surjection
  <1>5. CopiesStates'
    <2>1. exported' \subseteq Entries
      BY <1>1, <1>3
    <2> QED BY <2>1, <1>1, <1>4, CopyTypes DEF CopiesStates
  <1>6. RowsFit' /\ PostsBelong'
    BY <1>1 DEF CopiesInv, RowsFit, PostsBelong, Live, Taken, Listens
  <1>7. EntriesFit'
    <2>1. \A e \in exported' : \E i \in Own : e = entry(i)
      BY <1>1
    <2>2. ASSUME NEW e \in exported'
          PROVE  rows'[e.of] # NoCampaign /\ (e.post # Unbound => PostOwner[e.post] = e.from /\ ~e.next /\ ~e.any)
      <3>1. PICK i \in Own : e = entry(i)
        BY <2>1
      <3>2. e.of = i /\ e.post = rows[i].post /\ e.from = rows[i].account /\ e.next = rows[i].next /\ e.any = rows[i].any
        BY <3>1
      <3>3. rows[i].post # Unbound => PostOwner[rows[i].post] = rows[i].account
        BY <1>2 DEF CopiesInv, PostsBelong
      <3>4. Listens(rows[i])
        BY <1>2 DEF CopiesInv, RowsFit
      <3>5. rows[i].next \in BOOLEAN /\ rows[i].any \in BOOLEAN
        BY <1>2 DEF CopyRows
      <3> QED BY <3>2, <3>3, <3>4, <3>5, <1>1, <1>2 DEF Listens, Taken
    <2>3. ASSUME NEW e \in exported', NEW f \in exported', e.of = f.of
          PROVE  e = f
      <3>1. PICK i \in Own : e = entry(i)
        BY <2>1
      <3>2. PICK j \in Own : f = entry(j)
        BY <2>1
      <3>3. i = j
        BY <2>3, <3>1, <3>2
      <3> QED BY <3>1, <3>2, <3>3
    <2> QED BY <2>2, <2>3 DEF EntriesFit, Taken
  <1>8. \A g \in Handlers : request[g].at \notin {"import", "importing"}
    BY <1>1 DEF CopiesInv, RequestsFit
  <1>9. RequestsFit'
    BY <1>1, <1>8 DEF CopiesInv, RequestsFit, Taken, Listens
  <1>10. \A g \in Handlers : \A i, a : (ToCome(request[g], i, a)' <=> ToCome(request[g], i, a))
                               /\ (HasMade(request[g], i, a)' <=> HasMade(request[g], i, a))
    BY <1>1, <1>8 DEF ToCome, HasMade
  <1>11. \A i, a : AskedFor(i, a)' = AskedFor(i, a) /\ Copies(i, a)' = Copies(i, a)
    BY <1>1, <1>10 DEF AskedFor, Copies, Live
  <1>12. CopiesWereAsked'
    BY <1>1, <1>11 DEF CopiesInv, CopiesWereAsked
  <1>13. waiting # NoWaiting => \A i, a : (ToCome(request[waiting], i, a)' <=> ToCome(request[waiting], i, a))
                                      /\ (HasMade(request[waiting], i, a)' <=> HasMade(request[waiting], i, a))
    BY <1>1, <1>8, CopyTypes DEF ToCome, HasMade
  <1>14. PromisesAreKept'
    BY <1>1, <1>11, <1>13 DEF CopiesInv, PromisesAreKept
  <1>15. PromisesWereAsked'
    BY <1>1, <1>13 DEF CopiesInv, PromisesWereAsked
  <1>16. PostsAreKnown' /\ ImportsRace' /\ TwinPostsAreRaces'
    BY <1>1 DEF CopiesInv, PostsAreKnown, ImportsRace, TwinPostsAreRaces, Importing, Live
  <1> QED BY <1>5, <1>6, <1>7, <1>9, <1>12, <1>14, <1>15, <1>16 DEF CopiesInv

\* The campaigns change their posts or lose their account, none is new or of
\* another: what was asked for and promised is as before on the accounts that stay.
LEMMA CountsStay ==
    ASSUME CopiesInv, UNCHANGED <<exported, request, waiting, asks, promised>>,
           connected' \subseteq connected,
           \A i \in Ids : rows'[i].of = rows[i].of \/ ~Taken(i),
           \A i \in Ids, a \in connected' :
               (i \in Live' /\ rows'[i].account = a) <=> (i \in Live /\ rows[i].account = a)
    PROVE  CopiesWereAsked' /\ PromisesAreKept' /\ PromisesWereAsked'
  <1>1. ASSUME NEW i \in Ids, NEW a \in connected'
        PROVE  Copies(i, a)' = Copies(i, a)
    <2>1. \A j \in Live : Taken(j) /\ j \in Ids
      BY LiveFacts
    <2>2. \A j \in Live' : j \in Ids
      BY DEF Live
    <2>3. \A j : (j \in Live' /\ rows'[j].of = i /\ j # i /\ rows'[j].account = a)
                   <=> (j \in Live /\ rows[j].of = i /\ j # i /\ rows[j].account = a)
      BY <2>1, <2>2
    <2>4. {j \in Live' : rows'[j].of = i /\ j # i /\ rows'[j].account = a}
             = {j \in Live : rows[j].of = i /\ j # i /\ rows[j].account = a}
      BY <2>3
    <2> QED BY <2>4 DEF Copies
  <1>2. \A r, i, a : (ToCome(r, i, a)' <=> ToCome(r, i, a)) /\ (HasMade(r, i, a)' <=> HasMade(r, i, a))
    BY DEF ToCome, HasMade
  <1>3. \A i, a : AskedFor(i, a)' = AskedFor(i, a)
    BY DEF AskedFor, ToCome
  <1>4. \A i, a : (ToCome(request[waiting], i, a)' <=> ToCome(request[waiting], i, a))
             /\ (HasMade(request[waiting], i, a)' <=> HasMade(request[waiting], i, a))
    BY DEF ToCome, HasMade
  <1>5. CopiesWereAsked'
    BY <1>1, <1>3 DEF CopiesInv, CopiesWereAsked
  <1>6. PromisesAreKept'
    BY <1>1, <1>4 DEF CopiesInv, PromisesAreKept
  <1>7. PromisesWereAsked'
    BY <1>4 DEF CopiesInv, PromisesWereAsked
  <1> QED BY <1>5, <1>6, <1>7

\* What binding changes in a campaign.
LEMMA BoundRow ==
    ASSUME NEW r \in CopyRows, NEW p \in Posts
    PROVE  [r EXCEPT !.post = p, !.next = FALSE]
              = [account |-> r.account, post |-> p, next |-> FALSE, any |-> r.any, dm |-> r.dm, of |-> r.of]
  <1>1. \A q \in CopyRows, b \in Posts :
           [q EXCEPT !.post = b]
              = [account |-> q.account, post |-> b, next |-> q.next, any |-> q.any, dm |-> q.dm, of |-> q.of]
    BY DEF CopyRows
  <1>2. \A q \in CopyRows, b \in BOOLEAN :
           [q EXCEPT !.next = b]
              = [account |-> q.account, post |-> q.post, next |-> b, any |-> q.any, dm |-> q.dm, of |-> q.of]
    BY DEF CopyRows
  <1> DEFINE q == [account |-> r.account, post |-> p, next |-> r.next, any |-> r.any, dm |-> r.dm, of |-> r.of]
  <1>3. q \in CopyRows
    BY DEF CopyRows
  <1>4. /\ q.account = r.account /\ q.post = p /\ q.any = r.any /\ q.dm = r.dm /\ q.of = r.of
    OBVIOUS
  <1>5. [r EXCEPT !.post = p] = q
    BY <1>1
  <1> HIDE DEF q
  <1>6. [q EXCEPT !.next = FALSE]
              = [account |-> r.account, post |-> p, next |-> FALSE, any |-> r.any, dm |-> r.dm, of |-> r.of]
    BY <1>2, <1>3, <1>4
  <1> QED BY <1>5, <1>6, Zenon

\* The campaigns of an account that is disconnected.
LEMMA GoneRow ==
    ASSUME NEW r \in CopyRows
    PROVE  [r EXCEPT !.account = "gone"]
              = [account |-> "gone", post |-> r.post, next |-> r.next, any |-> r.any, dm |-> r.dm, of |-> r.of]
  BY DEF CopyRows

\* A campaign is bound to a post of its account.
LEMMA BindKeeps ==
    ASSUME CopiesInv, NEW i \in Ids, Bind(i)
    PROVE  CopiesInv'
  <1>1. /\ i \in Live /\ rows[i].next /\ bound' = bound \cup {i}
        /\ UNCHANGED <<connected, exported, request, waiting, asks, promised, raced>>
    BY DEF Bind
  <1>2. PICK p \in Posts : /\ PostOwner[p] = rows[i].account
                           /\ rows' = [rows EXCEPT ![i].post = p, ![i].next = FALSE]
    BY DEF Bind
  <1>3. Taken(i) /\ rows[i] \in CopyRows /\ rows[i].account \in Clients /\ Listens(rows[i])
    BY <1>1, LiveFacts DEF CopiesInv, RowsFit
  <1> DEFINE c == [account |-> rows[i].account, post |-> p, next |-> FALSE, any |-> rows[i].any,
                   dm |-> rows[i].dm, of |-> rows[i].of]
  <1>4. [rows[i] EXCEPT !.post = p, !.next = FALSE] = c
    BY <1>3, BoundRow
  <1>5. rows' = [rows EXCEPT ![i] = c]
    <2>1. rows' = [rows EXCEPT ![i] = [rows[i] EXCEPT !.post = p, !.next = FALSE]]
      BY <1>2, CopyTypes
    <2> QED BY <2>1, <1>4, Zenon
  <1>6. /\ c.account = rows[i].account /\ c.post = p /\ c.next = FALSE /\ c.any = rows[i].any
        /\ c.dm = rows[i].dm /\ c.of = rows[i].of
    OBVIOUS
  <1>7. c \in CopyRows /\ p # Unbound
    BY <1>3, CopiesAssumption DEF CopyRows, Unbound
  <1>8. Listens(c)
    BY <1>1, <1>3, <1>6, <1>7 DEF Listens
  <1> HIDE DEF c
  <1>9. rows'[i] = c /\ \A j \in Ids \ {i} : rows'[j] = rows[j]
    BY <1>5, CopyTypes
  <1>10. c # NoCampaign
    <2>1. c.account # "none"
      BY <1>3, <1>6, CopiesAssumption
    <2>2. NoCampaign.account = "none"
      BY DEF NoCampaign
    <2> QED BY <2>1, <2>2
  <1>11. Live' = Live /\ \A j \in Ids : Taken(j)' = Taken(j)
    BY <1>1, <1>3, <1>6, <1>9, <1>10 DEF Live, Taken
  <1>12. \A j \in Ids : rows'[j].account = rows[j].account /\ rows'[j].of = rows[j].of
    BY <1>6, <1>9
  <1>13. CopiesStates'
    <2>1. rows' \in [Ids -> CopyRows \cup {NoCampaign}]
      BY <1>5, <1>7, CopyTypes
    <2> QED BY <2>1, <1>1, CopyTypes DEF CopiesStates
  <1>14. RowsFit'
    <2> SUFFICES ASSUME NEW j \in Ids, Taken(j)'
                 PROVE  /\ Listens(rows'[j]) /\ rows'[rows'[j].of] # NoCampaign /\ rows'[j].of \in 1 .. j
                        /\ \A k \in Ids : k < j => Taken(k)'
      BY DEF RowsFit, Listens, Taken
    <2>1. Taken(j) /\ rows'[j].of = rows[j].of
      BY <1>11, <1>12
    <2>2. /\ Listens(rows[j]) /\ Taken(rows[j].of) /\ rows[j].of \in 1 .. j
          /\ \A k \in Ids : k < j => Taken(k)
      BY <2>1 DEF CopiesInv, RowsFit
    <2>3. rows[j].of \in Ids
      BY <2>2, CopyTypes DEF Ids
    <2>4. Listens(rows'[j])
      BY <2>2, <1>8, <1>9
    <2>5. rows'[rows[j].of] # NoCampaign
      BY <2>2, <2>3, <1>11 DEF Taken
    <2> QED BY <2>1, <2>2, <2>4, <2>5, <1>11
  <1>15. PostsBelong'
    BY <1>2, <1>6, <1>9, <1>11, LiveFacts DEF CopiesInv, PostsBelong
  <1>16. EntriesFit'
    BY <1>1, <1>11, CopyTypes DEF CopiesInv, EntriesFit, Entries
  <1>17. RequestsFit'
    <2>1. \A g \in Handlers : request[g].at \in {"clone", "cloning"} => request[g].of \in Ids
      BY CopyTypes, RequestFacts DEF Asking, Cloning
    <2> QED BY <2>1, <1>1, <1>11 DEF CopiesInv, RequestsFit, Listens
  <1>18. CopiesWereAsked' /\ PromisesAreKept' /\ PromisesWereAsked'
    BY <1>1, <1>11, <1>12, CountsStay
  <1>19. \A j \in Live' \ bound' : j \in Live \ bound /\ rows'[j] = rows[j]
    BY <1>1, <1>9, <1>11, LiveFacts
  <1>20. PostsAreKnown' /\ ImportsRace'
    BY <1>1, <1>19 DEF CopiesInv, PostsAreKnown, ImportsRace, Importing
  <1>21. TwinPostsAreRaces'
    <2> SUFFICES ASSUME NEW j \in Live', NEW k \in Live', j # k, rows'[j].post = rows'[k].post,
                        rows'[j].post # Unbound, j \notin bound', k \notin bound'
                 PROVE  rows'[j].account \in raced
      BY <1>1 DEF TwinPostsAreRaces
    <2> QED BY <1>19 DEF CopiesInv, TwinPostsAreRaces
  <1> QED BY <1>13, <1>14, <1>15, <1>16, <1>17, <1>18, <1>20, <1>21 DEF CopiesInv

\* An account is disconnected.
LEMMA DisconnectKeeps ==
    ASSUME CopiesInv, NEW a \in Clients, Disconnect(a)
    PROVE  CopiesInv'
  <1>1. /\ a \in connected /\ connected' = connected \ {a}
        /\ rows' = [i \in Ids |-> IF rows[i].account = a THEN [rows[i] EXCEPT !.account = "gone"] ELSE rows[i]]
        /\ UNCHANGED <<exported, request, waiting, asks, promised, bound, raced>>
    BY DEF Disconnect
  <1>2. "gone" \notin Clients /\ "gone" # "none" /\ a # "none"
    BY CopiesAssumption
  <1>3. ASSUME NEW i \in Ids, rows[i].account = a
        PROVE  /\ rows'[i] \in CopyRows /\ rows'[i].account = "gone" /\ rows'[i] # NoCampaign /\ Taken(i)
               /\ rows'[i].of = rows[i].of /\ Listens(rows'[i])
    <2>1. i \in Live
      BY <1>3 DEF Live
    <2>2. rows[i] \in CopyRows /\ Taken(i) /\ Listens(rows[i])
      BY <2>1, LiveFacts DEF CopiesInv, RowsFit
    <2>3. rows'[i] = [rows[i] EXCEPT !.account = "gone"]
      BY <1>1, <1>3
    <2>4. rows'[i] = [account |-> "gone", post |-> rows[i].post, next |-> rows[i].next, any |-> rows[i].any,
                      dm |-> rows[i].dm, of |-> rows[i].of]
      BY <2>2, <2>3, GoneRow
    <2>5. /\ rows'[i].account = "gone" /\ rows'[i].of = rows[i].of /\ rows'[i].post = rows[i].post
          /\ rows'[i].next = rows[i].next /\ rows'[i].any = rows[i].any /\ rows'[i].dm = rows[i].dm
      BY <2>4
    <2>6. rows'[i] \in CopyRows
      BY <2>2, <2>4 DEF CopyRows
    <2>7. Listens(rows'[i])
      BY <2>2, <2>5 DEF Listens
    <2> QED BY <2>2, <2>5, <2>6, <2>7 DEF NoCampaign
  <1>4. \A i \in Ids : rows[i].account # a => rows'[i] = rows[i]
    BY <1>1
  <1>5. \A i \in Ids : Taken(i)' = Taken(i)
    BY <1>3, <1>4 DEF Taken
  <1>6. \A i \in Live' : i \in Live /\ i \in Ids /\ rows'[i] = rows[i] /\ rows[i].account # a
    BY <1>2, <1>3, <1>4 DEF Live
  <1>7. \A i \in Live : rows[i].account # a => i \in Live'
    BY <1>4 DEF Live
  <1>8. \A i \in Ids : rows'[i].of = rows[i].of \/ ~Taken(i)
    BY <1>3, <1>4
  <1>9. CopiesStates'
    <2>1. \A i \in Ids : rows'[i] \in CopyRows \cup {NoCampaign}
      BY <1>3, <1>4, CopyTypes
    <2>2. rows' \in [Ids -> CopyRows \cup {NoCampaign}]
      <3>1. rows' = [i \in Ids |-> rows'[i]]
        BY <1>1
      <3> QED BY <3>1, <2>1
    <2> QED BY <2>2, <1>1, CopyTypes DEF CopiesStates
  <1>10. RowsFit'
    <2> SUFFICES ASSUME NEW j \in Ids, Taken(j)'
                 PROVE  /\ Listens(rows'[j]) /\ rows'[rows'[j].of] # NoCampaign /\ rows'[j].of \in 1 .. j
                        /\ \A k \in Ids : k < j => Taken(k)'
      BY DEF RowsFit, Listens, Taken
    <2>1. Taken(j) /\ rows'[j].of = rows[j].of
      BY <1>5, <1>8
    <2>2. /\ Listens(rows[j]) /\ Taken(rows[j].of) /\ rows[j].of \in 1 .. j
          /\ \A k \in Ids : k < j => Taken(k)
      BY <2>1 DEF CopiesInv, RowsFit
    <2>3. rows[j].of \in Ids
      BY <2>2, CopyTypes DEF Ids
    <2>4. Listens(rows'[j])
      BY <2>2, <1>3, <1>4
    <2>5. rows'[rows[j].of] # NoCampaign
      BY <2>2, <2>3, <1>5 DEF Taken
    <2> QED BY <2>1, <2>2, <2>4, <2>5, <1>5
  <1>11. PostsBelong'
    BY <1>6 DEF CopiesInv, PostsBelong
  <1>12. EntriesFit'
    BY <1>1, <1>5, CopyTypes DEF CopiesInv, EntriesFit, Entries
  <1>13. RequestsFit'
    <2>1. \A g \in Handlers : request[g].at \in {"clone", "cloning"} => request[g].of \in Ids
      BY CopyTypes, RequestFacts DEF Asking, Cloning
    <2> QED BY <2>1, <1>1, <1>5 DEF CopiesInv, RequestsFit, Listens
  <1>14. CopiesWereAsked' /\ PromisesAreKept' /\ PromisesWereAsked'
    <2>1. \A i \in Ids, b \in connected' :
             (i \in Live' /\ rows'[i].account = b) <=> (i \in Live /\ rows[i].account = b)
      BY <1>1, <1>6, <1>7, <1>4
    <2> QED BY <2>1, <1>1, <1>8, CountsStay
  <1>15. PostsAreKnown' /\ ImportsRace' /\ TwinPostsAreRaces'
    BY <1>1, <1>6 DEF CopiesInv, PostsAreKnown, ImportsRace, TwinPostsAreRaces, Importing
  <1> QED BY <1>9, <1>10, <1>11, <1>12, <1>13, <1>14, <1>15 DEF CopiesInv

\* Two campaigns, nothing asked for.
LEMMA CopiesStarts ==
    ASSUME CopiesInit
    PROVE  CopiesInv
  <1>1. PICK a \in Clients, kind \in {"post", "next", "any", "dm"}, p \in Posts :
          /\ PostOwner[p] = a
          /\ rows = [i \in Ids |->
                        CASE i = 1 -> Campaign(a, IF kind = "post" THEN p ELSE Unbound, kind = "next",
                                               kind = "any", kind = "dm", 1)
                          [] i = 2 -> Campaign(a, Unbound, FALSE, TRUE, FALSE, 2)
                          [] OTHER -> NoCampaign]
    BY DEF CopiesInit
  <1>2. /\ connected = Clients /\ exported = {} /\ request = [h \in Handlers |-> NoRequest]
        /\ waiting = NoWaiting /\ asks = [i \in Ids |-> [b \in Clients |-> 0]]
        /\ promised = [i \in Ids |-> [b \in Clients |-> 0]] /\ bound = {} /\ raced = {}
    BY DEF CopiesInit
  <1>3. a # "none" /\ p # Unbound /\ MaxAsks \in Nat /\ MaxRows \in Nat
    BY CopiesAssumption DEF Unbound
  <1>4. ASSUME NEW i \in Ids
        PROVE  /\ i \in {1, 2} => /\ rows[i] \in CopyRows /\ rows[i].of = i /\ rows[i].account = a
                                  /\ rows[i] # NoCampaign /\ Listens(rows[i])
                                  /\ rows[i].post \in {p, Unbound}
               /\ i = 2 => rows[i].post = Unbound
               /\ i \notin {1, 2} => rows[i] = NoCampaign
    <2>1. CASE i = 1
      <3>1. rows[i] = Campaign(a, IF kind = "post" THEN p ELSE Unbound, kind = "next", kind = "any", kind = "dm", 1)
        BY <2>1, <1>1
      <3>2. /\ rows[i].account = a /\ rows[i].post = (IF kind = "post" THEN p ELSE Unbound)
            /\ rows[i].next = (kind = "next") /\ rows[i].any = (kind = "any") /\ rows[i].dm = (kind = "dm")
            /\ rows[i].of = 1
        BY <3>1 DEF Campaign
      <3>3. rows[i] \in CopyRows
        BY <3>1, <2>1 DEF Campaign, CopyRows
      <3>4. Listens(rows[i])
        BY <3>2, <1>3 DEF Listens
      <3>5. rows[i] # NoCampaign
        BY <3>2, <1>3 DEF NoCampaign
      <3> QED BY <3>2, <3>3, <3>4, <3>5, <2>1
    <2>2. CASE i = 2
      <3>1. rows[i] = Campaign(a, Unbound, FALSE, TRUE, FALSE, 2)
        BY <2>2, <1>1
      <3>2. /\ rows[i].account = a /\ rows[i].post = Unbound /\ rows[i].next = FALSE /\ rows[i].any = TRUE
            /\ rows[i].of = 2
        BY <3>1 DEF Campaign
      <3>3. rows[i] \in CopyRows
        BY <3>1, <2>2 DEF Campaign, CopyRows
      <3>4. Listens(rows[i])
        BY <3>2 DEF Listens
      <3>5. rows[i] # NoCampaign
        BY <3>2, <1>3 DEF NoCampaign
      <3> QED BY <3>2, <3>3, <3>4, <3>5, <2>2
    <2>3. CASE i \notin {1, 2}
      BY <2>3, <1>1
    <2> QED BY <2>1, <2>2, <2>3
  <1>5. \A i \in Ids : i \in Nat /\ i >= 1 /\ \A j \in 1 .. i : j \in Ids
    BY <1>3 DEF Ids
  <1>6. \A i \in Ids : (Taken(i) <=> i \in {1, 2})
    BY <1>4 DEF Taken
  <1>7. \A i \in Live : i \in {1, 2} /\ i \in Ids
    <2>1. NoCampaign.account \notin Clients
      BY CopiesAssumption DEF NoCampaign
    <2> QED BY <2>1, <1>4 DEF Live
  <1>8. CopiesStates
    <2>1. \A i \in Ids : rows[i] \in CopyRows \cup {NoCampaign}
      BY <1>4
    <2>2. rows \in [Ids -> CopyRows \cup {NoCampaign}]
      <3>1. rows = [i \in Ids |-> rows[i]]
        BY <1>1
      <3> QED BY <3>1, <2>1
    <2>3. request \in [Handlers -> CopyRequests]
      BY <1>2, RequestFacts
    <2>4. exported \subseteq Entries /\ IsFiniteSet(exported)
      BY <1>2, FS_EmptySet
    <2> QED BY <2>2, <2>3, <2>4, <1>2, <1>3 DEF CopiesStates
  <1>9. RowsFit
    <2> SUFFICES ASSUME NEW i \in Ids, Taken(i)
                 PROVE  /\ Listens(rows[i]) /\ Taken(rows[i].of) /\ rows[i].of \in 1 .. i
                        /\ \A j \in Ids : j < i => Taken(j)
      BY DEF RowsFit
    <2>1. i \in {1, 2} /\ rows[i].of = i /\ Listens(rows[i])
      BY <1>4, <1>6
    <2>2. i \in 1 .. i
      BY <1>5
    <2>3. \A j \in Ids : j < i => j \in {1, 2}
      BY <2>1, <1>5
    <2> QED BY <2>1, <2>2, <2>3, <1>6
  <1>10. PostsBelong
    <2> SUFFICES ASSUME NEW i \in Live, rows[i].post # Unbound
                 PROVE  PostOwner[rows[i].post] = rows[i].account
      BY DEF PostsBelong
    <2>1. rows[i].post = p /\ rows[i].account = a
      BY <1>4, <1>7
    <2>2. PostOwner[p] = a
      BY <1>1
    <2> QED BY <2>1, <2>2
  <1>11. EntriesFit
    BY <1>2 DEF EntriesFit
  <1>12. \A h \in Handlers : request[h].at = "idle"
    BY <1>2, RequestFacts
  <1>13. RequestsFit /\ PostsAreKnown /\ ImportsRace
    BY <1>12 DEF RequestsFit, PostsAreKnown, ImportsRace, Importing
  <1>14. \A i \in Ids : \A b : Copies(i, b) = 0 /\ Cardinality(AskedFor(i, b)) = 0
    <2> SUFFICES ASSUME NEW i \in Ids, NEW b
                 PROVE  Copies(i, b) = 0 /\ Cardinality(AskedFor(i, b)) = 0
      OBVIOUS
    <2>1. {j \in Live : rows[j].of = i /\ j # i /\ rows[j].account = b} = {}
      BY <1>4, <1>7
    <2>2. AskedFor(i, b) = {}
      BY <1>12 DEF AskedFor, ToCome
    <2> QED BY <2>1, <2>2, FS_EmptySet DEF Copies
  <1>15. \A i \in Ids, b \in Clients : asks[i][b] = 0 /\ promised[i][b] = 0
    BY <1>2
  <1>16. CopiesWereAsked
    BY <1>2, <1>14, <1>15 DEF CopiesWereAsked
  <1>17. PromisesAreKept /\ PromisesWereAsked
    BY <1>2, <1>14, <1>15 DEF PromisesAreKept, PromisesWereAsked
  <1>18. TwinPostsAreRaces
    <2> SUFFICES ASSUME NEW i \in Live, NEW j \in Live, i # j, rows[i].post = rows[j].post,
                        rows[i].post # Unbound
                 PROVE  FALSE
      BY DEF TwinPostsAreRaces
    <2>1. i = 2 \/ j = 2
      BY <1>7
    <2> QED BY <2>1, <1>4, <1>7
  <1> QED BY <1>8, <1>9, <1>10, <1>11, <1>13, <1>16, <1>17, <1>18 DEF CopiesInv

\* Every step keeps the invariant.
LEMMA CopiesInvariant ==
    CopiesInv /\ [CopiesNext]_copiesVars => CopiesInv'
  <1> SUFFICES ASSUME CopiesInv, [CopiesNext]_copiesVars PROVE CopiesInv'
    OBVIOUS
  <1>1. CASE \E h \in Handlers, i \in Ids, s \in SUBSET Clients : SubmitClone(h, i, s)
    BY <1>1, SubmitCloneKeeps
  <1>2. CASE \E h \in Handlers, a \in Clients : SubmitImport(h, a)
    BY <1>2, SubmitImportKeeps
  <1>3. CASE \E h \in Handlers : ReadSource(h)
    BY <1>3, ReadSourceKeeps
  <1>4. CASE \E h \in Handlers : CloneOne(h)
    BY <1>4, CloneOneKeeps
  <1>5. CASE \E h \in Handlers : ReadUsedPosts(h)
    BY <1>5, ReadUsedPostsKeeps
  <1>6. CASE \E h \in Handlers : ImportOne(h)
    BY <1>6, ImportOneKeeps
  <1>7. CASE \E h \in Handlers : Answered(h)
    BY <1>7, AnsweredKeeps
  <1>8. CASE \E h \in Handlers : RequestFails(h)
    BY <1>8, RequestFailsKeeps
  <1>9. CASE Export
    BY <1>9, ExportKeeps
  <1>10. CASE GiveUp
    BY <1>10, GiveUpKeeps
  <1>11. CASE \E i \in Ids : Bind(i)
    BY <1>11, BindKeeps
  <1>12. CASE \E a \in Clients : Disconnect(a)
    BY <1>12, DisconnectKeeps
  <1>13. CASE UNCHANGED copiesVars
    <2>1. /\ rows' = rows /\ connected' = connected /\ exported' = exported /\ request' = request
          /\ waiting' = waiting /\ asks' = asks /\ promised' = promised /\ bound' = bound /\ raced' = raced
      BY <1>13 DEF copiesVars
    <2>2. CopiesStates' /\ RowsFit' /\ PostsBelong'
      BY <2>1 DEF CopiesInv, CopiesStates, RowsFit, PostsBelong, Live, Taken, Listens
    <2>3. EntriesFit' /\ RequestsFit'
      BY <2>1 DEF CopiesInv, EntriesFit, RequestsFit, Taken, Listens
    <2>4. CopiesWereAsked' /\ PromisesAreKept' /\ PromisesWereAsked'
      BY <2>1 DEF CopiesInv, CopiesWereAsked, PromisesAreKept, PromisesWereAsked, Copies, AskedFor,
                  ToCome, HasMade, Live
    <2>5. PostsAreKnown' /\ ImportsRace' /\ TwinPostsAreRaces'
      BY <2>1 DEF CopiesInv, PostsAreKnown, ImportsRace, TwinPostsAreRaces, Importing, Live
    <2> QED BY <2>2, <2>3, <2>4, <2>5 DEF CopiesInv
  <1> QED BY <1>1, <1>2, <1>3, <1>4, <1>5, <1>6, <1>7, <1>8, <1>9, <1>10, <1>11, <1>12, <1>13
          DEF CopiesNext

\* What the invariant says of copies, posts and promises.
LEMMA InvMakesCopiesSound ==
    CopiesInv => CopiesAreSound
  <1> SUFFICES ASSUME CopiesInv PROVE CopiesAreSound
    OBVIOUS
  <1>1. \A i \in Live : i \in Ids /\ Taken(i) /\ Listens(rows[i])
    BY LiveFacts DEF CopiesInv, RowsFit
  <1>2. PostsStayWithTheirAccount /\ TwinPostsAreRaces
    BY DEF CopiesInv, PostsBelong, PostsStayWithTheirAccount
  <1>3. CopiesListen
    BY <1>1 DEF CopiesListen, Listens
  <1>4. CopiesMatchAsks
    <2> SUFFICES ASSUME NEW i \in Live, NEW a \in connected
                 PROVE  promised[i][a] <= Copies(i, a) /\ Copies(i, a) <= asks[i][a]
      BY DEF CopiesMatchAsks
    <2>1. i \in Ids /\ a \in Clients
      BY <1>1, CopyTypes
    <2>2. promised[i][a] <= Copies(i, a)
      BY <2>1 DEF CopiesInv, PromisesAreKept
    <2>3. Copies(i, a) + Cardinality(AskedFor(i, a)) <= asks[i][a]
      BY <2>1 DEF CopiesInv, CopiesWereAsked
    <2>4. Copies(i, a) \in Nat /\ Cardinality(AskedFor(i, a)) \in Nat /\ asks[i][a] \in Nat
      BY <2>1, CountFacts, CopyTypes
    <2> QED BY <2>2, <2>3, <2>4
  <1>5. promised \in [Ids -> [Clients -> 0 .. MaxAsks]]
    <2>1. \A i \in Ids, a \in Clients : promised[i][a] \in 0 .. MaxAsks
      <3> SUFFICES ASSUME NEW i \in Ids, NEW a \in Clients PROVE promised[i][a] \in 0 .. MaxAsks
        OBVIOUS
      <3>1. promised[i][a] <= asks[i][a]
        BY DEF CopiesInv, PromisesWereAsked
      <3>2. promised[i][a] \in Nat /\ asks[i][a] \in 0 .. MaxAsks /\ MaxAsks \in Nat
        BY CopyTypes
      <3> QED BY <3>1, <3>2
    <2>2. \A i \in Ids : promised[i] \in [Clients -> 0 .. MaxAsks]
      BY <2>1, CopyTypes
    <2> QED BY <2>2, CopyTypes
  <1>6. CopiesTypeOK
    <2>1. \A i \in Ids : \/ rows[i] = NoCampaign
                         \/ /\ rows[i].account \in Clients \cup {"gone"}
                            /\ rows[i].post \in Posts \cup {Unbound}
                            /\ rows[i].any => ~rows[i].next
                            /\ rows[i].any \/ rows[i].next => rows[i].post = Unbound
                            /\ rows[i].of \in 1 .. i
      <3> SUFFICES ASSUME NEW i \in Ids, Taken(i)
                   PROVE  /\ rows[i].account \in Clients \cup {"gone"}
                          /\ rows[i].post \in Posts \cup {Unbound}
                          /\ Listens(rows[i]) /\ rows[i].of \in 1 .. i
        BY DEF Taken, Listens
      <3>1. rows[i] \in CopyRows
        BY LiveFacts
      <3> QED BY <3>1 DEF CopiesInv, RowsFit, CopyRows
    <2>2. \A h \in Handlers : request[h].at \in {"idle", "clone", "cloning", "import", "importing", "failed"}
      BY CopyTypes, RequestFacts
    <2> QED BY <2>1, <2>2, <1>5, CopyTypes DEF CopiesTypeOK
  <1> QED BY <1>2, <1>3, <1>4, <1>6 DEF CopiesAreSound

\* Clones and imports, some asked for twice, some given up on, some failing half
\* way: copies are no fewer than reported and no more than asked for, each listens
\* to something, on a post of its own account or none, and two are on one post only
\* where two imports overlapped or a sweep bound one of them.
THEOREM CopiesHold == CopiesSpec => []CopiesAreSound
  <1>1. CopiesInit => CopiesInv
    BY CopiesStarts
  <1>2. CopiesInv /\ [CopiesNext]_copiesVars => CopiesInv'
    BY CopiesInvariant
  <1>3. CopiesInv => CopiesAreSound
    BY InvMakesCopiesSound
  <1> QED BY <1>1, <1>2, <1>3, PTL DEF CopiesSpec

-----------------------------------------------------------------------------
(* PushDevices: the invariant                                              *)

PushJobs == [at : {"idle", "send", "disable"}, kind : AlertKinds, to : SUBSET (1 .. fcm), attempts : 0 .. MaxAttempts]

\* A row is of a token the phone has had, with all preferences on until somebody
\* registers it; the token the phone keeps was registered.
RowsAreRegistered ==
    /\ \A t \in Tokens : /\ device[t].user # Nobody => t <= fcm
                         /\ device[t].user = Nobody => device[t].on = AllOn
    /\ tokenKept # 0 => device[tokenKept].user # Nobody

\* What is under way was begun by somebody, for the token of now; a push that found
\* dead tokens has spared the one that lives.
AsksAreOfNow ==
    /\ enabling.at # "off" => enabling.by \in People /\ enabling.token = fcm
    /\ \A k \in AlertKinds : toggle[k].at # "off" => toggle[k].by \in People /\ tokenKept # 0
    /\ job \in PushJobs
    /\ job.at = "disable" => fcm \notin job.to

\* Until somebody signs out after a registration, the row and the registration under
\* way are of whoever is signed in.
OwnersAgree ==
    /\ ~parted => /\ signedIn = Nobody => tokenKept = 0
                  /\ tokenKept # 0 => device[tokenKept].user = signedIn
                  /\ enabling.at # "off" => enabling.by = signedIn
    /\ enabling.at = "store" => device[fcm].user = enabling.by

\* The phone's copy is the row, but for the switch whose answer is on its way into
\* the keychain.
CopyFollowsRow ==
    ~blurred =>
        /\ tokenKept \in {0, fcm}
        /\ \A k, l \in AlertKinds : toggle[k].at # "off" /\ toggle[l].at # "off" => k = l
        /\ device[fcm].user # Nobody =>
              /\ \A k \in AlertKinds : toggle[k].at \in {"read", "write"} =>
                    /\ device[fcm].on = [kept EXCEPT ![k] = toggle[k].value]
                    /\ toggle[k].at = "write" => toggle[k].read = kept
              /\ (\A k \in AlertKinds : toggle[k].at \in {"off", "patch"}) => kept = device[fcm].on

DeviceInv ==
    DevicesTypeOK /\ RowsAreRegistered /\ AsksAreOfNow /\ OwnersAgree /\ CopyFollowsRow


Prefs == [AlertKinds -> BOOLEAN]
DeviceRows == [user : People \cup {Nobody}, on : Prefs, disabled : BOOLEAN]
Toggles == [at : {"off", "patch", "read", "write"}, by : People \cup {Nobody}, value : BOOLEAN, before : Prefs, read : Prefs]

-----------------------------------------------------------------------------
(* PushDevices: the proof                                                  *)

\* The types, for the provers.
LEMMA DeviceTypes ==
    ASSUME DevicesTypeOK
    PROVE  /\ fcm \in Nat /\ fcm \in Tokens /\ MaxToken \in Nat
           /\ tokenKept \in Nat /\ tokenKept <= fcm
           /\ tokenKept # 0 => tokenKept \in Tokens
           /\ kept \in Prefs /\ switches \in Prefs
           /\ toggle \in [AlertKinds -> Toggles]
           /\ device \in [Tokens -> DeviceRows]
           /\ \A t \in Tokens : t \in Nat /\ t >= 1 /\ t <= MaxToken
  <1> USE DevicesAssumption DEF DevicesTypeOK, Tokens, Prefs, DeviceRows, Toggles
  <1>1. fcm \in Nat /\ fcm \in Tokens /\ MaxToken \in Nat
    OBVIOUS
  <1>2. tokenKept \in Nat /\ tokenKept <= fcm /\ (tokenKept # 0 => tokenKept \in Tokens)
    BY <1>1
  <1>3. kept \in Prefs /\ switches \in Prefs /\ toggle \in [AlertKinds -> Toggles]
    OBVIOUS
  <1>4. device \in [Tokens -> DeviceRows]
    OBVIOUS
  <1> QED BY <1>1, <1>2, <1>3, <1>4

\* It holds at the beginning.
LEMMA DevicesStart == DevicesInit => DeviceInv
  <1> SUFFICES ASSUME DevicesInit PROVE DeviceInv
    OBVIOUS
  <1> USE DevicesAssumption DEF DevicesInit
  <1>0. AllOn \in [AlertKinds -> BOOLEAN]
    BY DEF AllOn
  <1>1. DevicesTypeOK
    <2>1. fcm \in Tokens /\ tokenKept \in 0 .. fcm /\ 0 \in 0 .. MaxToken /\ 0 \in 0 .. MaxAttempts
      BY DEF Tokens
    <2>2. enabling \in [at : {"off", "post", "store"}, by : People \cup {Nobody}, token : 0..MaxToken]
      BY <2>1 DEF NotEnabling
    <2>3. toggle \in [AlertKinds -> [at : {"off", "patch", "read", "write"},
                             by : People \cup {Nobody}, value : BOOLEAN,
                             before : [AlertKinds -> BOOLEAN], read : [AlertKinds -> BOOLEAN]]]
      BY <1>0 DEF NoToggle
    <2>4. device \in [Tokens -> [user : People \cup {Nobody}, on : [AlertKinds -> BOOLEAN], disabled : BOOLEAN]]
      BY <1>0 DEF NoDevice
    <2>5. \A t \in Tokens : ~device[t].disabled
      BY DEF NoDevice
    <2>6. job.at = "idle" /\ job.kind \in AlertKinds /\ job.to \subseteq Tokens /\ job.attempts \in 0 .. MaxAttempts
      BY <2>1 DEF NoPush, AlertKinds
    <2> QED BY <1>0, <2>1, <2>2, <2>3, <2>4, <2>5, <2>6 DEF DevicesTypeOK
  <1>2. RowsAreRegistered
    BY DEF RowsAreRegistered, NoDevice
  <1>3. AsksAreOfNow
    BY DEF AsksAreOfNow, PushJobs, NotEnabling, NoToggle, NoPush, AlertKinds
  <1>4. OwnersAgree
    BY DEF OwnersAgree, NotEnabling
  <1>5. 1 \in Tokens
    BY DEF Tokens
  <1>6. CopyFollowsRow
    BY <1>5 DEF CopyFollowsRow, NoToggle, NoDevice
  <1> QED BY <1>1, <1>2, <1>3, <1>4, <1>6 DEF DeviceInv

\* What a person does on the phone to sign in and out, to install it again, or to look.
LEMMA PersonKeeps ==
    ASSUME DeviceInv,
           \/ \E u \in People : SignInHere(u)
           \/ SignOutHere \/ SkipPrimer \/ Focus \/ BeginEnable
    PROVE  DeviceInv' /\ UNCHANGED device
  <1> USE DevicesAssumption
  <1>0. DevicesTypeOK /\ RowsAreRegistered /\ AsksAreOfNow /\ OwnersAgree /\ CopyFollowsRow
    BY DEF DeviceInv
  <1>1. CASE \E u \in People : SignInHere(u)
    <2>1. PICK u \in People : SignInHere(u)
      BY <1>1
    <2> USE <1>0, <2>1 DEF SignInHere
    <2>2. DevicesTypeOK'
      BY DEF DevicesTypeOK
    <2>3. RowsAreRegistered' /\ AsksAreOfNow'
      BY DEF RowsAreRegistered, AsksAreOfNow, PushJobs
    <2>4. OwnersAgree'
      BY DEF OwnersAgree, AsksAreOfNow
    <2>5. CopyFollowsRow'
      BY DEF CopyFollowsRow
    <2> QED BY <2>2, <2>3, <2>4, <2>5 DEF DeviceInv
  <1>2. CASE SignOutHere
    <2> USE <1>0, <1>2 DEF SignOutHere
    <2>2. DevicesTypeOK'
      BY DEF DevicesTypeOK
    <2>3. RowsAreRegistered' /\ AsksAreOfNow'
      BY DEF RowsAreRegistered, AsksAreOfNow, PushJobs
    <2>4. OwnersAgree'
      BY DEF OwnersAgree
    <2>5. CopyFollowsRow'
      BY DEF CopyFollowsRow
    <2> QED BY <2>2, <2>3, <2>4, <2>5 DEF DeviceInv
  <1>3. CASE SkipPrimer \/ Focus
    <2> USE <1>0
    <2>1. /\ UNCHANGED <<signedIn, fcm, tokenKept, kept, enabling, toggle, device, job, parted, blurred>>
          /\ switches' \in [AlertKinds -> BOOLEAN]
      BY <1>3 DEF SkipPrimer, Focus, DevicesTypeOK
    <2>6. primer' \in BOOLEAN
      BY <1>3, Zenon DEF SkipPrimer, Focus, DevicesTypeOK
    <2>2. DevicesTypeOK'
      BY <2>1, <2>6 DEF DevicesTypeOK
    <2>3. RowsAreRegistered' /\ AsksAreOfNow'
      BY <2>1 DEF RowsAreRegistered, AsksAreOfNow, PushJobs
    <2>4. OwnersAgree'
      BY <2>1 DEF OwnersAgree
    <2>5. CopyFollowsRow'
      BY <2>1 DEF CopyFollowsRow
    <2> QED BY <2>1, <2>2, <2>3, <2>4, <2>5 DEF DeviceInv
  <1>4. CASE BeginEnable
    <2> USE <1>0, <1>4 DEF BeginEnable
    <2>1. fcm \in 0 .. MaxToken
      BY DeviceTypes
    <2>2. DevicesTypeOK'
      BY <2>1 DEF DevicesTypeOK
    <2>3. RowsAreRegistered' /\ AsksAreOfNow'
      BY DEF RowsAreRegistered, AsksAreOfNow, PushJobs, DevicesTypeOK
    <2>4. OwnersAgree'
      BY DEF OwnersAgree
    <2>5. CopyFollowsRow'
      BY DEF CopyFollowsRow
    <2> QED BY <2>2, <2>3, <2>4, <2>5 DEF DeviceInv
  <1>5. UNCHANGED device
    BY DEF SignInHere, SignOutHere, SkipPrimer, Focus, BeginEnable
  <1> QED BY <1>1, <1>2, <1>3, <1>4, <1>5

\* Another token: no row is of it, and the keychain's copy is another matter from now
\* on if there was a registration.
LEMMA NewTokenKeeps ==
    ASSUME DeviceInv, NEW survives \in BOOLEAN, NewToken(survives)
    PROVE  DeviceInv' /\ UNCHANGED device
  <1> USE DevicesAssumption
  <1>0. DevicesTypeOK /\ RowsAreRegistered /\ AsksAreOfNow /\ OwnersAgree /\ CopyFollowsRow
    BY DEF DeviceInv
  <1>t. /\ fcm \in Nat /\ fcm \in Tokens /\ MaxToken \in Nat /\ tokenKept \in Nat /\ tokenKept <= fcm
        /\ kept \in Prefs /\ \A t \in Tokens : t \in Nat /\ t >= 1 /\ t <= MaxToken
    BY <1>0, DeviceTypes
  <1> USE <1>0 DEF NewToken
  <1>1. fcm' = fcm + 1 /\ fcm' \in Tokens /\ fcm < fcm'
    BY <1>t DEF Tokens
  <1>2. enabling.at = "off" /\ \A k \in AlertKinds : toggle[k].at = "off"
    BY DEF Settled
  <1>3. tokenKept' \in 0 .. fcm' /\ tokenKept' \in {0, tokenKept}
    BY <1>t, <1>1
  <1>4. kept' \in Prefs
    BY <1>t DEF Prefs, AllOn
  <1>5. DevicesTypeOK'
    <2>1. \A t \in Tokens : device'[t].disabled => t < fcm'
      BY <1>t, <1>1 DEF DevicesTypeOK
    <2> QED BY <1>1, <1>3, <1>4, <2>1 DEF DevicesTypeOK, Prefs
  <1>6. device[fcm'].user = Nobody
    BY <1>t, <1>1 DEF RowsAreRegistered
  <1>7. RowsAreRegistered'
    BY <1>t, <1>1, <1>3 DEF RowsAreRegistered
  <1>8. AsksAreOfNow'
    <2>1. 1 .. fcm \subseteq 1 .. fcm' /\ fcm' \notin 1 .. fcm
      BY <1>1, <1>t
    <2>2. job \in PushJobs' /\ fcm' \notin job.to
      BY <2>1 DEF AsksAreOfNow, PushJobs
    <2> QED BY <1>2, <2>2 DEF AsksAreOfNow, PushJobs
  <1>9. OwnersAgree'
    BY <1>2, <1>3 DEF OwnersAgree
  <1>10. CopyFollowsRow'
    <2>1. ~blurred' => tokenKept' = 0
      BY <1>3
    <2> QED BY <1>2, <1>6, <2>1 DEF CopyFollowsRow
  <1> QED BY <1>5, <1>7, <1>8, <1>9, <1>10 DEF DeviceInv


\* The registration and what comes of it: the row is the caller's, and what the phone
\* keeps is its token.
LEMMA EnableKeeps ==
    ASSUME DeviceInv, (\E answered \in BOOLEAN : Register(answered)) \/ EnableFails \/ StoreToken
    PROVE  DeviceInv' /\ \A t \in Tokens : device'[t].on = device[t].on
  <1> USE DevicesAssumption
  <1>0. DevicesTypeOK /\ RowsAreRegistered /\ AsksAreOfNow /\ OwnersAgree /\ CopyFollowsRow
    BY DEF DeviceInv
  <1>t. /\ fcm \in Nat /\ fcm \in Tokens /\ MaxToken \in Nat /\ tokenKept \in Nat /\ tokenKept <= fcm
        /\ device \in [Tokens -> DeviceRows] /\ \A t \in Tokens : t \in Nat /\ t >= 1 /\ t <= MaxToken
    BY <1>0, DeviceTypes
  <1>1. ASSUME NEW answered \in BOOLEAN, Register(answered)
        PROVE  DeviceInv' /\ \A t \in Tokens : device'[t].on = device[t].on
    <2> USE <1>0
    <2>1. /\ enabling.at = "post" /\ enabling.by \in People /\ enabling.token = fcm
          /\ device' = [device EXCEPT ![fcm].user = enabling.by, ![fcm].disabled = FALSE]
          /\ enabling' \in {[enabling EXCEPT !.at = "store"], NotEnabling}
          /\ UNCHANGED <<signedIn, fcm, tokenKept, kept, switches, primer, toggle, job, parted>>
      BY <1>1 DEF Register, AsksAreOfNow
    <2>2. /\ device' \in [Tokens -> DeviceRows]
          /\ \A t \in Tokens : device'[t].on = device[t].on
          /\ \A t \in Tokens \ {fcm} : device'[t] = device[t]
          /\ device'[fcm].user = enabling.by /\ ~device'[fcm].disabled
      BY <2>1, <1>t DEF DeviceRows
    <2>3. /\ enabling' \in [at : {"off", "post", "store"}, by : People \cup {Nobody}, token : 0..MaxToken]
          /\ enabling'.at # "off" => /\ enabling'.at = "store" /\ enabling'.by = enabling.by
                                     /\ enabling'.token = fcm
      BY <2>1 DEF DevicesTypeOK, NotEnabling
    <2>4. blurred' \in BOOLEAN /\ (~blurred' => ~blurred)
      BY <1>1, Zenon DEF Register, DevicesTypeOK
    <2>5. ~blurred' => device[fcm].user # Nobody \/ kept = AllOn
      BY <1>1, <2>1 DEF Register
    <2>6. DevicesTypeOK'
      <3>1. \A t \in Tokens : device'[t].disabled => t < fcm
        BY <2>2 DEF DevicesTypeOK
      <3> QED BY <2>1, <2>2, <2>3, <2>4, <3>1 DEF DevicesTypeOK, DeviceRows, Prefs
    <2>7. RowsAreRegistered'
      <3>1. \A t \in Tokens : /\ device'[t].user # Nobody => t <= fcm
                              /\ device'[t].user = Nobody => device'[t].on = AllOn
        BY <2>1, <2>2, <1>t DEF RowsAreRegistered
      <3>2. tokenKept # 0 => tokenKept \in Tokens
        BY <1>0, DeviceTypes
      <3>3. tokenKept # 0 => device'[tokenKept].user # Nobody
        BY <2>1, <2>2, <3>2 DEF RowsAreRegistered
      <3> QED BY <2>1, <3>1, <3>3 DEF RowsAreRegistered
    <2>8. AsksAreOfNow'
      BY <2>1, <2>3 DEF AsksAreOfNow, PushJobs
    <2>9. OwnersAgree'
      <3>1. tokenKept # 0 => tokenKept \in Tokens
        BY <1>0, DeviceTypes
      <3> QED BY <2>1, <2>2, <2>3, <3>1 DEF OwnersAgree
    <2>10. CopyFollowsRow'
      <3> SUFFICES ASSUME ~blurred' PROVE CopyFollowsRow'
        BY DEF CopyFollowsRow
      <3>1. device'[fcm].on = device[fcm].on /\ ~blurred
        BY <2>2, <2>4, <1>t
      <3>2. CASE device[fcm].user # Nobody
        BY <2>1, <3>1, <3>2 DEF CopyFollowsRow
      <3>3. CASE device[fcm].user = Nobody
        <4>1. tokenKept = 0 /\ kept = AllOn /\ device[fcm].on = AllOn
          BY <3>1, <3>3, <2>5, <1>t DEF CopyFollowsRow, RowsAreRegistered
        <4>2. \A k \in AlertKinds : toggle[k].at = "off"
          BY <4>1 DEF AsksAreOfNow
        <4> QED BY <2>1, <3>1, <4>1, <4>2 DEF CopyFollowsRow
      <3> QED BY <3>2, <3>3
    <2> QED BY <2>2, <2>6, <2>7, <2>8, <2>9, <2>10 DEF DeviceInv
  <1>2. CASE EnableFails
    <2> USE <1>0
    <2>1. /\ enabling' = NotEnabling
          /\ UNCHANGED <<signedIn, fcm, tokenKept, kept, switches, primer, toggle, device, job, parted, blurred>>
      BY <1>2 DEF EnableFails
    <2>2. enabling' \in [at : {"off", "post", "store"}, by : People \cup {Nobody}, token : 0..MaxToken]
      BY <2>1 DEF NotEnabling
    <2>3. DevicesTypeOK'
      BY <2>1, <2>2 DEF DevicesTypeOK
    <2>4. RowsAreRegistered' /\ AsksAreOfNow' /\ OwnersAgree' /\ CopyFollowsRow'
      BY <2>1 DEF RowsAreRegistered, AsksAreOfNow, PushJobs, OwnersAgree, CopyFollowsRow, NotEnabling
    <2> QED BY <2>1, <2>3, <2>4 DEF DeviceInv
  <1>3. CASE StoreToken
    <2> USE <1>0
    <2>1. /\ enabling.at = "store" /\ tokenKept' = fcm /\ enabling' = NotEnabling /\ switches' = kept
          /\ enabling.by \in People /\ device[fcm].user = enabling.by
          /\ UNCHANGED <<signedIn, fcm, kept, primer, toggle, device, job, blurred>>
      BY <1>3 DEF StoreToken, AsksAreOfNow, OwnersAgree
    <2>2. parted' \in BOOLEAN /\ (~parted' => ~parted \/ enabling.by = signedIn)
      BY <1>3, Zenon DEF StoreToken, DevicesTypeOK
    <2>3. ~parted' => enabling.by = signedIn
      BY <2>1, <2>2 DEF OwnersAgree
    <2>4. enabling' \in [at : {"off", "post", "store"}, by : People \cup {Nobody}, token : 0..MaxToken]
      BY <2>1 DEF NotEnabling
    <2>5. DevicesTypeOK'
      <3>1. tokenKept' \in 0 .. fcm
        BY <2>1, <1>t
      <3> QED BY <2>1, <2>2, <2>4, <3>1 DEF DevicesTypeOK
    <2>6. fcm # 0
      BY <1>t
    <2>7. RowsAreRegistered'
      BY <2>1 DEF RowsAreRegistered
    <2>8. AsksAreOfNow'
      BY <2>1, <2>6 DEF AsksAreOfNow, PushJobs, NotEnabling
    <2>9. OwnersAgree'
      BY <2>1, <2>3 DEF OwnersAgree, NotEnabling
    <2>10. CopyFollowsRow'
      BY <2>1 DEF CopyFollowsRow
    <2> QED BY <2>1, <2>5, <2>7, <2>8, <2>9, <2>10 DEF DeviceInv
  <1> QED BY <1>1, <1>2, <1>3

\* A switch that is pressed, refused or written into the keychain.
LEMMA SwitchKeeps ==
    ASSUME DeviceInv, NEW k \in AlertKinds,
           BeginToggle(k) \/ PatchFails(k) \/ ReadKept(k) \/ WriteKept(k)
    PROVE  DeviceInv' /\ UNCHANGED device
  <1> USE DevicesAssumption
  <1>0. DevicesTypeOK /\ RowsAreRegistered /\ AsksAreOfNow /\ OwnersAgree /\ CopyFollowsRow
    BY DEF DeviceInv
  <1>t. /\ fcm \in Nat /\ fcm \in Tokens /\ tokenKept \in Nat /\ kept \in Prefs /\ switches \in Prefs
        /\ toggle \in [AlertKinds -> Toggles]
    BY <1>0, DeviceTypes
  <1>p. ASSUME NEW r \in Prefs, NEW b \in BOOLEAN PROVE [r EXCEPT ![k] = b] \in Prefs
    BY DEF Prefs
  \* What all of them leave alone.
  <1>1. ASSUME toggle' \in [AlertKinds -> Toggles], kept' \in Prefs, switches' \in Prefs, blurred' \in BOOLEAN,
               toggle'[k].at # "off" => toggle'[k].by \in People /\ tokenKept # 0,
               \A l \in AlertKinds \ {k} : toggle'[l] = toggle[l],
               UNCHANGED <<signedIn, fcm, tokenKept, primer, enabling, device, job, parted>>,
               CopyFollowsRow'
        PROVE  DeviceInv' /\ UNCHANGED device
    <2>1. DevicesTypeOK'
      BY <1>0, <1>1 DEF DevicesTypeOK, Toggles, Prefs
    <2>2. RowsAreRegistered' /\ OwnersAgree'
      BY <1>0, <1>1 DEF RowsAreRegistered, OwnersAgree
    <2>3. AsksAreOfNow'
      BY <1>0, <1>1 DEF AsksAreOfNow, PushJobs
    <2> QED BY <1>1, <2>1, <2>2, <2>3 DEF DeviceInv
  <1>2. CASE BeginToggle(k)
    <2>1. /\ signedIn # Nobody /\ tokenKept # 0 /\ toggle[k].at = "off"
          /\ toggle' = [toggle EXCEPT ![k] = [NoToggle EXCEPT !.at = "patch", !.by = signedIn,
                                                   !.value = ~switches[k], !.before = switches]]
          /\ switches' = [switches EXCEPT ![k] = ~@]
          /\ UNCHANGED <<signedIn, fcm, tokenKept, kept, primer, enabling, device, job, parted>>
      BY <1>2 DEF BeginToggle
    <2>2. /\ blurred' \in BOOLEAN
          /\ ~blurred' => ~blurred /\ \A l \in AlertKinds : toggle[l].at = "off"
      BY <1>0, <1>2, Zenon DEF BeginToggle, DevicesTypeOK
    <2>3. switches' \in Prefs /\ signedIn \in People
      BY <1>0, <1>t, <2>1 DEF Prefs, DevicesTypeOK
    <2>4. AllOn \in Prefs /\ switches[k] \in BOOLEAN /\ (~switches[k]) \in BOOLEAN
      BY <1>t DEF AllOn, Prefs
    <2>5. /\ toggle' \in [AlertKinds -> Toggles] /\ toggle'[k].at = "patch" /\ toggle'[k].by = signedIn
          /\ \A l \in AlertKinds \ {k} : toggle'[l] = toggle[l]
      BY <1>t, <2>1, <2>3, <2>4 DEF Toggles, NoToggle
    <2>6. CopyFollowsRow'
      BY <1>0, <2>1, <2>2, <2>5 DEF CopyFollowsRow
    <2> QED BY <1>1, <1>t, <2>1, <2>2, <2>3, <2>5, <2>6
  <1>3. CASE PatchFails(k)
    <2>1. /\ toggle[k].at = "patch" /\ toggle' = [toggle EXCEPT ![k] = NoToggle] /\ switches' = toggle[k].before
          /\ UNCHANGED <<signedIn, fcm, tokenKept, kept, primer, enabling, device, job, parted, blurred>>
      BY <1>3 DEF PatchFails
    <2>2. NoToggle \in Toggles /\ NoToggle.at = "off"
      BY DEF NoToggle, Toggles, Prefs, AllOn
    <2>3. /\ toggle' \in [AlertKinds -> Toggles] /\ toggle'[k].at = "off" /\ switches' \in Prefs
          /\ \A l \in AlertKinds \ {k} : toggle'[l] = toggle[l]
      BY <1>t, <2>1, <2>2 DEF Toggles
    <2>4. CopyFollowsRow'
      BY <1>0, <2>1, <2>3 DEF CopyFollowsRow
    <2>5. blurred' \in BOOLEAN
      BY <1>0, <2>1 DEF DevicesTypeOK
    <2> QED BY <1>1, <1>t, <2>1, <2>3, <2>4, <2>5
  <1>4. CASE ReadKept(k)
    <2>1. /\ toggle[k].at = "read" /\ toggle' = [toggle EXCEPT ![k].at = "write", ![k].read = kept]
          /\ UNCHANGED <<signedIn, fcm, tokenKept, kept, switches, primer, enabling, device, job, parted, blurred>>
      BY <1>4 DEF ReadKept
    <2>2. /\ toggle' \in [AlertKinds -> Toggles] /\ toggle'[k].at = "write" /\ toggle'[k].read = kept
          /\ toggle'[k].by = toggle[k].by /\ toggle'[k].value = toggle[k].value
          /\ \A l \in AlertKinds \ {k} : toggle'[l] = toggle[l]
      BY <1>t, <2>1 DEF Toggles
    <2>3. toggle[k].by \in People /\ tokenKept # 0
      BY <1>0, <2>1 DEF AsksAreOfNow
    <2>4. CopyFollowsRow'
      BY <1>0, <2>1, <2>2 DEF CopyFollowsRow
    <2>5. blurred' \in BOOLEAN
      BY <1>0, <2>1 DEF DevicesTypeOK
    <2> QED BY <1>1, <1>t, <2>1, <2>2, <2>3, <2>4, <2>5
  <1>5. CASE WriteKept(k)
    <2>1. /\ toggle[k].at = "write" /\ toggle' = [toggle EXCEPT ![k] = NoToggle]
          /\ kept' = [toggle[k].read EXCEPT ![k] = toggle[k].value]
          /\ UNCHANGED <<signedIn, fcm, tokenKept, switches, primer, enabling, device, job, parted, blurred>>
      BY <1>5 DEF WriteKept
    <2>2. NoToggle \in Toggles /\ NoToggle.at = "off"
      BY DEF NoToggle, Toggles, Prefs, AllOn
    <2>3. /\ toggle' \in [AlertKinds -> Toggles] /\ toggle'[k].at = "off"
          /\ \A l \in AlertKinds \ {k} : toggle'[l] = toggle[l]
      BY <1>t, <2>1, <2>2
    <2>4. kept' \in Prefs
      BY <1>t, <1>p, <2>1 DEF Toggles
    <2>5. CopyFollowsRow'
      <3> SUFFICES ASSUME ~blurred PROVE CopyFollowsRow'
        BY <2>1 DEF CopyFollowsRow
      <3>1. \A l \in AlertKinds : toggle'[l].at = "off"
        BY <1>0, <2>1, <2>3 DEF CopyFollowsRow
      <3>2. device[fcm].user # Nobody => kept' = device[fcm].on
        BY <1>0, <2>1 DEF CopyFollowsRow
      <3> QED BY <1>0, <2>1, <3>1, <3>2 DEF CopyFollowsRow
    <2>6. blurred' \in BOOLEAN
      BY <1>0, <2>1 DEF DevicesTypeOK
    <2> QED BY <1>1, <1>t, <2>1, <2>3, <2>4, <2>5, <2>6
  <1> QED BY <1>2, <1>3, <1>4, <1>5

\* A change of the row is its user's; if the answer comes, it is on its way into the
\* keychain.
LEMMA PatchKeeps ==
    ASSUME DeviceInv, NEW k \in AlertKinds, NEW answered \in BOOLEAN, Patch(k, answered)
    PROVE  /\ DeviceInv'
           /\ \A t \in Tokens : device'[t].on # device[t].on =>
                  toggle[k].at = "patch" /\ toggle[k].by = device[t].user
  <1> USE DevicesAssumption
  <1>0. DevicesTypeOK /\ RowsAreRegistered /\ AsksAreOfNow /\ OwnersAgree /\ CopyFollowsRow
    BY DEF DeviceInv
  <1>t. /\ fcm \in Nat /\ fcm \in Tokens /\ tokenKept \in Nat /\ kept \in Prefs /\ switches \in Prefs
        /\ toggle \in [AlertKinds -> Toggles] /\ device \in [Tokens -> DeviceRows]
        /\ tokenKept # 0 => tokenKept \in Tokens
    BY <1>0, DeviceTypes
  <1> DEFINE own == device[tokenKept].user = toggle[k].by
  <1>1. /\ toggle[k].at = "patch"
        /\ device' = IF own THEN [device EXCEPT ![tokenKept].on[k] = toggle[k].value] ELSE device
        /\ IF answered /\ own THEN toggle' = [toggle EXCEPT ![k].at = "read"] /\ UNCHANGED switches
           ELSE toggle' = [toggle EXCEPT ![k] = NoToggle] /\ switches' = toggle[k].before
        /\ UNCHANGED <<signedIn, fcm, tokenKept, kept, primer, enabling, job, parted>>
    BY DEF Patch
  <1>2. toggle[k].by \in People /\ tokenKept # 0 /\ tokenKept \in Tokens
    BY <1>0, <1>t, <1>1 DEF AsksAreOfNow
  <1>3. /\ blurred' \in BOOLEAN
        /\ ~blurred' => ~blurred /\ (own => answered)
    BY <1>0, Zenon DEF Patch, DevicesTypeOK
  <1>4. NoToggle \in Toggles /\ NoToggle.at = "off"
    BY DEF NoToggle, Toggles, Prefs, AllOn
  <1>5. /\ toggle' \in [AlertKinds -> Toggles] /\ switches' \in Prefs
        /\ \A l \in AlertKinds \ {k} : toggle'[l] = toggle[l]
        /\ \/ toggle'[k].at = "off"
           \/ answered /\ own /\ toggle'[k].at = "read" /\ toggle'[k].by = toggle[k].by
                /\ toggle'[k].value = toggle[k].value
    BY <1>t, <1>1, <1>4 DEF Toggles
  <1>6. /\ device' \in [Tokens -> DeviceRows]
        /\ \A t \in Tokens : device'[t].user = device[t].user /\ device'[t].disabled = device[t].disabled
        /\ \A t \in Tokens \ {tokenKept} : device'[t] = device[t]
        /\ own => device'[tokenKept].on = [device[tokenKept].on EXCEPT ![k] = toggle[k].value]
        /\ ~own => device' = device
    <2>1. CASE own
      <3>1. device' = [device EXCEPT ![tokenKept].on[k] = toggle[k].value]
        BY <1>1, <2>1
      <3>2. device' = [device EXCEPT ![tokenKept] = [device[tokenKept] EXCEPT !.on =
                                 [device[tokenKept].on EXCEPT ![k] = toggle[k].value]]]
        BY <3>1, <1>t, <1>2 DEF DeviceRows
      <3>3. [device[tokenKept].on EXCEPT ![k] = toggle[k].value] \in Prefs
        BY <1>t, <1>2 DEF DeviceRows, Toggles, Prefs
      <3> HIDE DEF own
      <3> QED BY <3>2, <3>3, <1>t, <1>2, <2>1 DEF DeviceRows
    <2>2. CASE ~own
      BY <1>1, <1>t, <2>2
    <2> QED BY <2>1, <2>2
  <1> HIDE DEF own
  <1>7. DevicesTypeOK'
    BY <1>0, <1>1, <1>3, <1>5, <1>6 DEF DevicesTypeOK, Toggles, Prefs, DeviceRows
  <1>8. RowsAreRegistered'
    <2>1. \A t \in Tokens : device'[t].user = Nobody => device'[t].on = AllOn
      <3>1. device[tokenKept].user # Nobody
        BY <1>0, <1>2 DEF RowsAreRegistered
      <3> QED BY <1>0, <1>6, <3>1 DEF RowsAreRegistered
    <2> QED BY <1>0, <1>1, <1>2, <1>6, <2>1 DEF RowsAreRegistered
  <1>9. AsksAreOfNow'
    BY <1>0, <1>1, <1>2, <1>5 DEF AsksAreOfNow, PushJobs
  <1>10. OwnersAgree'
    BY <1>0, <1>t, <1>1, <1>2, <1>6 DEF OwnersAgree
  <1>11. CopyFollowsRow'
    <2> SUFFICES ASSUME ~blurred' PROVE CopyFollowsRow'
      BY DEF CopyFollowsRow
    <2>1. ~blurred /\ tokenKept = fcm /\ (own => answered)
      BY <1>0, <1>2, <1>3 DEF CopyFollowsRow
    <2>2. \A l \in AlertKinds \ {k} : toggle[l].at = "off" /\ toggle'[l].at = "off"
      BY <1>0, <1>1, <1>5, <2>1 DEF CopyFollowsRow
    <2>3. device[fcm].user # Nobody => kept = device[fcm].on
      BY <1>0, <1>1, <2>1, <2>2 DEF CopyFollowsRow
    <2>4. device[fcm].user # Nobody
      BY <1>0, <1>2, <2>1 DEF RowsAreRegistered
    <2>5. CASE own
      <3>1. toggle'[k].at = "read" /\ toggle'[k].value = toggle[k].value
        BY <1>1, <1>t, <2>1, <2>5, <1>4 DEF Toggles
      <3>2. device'[fcm].on = [kept EXCEPT ![k] = toggle[k].value]
        BY <1>6, <2>1, <2>3, <2>4, <2>5
      <3> QED BY <1>1, <2>1, <2>2, <3>1, <3>2 DEF CopyFollowsRow
    <2>6. CASE ~own
      <3>1. device' = device /\ toggle'[k].at = "off"
        BY <1>6, <1>5, <2>6
      <3> QED BY <1>1, <2>1, <2>2, <2>3, <2>4, <3>1 DEF CopyFollowsRow
    <2> QED BY <2>5, <2>6
  <1>12. \A t \in Tokens : device'[t].on # device[t].on =>
                  toggle[k].at = "patch" /\ toggle[k].by = device[t].user
    BY <1>1, <1>6 DEF own
  <1> QED BY <1>7, <1>8, <1>9, <1>10, <1>11, <1>12 DEF DeviceInv

\* A push job disables no row of the token that lives, and changes no preference.
LEMMA PushKeeps ==
    ASSUME DeviceInv, (\E k \in AlertKinds : Resolve(k)) \/ Send \/ Disable \/ PushFails
    PROVE  DeviceInv' /\ \A t \in Tokens : device'[t].on = device[t].on
  <1> USE DevicesAssumption
  <1>0. DevicesTypeOK /\ RowsAreRegistered /\ AsksAreOfNow /\ OwnersAgree /\ CopyFollowsRow
    BY DEF DeviceInv
  <1>t. /\ fcm \in Nat /\ fcm \in Tokens /\ MaxToken \in Nat /\ device \in [Tokens -> DeviceRows]
        /\ tokenKept # 0 => tokenKept \in Tokens
        /\ \A t \in Tokens : t \in Nat /\ t >= 1 /\ t <= MaxToken
    BY <1>0, DeviceTypes
  <1>j. job \in PushJobs /\ 1 .. fcm \subseteq Tokens /\ NoPush \in PushJobs
    <2>1. job \in PushJobs /\ 1 .. fcm \subseteq Tokens
      BY <1>0, <1>t DEF AsksAreOfNow, Tokens
    <2> QED BY <2>1 DEF NoPush, PushJobs, AlertKinds
  \* What all of them leave alone.
  <1>1. ASSUME job' \in PushJobs, job'.at = "disable" => fcm \notin job'.to,
               UNCHANGED <<signedIn, fcm, tokenKept, kept, switches, primer, enabling, toggle, parted, blurred>>,
               device' \in [Tokens -> DeviceRows],
               \A t \in Tokens : /\ device'[t].user = device[t].user /\ device'[t].on = device[t].on
                                 /\ device'[t].disabled => t < fcm
        PROVE  DeviceInv' /\ \A t \in Tokens : device'[t].on = device[t].on
    <2> USE <1>0, <1>1
    <2>1. DevicesTypeOK'
      BY <1>j DEF DevicesTypeOK, PushJobs, DeviceRows, Prefs
    <2>2. RowsAreRegistered'
      BY <1>t DEF RowsAreRegistered
    <2>3. AsksAreOfNow'
      BY DEF AsksAreOfNow, PushJobs
    <2>4. OwnersAgree' /\ CopyFollowsRow'
      BY <1>t DEF OwnersAgree, CopyFollowsRow
    <2> QED BY <2>1, <2>2, <2>3, <2>4 DEF DeviceInv
  <1>2. ASSUME NEW k \in AlertKinds, Resolve(k)
        PROVE  DeviceInv' /\ \A t \in Tokens : device'[t].on = device[t].on
    <2> DEFINE to == {t \in Tokens : device[t].user # Nobody /\ ~device[t].disabled /\ device[t].on[k]}
    <2>1. /\ job' = [at |-> "send", kind |-> k, to |-> to, attempts |-> job.attempts]
          /\ UNCHANGED <<signedIn, fcm, tokenKept, kept, switches, primer, enabling, toggle, device, parted, blurred>>
      BY <1>2 DEF Resolve
    <2>2. to \subseteq 1 .. fcm
      <3> SUFFICES ASSUME NEW t \in to PROVE t \in 1 .. fcm
        OBVIOUS
      <3>1. t \in Tokens /\ device[t].user # Nobody
        OBVIOUS
      <3> HIDE DEF to
      <3>2. t <= fcm
        BY <1>0, <3>1 DEF RowsAreRegistered
      <3> QED BY <1>t, <3>1, <3>2
    <2> HIDE DEF to
    <2>3. job' \in PushJobs /\ job'.at # "disable"
      BY <1>j, <2>1, <2>2 DEF PushJobs
    <2> QED BY <1>0, <1>1, <1>t, <2>1, <2>3 DEF DevicesTypeOK
  <1>3. CASE Send
    <2>1. UNCHANGED <<signedIn, fcm, tokenKept, kept, switches, primer, enabling, toggle, device, parted, blurred>>
      BY <1>3 DEF Send
    <2>2. job' = [job EXCEPT !.at = "disable", !.to = {t \in @ : t # fcm}] \/ job' = NoPush
      BY <1>3 DEF Send
    <2>3. {t \in job.to : t # fcm} \in SUBSET (1 .. fcm)
      BY <1>j DEF PushJobs
    <2>4. job' \in PushJobs /\ (job'.at = "disable" => fcm \notin job'.to)
      BY <1>j, <2>2, <2>3 DEF PushJobs, NoPush
    <2> QED BY <1>0, <1>1, <1>t, <2>1, <2>4 DEF DevicesTypeOK
  <1>4. CASE Disable
    <2>1. /\ job.at = "disable" /\ job' = NoPush
          /\ device' = [t \in Tokens |-> IF t \in job.to THEN [device[t] EXCEPT !.disabled = TRUE] ELSE device[t]]
          /\ UNCHANGED <<signedIn, fcm, tokenKept, kept, switches, primer, enabling, toggle, parted, blurred>>
      BY <1>4 DEF Disable
    <2>2. \A t \in job.to : t < fcm
      BY <1>0, <1>t, <1>j, <2>1 DEF AsksAreOfNow, PushJobs
    <2>3. /\ device' \in [Tokens -> DeviceRows]
          /\ \A t \in Tokens : /\ device'[t].user = device[t].user /\ device'[t].on = device[t].on
                               /\ device'[t].disabled => device[t].disabled \/ t \in job.to
      BY <1>t, <2>1 DEF DeviceRows
    <2>4. NoPush.at # "disable"
      BY DEF NoPush
    <2> QED BY <1>0, <1>1, <1>j, <2>1, <2>2, <2>3, <2>4 DEF DevicesTypeOK
  <1>5. CASE PushFails
    <2>1. UNCHANGED <<signedIn, fcm, tokenKept, kept, switches, primer, enabling, toggle, device, parted, blurred>>
      BY <1>5 DEF PushFails
    <2>2. job' = NoPush \/ (job' = [NoPush EXCEPT !.attempts = job.attempts + 1] /\ job.attempts + 1 < MaxAttempts)
      BY <1>5 DEF PushFails
    <2>3. ASSUME job.attempts + 1 < MaxAttempts PROVE job.attempts + 1 \in 0 .. MaxAttempts
      BY <1>j, <2>3 DEF PushJobs
    <2>4. job' \in PushJobs /\ job'.at # "disable"
      <3>1. CASE job' = NoPush
        BY <1>j, <3>1 DEF NoPush
      <3>2. CASE job' = [NoPush EXCEPT !.attempts = job.attempts + 1] /\ job.attempts + 1 < MaxAttempts
        <4> DEFINE n == job.attempts + 1
        <4>1. n \in 0 .. MaxAttempts /\ job' = [NoPush EXCEPT !.attempts = n]
          BY <2>3, <3>2
        <4> HIDE DEF n
        <4> QED BY <1>j, <4>1 DEF PushJobs, NoPush
      <3> QED BY <2>2, <3>1, <3>2
    <2> QED BY <1>0, <1>1, <1>t, <2>1, <2>4 DEF DevicesTypeOK
  <1> QED BY <1>2, <1>3, <1>4, <1>5

\* The switches on a phone that changes hands: what the phone keeps of its preferences
\* is what the server goes by unless toggles overlapped or an answer was lost, a phone
\* that shows notifications as on has a row that is its user's unless somebody signed
\* out since, and a preference is changed by nobody but the row's own user.
THEOREM PreferencesHold == DevicesSpec => PreferencesAreSound
  <1>1. DevicesInit => DeviceInv
    BY DevicesStart
  <1>2. DeviceInv /\ [DevicesNext]_deviceVars => DeviceInv'
    <2> SUFFICES ASSUME DeviceInv, DevicesNext \/ UNCHANGED deviceVars PROVE DeviceInv'
      BY DEF deviceVars
    <2>1. CASE DevicesNext
      BY <2>1, PersonKeeps, NewTokenKeeps, EnableKeeps, SwitchKeeps, PatchKeeps, PushKeeps DEF DevicesNext
    <2>2. CASE UNCHANGED deviceVars
      <3> USE <2>2 DEF DeviceInv, deviceVars
      <3>1. DevicesTypeOK' /\ RowsAreRegistered'
        BY DEF DevicesTypeOK, RowsAreRegistered
      <3>2. AsksAreOfNow' /\ OwnersAgree'
        BY DEF AsksAreOfNow, OwnersAgree, PushJobs
      <3>3. CopyFollowsRow'
        BY DEF CopyFollowsRow
      <3> QED BY <3>1, <3>2, <3>3
    <2> QED BY <2>1, <2>2
  <1>3. DeviceInv => DevicesTypeOK /\ PreferencesAgree /\ OnMeansOn
    <2> SUFFICES ASSUME DeviceInv PROVE PreferencesAgree /\ OnMeansOn
      BY DEF DeviceInv
    <2> USE DEF DeviceInv
    <2>1. OnMeansOn
      BY DEF OnMeansOn, OwnersAgree
    <2>2. PreferencesAgree
      BY DEF PreferencesAgree, Settled, CopyFollowsRow, RowsAreRegistered
    <2> QED BY <2>1, <2>2
  <1>4. DeviceInv /\ [DevicesNext]_deviceVars =>
            [\A t \in Tokens : device[t].user # Nobody /\ device'[t].on # device[t].on =>
                \E k \in AlertKinds : toggle[k].at = "patch" /\ toggle[k].by = device[t].user]_deviceVars
    <2> SUFFICES ASSUME DeviceInv, DevicesNext,
                        NEW t \in Tokens, device[t].user # Nobody, device'[t].on # device[t].on
                 PROVE  \E k \in AlertKinds : toggle[k].at = "patch" /\ toggle[k].by = device[t].user
      OBVIOUS
    <2>1. ~(UNCHANGED device)
      OBVIOUS
    <2>2. PICK k \in AlertKinds, answered \in BOOLEAN : Patch(k, answered)
      BY <2>1, PersonKeeps, NewTokenKeeps, EnableKeeps, SwitchKeeps, PushKeeps DEF DevicesNext
    <2> QED BY <2>2, PatchKeeps
  <1> QED BY <1>1, <1>2, <1>3, <1>4, PTL DEF DevicesSpec, PreferencesAreSound, PreferencesAreOnesOwn

=============================================================================
