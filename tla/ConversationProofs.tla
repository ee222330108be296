-------------------------- MODULE ConversationProofs --------------------------
(***************************************************************************)
(* What Conversations guarantees for every number of campaigns, messages,  *)
(* taps, payloads and job slots, under every combination of faults.        *)
(***************************************************************************)
EXTENDS Conversations, SumTheorems

Busy(w)   == wk[w].at # "idle"
Chosen(w) == wk[w].at \notin {"idle", "check"}
Live(id)  == job[id].state \in {"waiting", "active"}
Place(id) == id[2] + id[3]
Sends(r)  == links[r] + asks[r]

\* A job that can still run has an attempt left; a slot has a job to itself, and
\* beyond the check a campaign it is looking at; a job's interaction arrived.
JobsInv ==
    /\ \A id \in JobIds : Live(id) \/ job[id].state = "none" => job[id].tries < JOB_ATTEMPTS
    /\ \A w \in Workers : Busy(w) => job[wk[w].id].state = "active"
    /\ \A v, w \in Workers : Busy(v) /\ Busy(w) /\ wk[v].id = wk[w].id => v = w
    /\ \A w \in Workers : Chosen(w) => wk[w].todo # {}
    /\ \A id \in JobIds : job[id].state # "none" => id[1] \in Arrived

\* What the webhook has stored: an interaction it is done with is in the queue.
HookInv ==
    /\ \A p \in Payloads : /\ hook[p].left \subseteq p
                           /\ hook[p].state # "none" => hook[p].deliveries > 0
                           /\ hook[p].state = "PROCESSED" => hook[p].left = {}
                           /\ hook[p].state \in {"none", "FAILED"} \/ faults["evict"] > 0
                              \/ \A i \in p \ hook[p].left : job[<<i, 0, 0>>].state # "none"
    /\ \A i \in Interactions : arrived[i] <= day

\* What a slot knows of the person it answers.
GateInv ==
    /\ follows => Arrived \subseteq followed
    /\ \A w \in Workers :
          /\ At(w, "prompt") => IsTap(w)
          /\ wk[w].at \in {"reserve", "slot", "send", "sent"} =>
                /\ IsTap(w) => wk[w].confirmed
                /\ wk[w].confirmed /\ Here(w) \in Gated => About(w) \in followed

\* A campaign prompts once for each life of its key, and for each failing throttle.
PromptsInv ==
    \A c \in Campaigns :
        prompts[c] <= expiries[c] + faults["throttle"] + (IF c \in throttled THEN 1 ELSE 0)

\* Slots that work on taps at the same time are in races; a tap past its check has
\* seen the reveals of the day, but for those of taps it races with.
RacesInv ==
    /\ \A v, w \in Workers :
          Busy(v) /\ Busy(w) /\ v # w /\ IsTap(v) /\ IsTap(w) => {About(v), About(w)} \in races
    /\ \A r \in Rows : log[r].dmSentAt <= day
    /\ \A w \in Workers, t \in Taps :
          /\ Chosen(w) /\ IsTap(w) /\ About(w) # t
          /\ log[<<Here(w), t>>].status = "SENT" /\ log[<<Here(w), t>>].dmSentAt = day
          => {About(w), t} \in races

\* One job of an interaction is live: the last in the order of its requeues.
OneLine ==
    /\ faults["blocked"] = 0 =>
          \A id \in JobIds : Place(id) > 0 => job[id].state = "none"
    /\ faults["evict"] = 0 =>
          /\ \A id \in JobIds : job[id].state # "none" => job[<<id[1], 0, 0>>].state # "none"
          /\ \A id, jd \in JobIds : id[1] = jd[1] /\ id # jd /\ Live(id) /\ job[jd].state # "none"
                                      => Place(jd) < Place(id)

\* While interactions are handled by one job at a time: past the check the row is
\* not SENT, and every message but the lost ones is in its row or on its way there.
RowsInv ==
    MayRunTwice \/
    /\ \A w \in Workers : Chosen(w) => log[Row(w)].status # "SENT"
    /\ \A r \in Rows :
          Sends(r) <= faults["lostAnswer"] + faults["crash"]
                        + (IF log[r].status = "SENT" \/ \E w \in OnTheWay : Row(w) = r THEN 1 ELSE 0)

\* What a message's job has been through, it has answered.
PassedOver(c, m) ==
    log[<<c, m>>].status # "none" \/ (c \in AnyWord /\ SentRecently(c, Messages))

LoopInv ==
    MayRunTwice \/
    \A w \in Workers : Busy(w) /\ ~IsTap(w) /\ WithinMessagingWindow(About(w)) =>
        \A c \in Concerned(About(w)) \ wk[w].todo : PassedOver(c, About(w))

IInv ==
    /\ TypeOK
    /\ Cardinality(Holding) <= used /\ UsageIsExplained
    /\ JobsInv /\ HookInv
    /\ GateInv /\ GateHolds /\ PromptsInv
    /\ RacesInv /\ OnlyRacingTapsRepeat
    /\ OneLine /\ RowsInv /\ LoopInv /\ OnlyASkipEndsTheLoop

-----------------------------------------------------------------------------
(* Types                                                                   *)

JobStates == {"none", "waiting", "active", "completed", "failed"}
JobRec  == [state : JobStates, tries : 0..JOB_ATTEMPTS, stalls : 0..1]
SlotRec == [at : Steps, id : JobIds, todo : SUBSET Campaigns, confirmed : BOOLEAN]
LogRec  == [status : Statuses, stage : {"none", "FOLLOW_PROMPT", "DELIVERY"}, dmSentAt : 0..LastDay]
HookRec == [state : {"none", "adding", "FAILED", "PROCESSED"},
            left : SUBSET Interactions, deliveries : 0..MaxDeliveries]

\* A job id is an interaction with the requeues it has behind it.
LEMMA IdIsJob ==
    /\ NoId \in JobIds /\ Idle \in SlotRec
    /\ \A i \in Interactions : <<i, 0, 0>> \in JobIds
    /\ \A id \in JobIds : id[1] \in Interactions /\ id[2] \in Nat /\ id[3] \in Nat
                            /\ id = <<id[1], id[2], id[3]>> /\ Place(id) \in Nat
  <1>1. \A i \in Interactions : <<i, 0, 0>> \in JobIds
    BY ConversationsAssumption DEF JobIds
  <1>2. NoId \in JobIds
    BY <1>1, ConversationsAssumption DEF NoId
  <1>3. Idle \in SlotRec
    BY <1>2 DEF Idle, SlotRec, Steps
  <1>4. QED
    BY <1>1, <1>2, <1>3, ConversationsAssumption DEF JobIds, Place

\* The type invariant, with the records named.
LEMMA TypesAre ==
    TypeOK <=>
    /\ hook \in [Payloads -> HookRec] /\ job \in [JobIds -> JobRec]
    /\ wk \in [Workers -> SlotRec] /\ log \in [Rows -> LogRec]
    /\ used \in 0..DmLimit
    /\ throttled \subseteq Campaigns /\ active \subseteq Campaigns
    /\ day \in 0..LastDay /\ arrived \in [Interactions -> 0..LastDay]
    /\ follows \in BOOLEAN
    /\ links \in [Rows -> Nat] /\ asks \in [Rows -> Nat]
    /\ prompts \in [Campaigns -> Nat] /\ expiries \in [Campaigns -> Nat]
    /\ followed \subseteq Interactions /\ races \subseteq SUBSET Interactions
    /\ faults \in [Faults -> Nat]
  BY DEF TypeOK, HookRec, JobRec, JobStates, SlotRec, LogRec

\* A nonempty set of campaigns has an oldest one, and that is Min.
LEMMA HereIsIn ==
    ASSUME wk \in [Workers -> SlotRec], NEW w \in Workers, wk[w].todo # {}
    PROVE  /\ Here(w) \in wk[w].todo /\ Here(w) \in Campaigns
           /\ \A c \in wk[w].todo : Here(w) <= c
           /\ About(w) \in Interactions /\ Row(w) \in Rows
  <1> DEFINE S == wk[w].todo
  <1>1. S \in SUBSET Nat /\ S # {} /\ S \subseteq Campaigns
    BY ConversationsAssumption DEF SlotRec, Campaigns
  <1>2. \E n \in S : \A m \in S : n <= m
    <2> HIDE DEF S
    <2> QED BY <1>1, LeastNatural
  <1>3. Min(S) \in S /\ \A c \in S : Min(S) <= c
    <2> HIDE DEF S
    <2> QED BY <1>1, <1>2 DEF Min
  <1>4. wk[w].id \in JobIds
    BY DEF SlotRec
  <1>5. QED BY <1>1, <1>3, <1>4, IdIsJob DEF Here, About, Row, Rows

\* Faults are only counted up, and only where they happen.
LEMMA FaultCounts ==
    ASSUME faults \in [Faults -> Nat], NEW f \in Faults, Fault(f)
    PROVE  /\ faults' \in [Faults -> Nat] /\ faults'[f] = faults[f] + 1
           /\ \A g \in Faults \ {f} : faults'[g] = faults[g]
  BY DEF Fault

-----------------------------------------------------------------------------
(* What a step does to the slots and their jobs                            *)

\* Slot w moves, the others stand still.
Moves(w) ==
    /\ wk' \in [Workers -> SlotRec]
    /\ \A v \in Workers \ {w} : wk'[v] = wk[v]

OnlyJob(id) ==
    /\ job' \in [JobIds -> JobRec]
    /\ \A jd \in JobIds \ {id} : job'[jd] = job[jd]

Begins(w, id) ==
    /\ Moves(w) /\ OnlyJob(id)
    /\ wk[w].at = "idle" /\ job[id].state = "waiting"
    /\ WithinMessagingWindow(id[1])
    /\ wk'[w].at = "check" /\ wk'[w].id = id /\ wk'[w].todo = Concerned(id[1])
    /\ job'[id].state = "active" /\ job'[id].tries = job[id].tries
    /\ races' = races \cup ({{About(v), id[1]} : v \in {v \in Workers : wk[v].at # "idle"}}
                                \cap SUBSET Taps)

GoesOn(w, s) ==
    /\ Moves(w) /\ job' = job
    /\ wk[w].at # "idle" /\ wk[w].todo # {} /\ s \notin {"idle", "check"}
    /\ wk'[w].at = s /\ wk'[w].id = wk[w].id /\ wk'[w].todo = wk[w].todo
    /\ wk[w].at # "follow" => wk'[w].confirmed = wk[w].confirmed

Continues(w) ==
    /\ Moves(w) /\ job' = job
    /\ wk[w].at # "idle" /\ wk[w].todo # {}
    /\ wk'[w].at = "check" /\ wk'[w].id = wk[w].id /\ wk'[w].todo = wk[w].todo \ {Here(w)}

Leaves(w, s) ==
    /\ Moves(w) /\ OnlyJob(wk[w].id)
    /\ wk[w].at # "idle" /\ wk'[w] = Idle
    /\ job'[wk[w].id].state = s /\ s \in {"waiting", "completed", "failed"}
    /\ s = "waiting" => job'[wk[w].id].tries < JOB_ATTEMPTS

ComesBack(w, jd) ==
    /\ faults'["blocked"] > 0
    /\ Moves(w) /\ job' \in [JobIds -> JobRec]
    /\ wk[w].at = "slot" /\ wk'[w] = Idle
    /\ jd \in JobIds /\ jd[1] = wk[w].id[1] /\ Place(jd) = Place(wk[w].id) + 1
    /\ \A id \in JobIds \ {wk[w].id, jd} : job'[id] = job[id]
    /\ job'[wk[w].id].state = "completed"
    /\ IF job[jd].state = "none" THEN job'[jd].state = "waiting" /\ job'[jd].tries = job[jd].tries
                                 ELSE job'[jd] = job[jd]

Halts ==
    /\ wk' \in [Workers -> SlotRec] /\ \A w \in Workers : wk'[w] = Idle
    /\ job' \in [JobIds -> JobRec]
    /\ \A id \in JobIds : IF job[id].state = "active"
                          THEN job'[id].state \in {"waiting", "failed"} /\ job'[id].tries = job[id].tries
                          ELSE job'[id] = job[id]

\* The slots stand still; a job is added, forgotten, or completed unseen.
Queues(id, s) ==
    /\ wk' = wk /\ OnlyJob(id) /\ job'[id].state = s
    /\ \/ job[id].state = s /\ job' = job
       \/ job[id].state = "none" /\ s = "waiting" /\ id[2] = 0 /\ id[3] = 0 /\ id[1] \in Arrived
          /\ job'[id].tries = job[id].tries
       \/ job[id].state = "waiting" /\ s = "completed" /\ ~WithinMessagingWindow(id[1])
       \/ job[id].state = "completed" /\ s = "none" /\ job'[id].tries = 0
          /\ faults'["evict"] > 0

Stands == wk' = wk /\ job' = job

\* Where the worker's moves lead.
LEMMA GotoGoesOn ==
    ASSUME wk \in [Workers -> SlotRec], NEW w \in Workers, NEW s \in Steps \ {"idle", "check"},
           Goto(w, s), UNCHANGED job, wk[w].at # "idle", wk[w].todo # {}
    PROVE  GoesOn(w, s) /\ wk'[w].confirmed = wk[w].confirmed
  <1>1. wk' = [wk EXCEPT ![w] = [wk[w] EXCEPT !.at = s]]
    BY DEF Goto
  <1>2. [wk[w] EXCEPT !.at = s] \in SlotRec
    BY DEF SlotRec
  <1>3. wk' \in [Workers -> SlotRec] /\ wk'[w] = [wk[w] EXCEPT !.at = s]
        /\ \A v \in Workers \ {w} : wk'[v] = wk[v]
    BY <1>1, <1>2
  <1>4. /\ wk'[w].at = s /\ wk'[w].id = wk[w].id /\ wk'[w].todo = wk[w].todo
        /\ wk'[w].confirmed = wk[w].confirmed
    BY <1>3 DEF SlotRec
  <1>5. QED BY <1>3, <1>4 DEF GoesOn, Moves

\* Done with a campaign: the slot keeps its job and looks at the next.
LEMMA ContinueContinues ==
    ASSUME wk \in [Workers -> SlotRec], NEW w \in Workers, Continue(w),
           wk[w].at # "idle", wk[w].todo # {}
    PROVE  Continues(w)
  <1>1. wk[w].id \in JobIds /\ wk[w].todo \ {Here(w)} \subseteq Campaigns
    BY DEF SlotRec
  <1>2. Looking(wk[w].id, wk[w].todo \ {Here(w)}) \in SlotRec
    BY <1>1 DEF Looking, SlotRec, Steps
  <1>3. /\ wk' \in [Workers -> SlotRec] /\ wk'[w] = Looking(wk[w].id, wk[w].todo \ {Here(w)})
        /\ \A v \in Workers \ {w} : wk'[v] = wk[v]
    BY <1>2 DEF Continue
  <1>4. QED BY <1>3 DEF Continues, Moves, Looking, Continue

\* A slot that stops leaves the others alone.
LEMMA ToIdle ==
    ASSUME wk \in [Workers -> SlotRec], NEW w \in Workers, wk' = [wk EXCEPT ![w] = Idle]
    PROVE  Moves(w) /\ wk'[w] = Idle
  BY IdIsJob DEF Moves

\* A return completes the job.
LEMMA ReturnLeaves ==
    ASSUME wk \in [Workers -> SlotRec], job \in [JobIds -> JobRec], NEW w \in Workers, Return(w),
           wk[w].at # "idle"
    PROVE  Leaves(w, "completed")
  <1>1. PICK id \in JobIds : id = wk[w].id
    BY DEF SlotRec
  <1>2. job' = [job EXCEPT ![id] = [job[id] EXCEPT !.state = "completed"]]
    BY <1>1 DEF Return
  <1>3. [job[id] EXCEPT !.state = "completed"] \in JobRec
    BY DEF JobRec, JobStates
  <1>4. OnlyJob(id) /\ job'[id] = [job[id] EXCEPT !.state = "completed"]
    BY <1>2, <1>3 DEF OnlyJob
  <1>5. job'[id].state = "completed"
    BY <1>4 DEF JobRec
  <1>6. Moves(w) /\ wk'[w] = Idle
    BY ToIdle DEF Return
  <1>7. QED BY <1>1, <1>4, <1>5, <1>6 DEF Leaves

\* A throw leaves an attempt to a job that waits again.
LEMMA ThrowLeaves ==
    ASSUME wk \in [Workers -> SlotRec], job \in [JobIds -> JobRec], JobsInv,
           NEW w \in Workers, Throw(w), wk[w].at # "idle"
    PROVE  Leaves(w, "waiting") \/ Leaves(w, "failed")
  <1>1. PICK id \in JobIds : id = wk[w].id
    BY DEF SlotRec
  <1>2. job[id].tries < JOB_ATTEMPTS /\ job[id].tries \in Nat
    BY <1>1, ConversationsAssumption DEF JobsInv, Busy, Live, JobRec
  <1> DEFINE s == IF job[id].tries + 1 < JOB_ATTEMPTS THEN "waiting" ELSE "failed"
             r == [job[id] EXCEPT !.tries = job[id].tries + 1, !.state = s]
  <1>3. job' = [job EXCEPT ![id] = r]
    BY <1>1 DEF Throw
  <1>4. s \in {"waiting", "failed"} /\ (s = "waiting" => job[id].tries + 1 < JOB_ATTEMPTS)
    OBVIOUS
  <1>5. job[id].tries + 1 \in 0..JOB_ATTEMPTS
    BY <1>2, ConversationsAssumption
  <1> HIDE DEF s
  <1>6. r \in JobRec /\ r.state = s /\ r.tries = job[id].tries + 1
    BY <1>4, <1>5 DEF JobRec, JobStates
  <1> HIDE DEF r
  <1>7. OnlyJob(id) /\ job'[id] = r
    BY <1>3, <1>6 DEF OnlyJob
  <1>8. Moves(w) /\ wk'[w] = Idle
    BY ToIdle DEF Throw
  <1>9. Leaves(w, s)
    BY <1>1, <1>4, <1>6, <1>7, <1>8 DEF Leaves
  <1>10. QED BY <1>4, <1>9

\* An add leaves every job but a new one as it is.
LEMMA AddedIs ==
    ASSUME job \in [JobIds -> JobRec], NEW id \in JobIds
    PROVE  /\ Added(id) \in [JobIds -> JobRec]
           /\ \A jd \in JobIds \ {id} : Added(id)[jd] = job[jd]
           /\ job[id].state # "none" => Added(id) = job
           /\ job[id].state = "none" => /\ Added(id)[id].state = "waiting"
                                        /\ Added(id)[id].tries = job[id].tries
  <1>1. [job[id] EXCEPT !.state = "waiting"] \in JobRec
    BY DEF JobRec, JobStates
  <1>2. CASE job[id].state = "none"
    <2>1. Added(id) = [job EXCEPT ![id] = [job[id] EXCEPT !.state = "waiting"]]
      BY <1>2 DEF Added
    <2>2. Added(id)[id] = [job[id] EXCEPT !.state = "waiting"]
      BY <2>1
    <2>3. Added(id)[id].state = "waiting" /\ Added(id)[id].tries = job[id].tries
      BY <2>2 DEF JobRec
    <2> QED BY <1>1, <1>2, <2>1, <2>3
  <1>3. CASE job[id].state # "none"
    BY <1>3 DEF Added
  <1>4. QED BY <1>2, <1>3

\* A job in its window begins; one that is too late is completed unseen.
LEMMA TakeShape ==
    ASSUME TypeOK, NEW w \in Workers, NEW id \in JobIds, Take(w, id)
    PROVE  IF WithinMessagingWindow(id[1]) THEN Begins(w, id)
           ELSE Queues(id, "completed") /\ job[id].state = "waiting"
  <1>1. wk \in [Workers -> SlotRec] /\ job \in [JobIds -> JobRec] /\ active \subseteq Campaigns
    BY TypesAre
  <1>2. CASE WithinMessagingWindow(id[1])
    <2>1. Concerned(id[1]) \subseteq Campaigns
      BY <1>1 DEF Concerned
    <2>2. Looking(id, Concerned(id[1])) \in SlotRec
      BY <2>1 DEF Looking, SlotRec, Steps
    <2>3. /\ Moves(w) /\ wk'[w] = Looking(id, Concerned(id[1]))
          /\ job' = [job EXCEPT ![id] = [job[id] EXCEPT !.state = "active"]]
      BY <1>1, <1>2, <2>2 DEF Take, Moves
    <2>4. [job[id] EXCEPT !.state = "active"] \in JobRec
      BY <1>1 DEF JobRec, JobStates
    <2>5. OnlyJob(id) /\ job'[id] = [job[id] EXCEPT !.state = "active"]
      BY <1>1, <2>3, <2>4 DEF OnlyJob
    <2>6. job'[id].state = "active" /\ job'[id].tries = job[id].tries
      BY <1>1, <2>5 DEF JobRec
    <2> QED BY <1>2, <2>3, <2>5, <2>6 DEF Begins, Looking, Take, At
  <1>3. CASE ~WithinMessagingWindow(id[1])
    <2>1. wk' = wk /\ job' = [job EXCEPT ![id] = [job[id] EXCEPT !.state = "completed"]]
      BY <1>3 DEF Take
    <2>2. [job[id] EXCEPT !.state = "completed"] \in JobRec
      BY <1>1 DEF JobRec, JobStates
    <2>3. OnlyJob(id) /\ job'[id] = [job[id] EXCEPT !.state = "completed"]
      BY <1>1, <2>1, <2>2 DEF OnlyJob
    <2>4. job'[id].state = "completed"
      BY <1>1, <2>3 DEF JobRec
    <2> QED BY <1>3, <2>1, <2>3, <2>4 DEF Queues, Take
  <1>4. QED BY <1>2, <1>3

\* A blocked job comes back one place further down its line.
LEMMA BlockedShape ==
    ASSUME TypeOK, JobsInv, NEW w \in Workers, NEW window \in Blocks, SlotBlocked(w, window)
    PROVE  ComesBack(w, RetryId(wk[w].id, window))
  <1>1. wk \in [Workers -> SlotRec] /\ job \in [JobIds -> JobRec]
    BY TypesAre
  <1>2. PICK id \in JobIds : id = wk[w].id
    BY <1>1 DEF SlotRec
  <1>3. PICK jd \in JobIds : jd = RetryId(wk[w].id, window)
    BY DEF SlotBlocked
  <1>4. jd[1] = id[1] /\ Place(jd) = Place(id) + 1
    BY <1>2, <1>3, IdIsJob DEF RetryId, Place
  <1>5. jd # id
    BY <1>4, IdIsJob
  <1> DEFINE A == Added(jd)
  <1>6. /\ A \in [JobIds -> JobRec] /\ \A d \in JobIds \ {jd} : A[d] = job[d]
        /\ job[jd].state # "none" => A = job
        /\ job[jd].state = "none" => A[jd].state = "waiting" /\ A[jd].tries = job[jd].tries
    BY <1>1, AddedIs
  <1>7. job' = [A EXCEPT ![id] = [A[id] EXCEPT !.state = "completed"]]
    BY <1>2, <1>3 DEF SlotBlocked
  <1> HIDE DEF A
  <1>8. [A[id] EXCEPT !.state = "completed"] \in JobRec /\ [A[id] EXCEPT !.state = "completed"].state = "completed"
    BY <1>6 DEF JobRec, JobStates
  <1>9. /\ job' \in [JobIds -> JobRec] /\ job'[id].state = "completed"
        /\ \A d \in JobIds \ {id} : job'[d] = A[d]
    BY <1>6, <1>7, <1>8
  <1>10. Moves(w) /\ wk'[w] = Idle
    BY <1>1, ToIdle DEF SlotBlocked
  <1>11. wk[w].at = "slot"
    BY DEF SlotBlocked, At
  <1>13. faults'["blocked"] > 0
    BY TypesAre, FaultCounts DEF SlotBlocked, Faults
  <1>12. QED
    BY <1>2, <1>3, <1>4, <1>5, <1>6, <1>9, <1>10, <1>11, <1>13 DEF ComesBack

\* A crash puts back what was active.
LEMMA CrashShape ==
    ASSUME TypeOK, Crash
    PROVE  Halts
  <1>1. wk \in [Workers -> SlotRec] /\ job \in [JobIds -> JobRec]
    BY TypesAre
  <1>2. ASSUME NEW id \in JobIds
        PROVE  /\ Stalled(job[id]) \in JobRec /\ Stalled(job[id]).state \in {"waiting", "failed"}
               /\ Stalled(job[id]).tries = job[id].tries
    <2>1. PICK j \in JobRec : j = job[id]
      BY <1>1
    <2>2. CASE j.stalls = 0
      <3> DEFINE r == [j EXCEPT !.state = "waiting"]
      <3>1. r \in JobRec /\ r.state = "waiting" /\ r.tries = j.tries
        BY DEF JobRec, JobStates
      <3>2. Stalled(job[id]) = [r EXCEPT !.stalls = 1]
        BY <2>1, <2>2 DEF Stalled
      <3> HIDE DEF r
      <3>3. [r EXCEPT !.stalls = 1] \in JobRec
        <4>1. 1 \in 0..1
          OBVIOUS
        <4> QED BY <3>1, <4>1 DEF JobRec
      <3>4. [r EXCEPT !.stalls = 1].state = r.state /\ [r EXCEPT !.stalls = 1].tries = r.tries
        BY <3>1 DEF JobRec
      <3> QED BY <2>1, <3>1, <3>2, <3>3, <3>4
    <2>3. CASE j.stalls # 0
      BY <2>1, <2>3 DEF Stalled, JobRec, JobStates
    <2> QED BY <2>2, <2>3
  <1>3. \A id \in JobIds : job'[id] = IF job[id].state = "active" THEN Stalled(job[id]) ELSE job[id]
    BY DEF Crash
  <1>4. job' \in [JobIds -> JobRec]
    BY <1>1, <1>2 DEF Crash
  <1>5. wk' \in [Workers -> SlotRec] /\ \A w \in Workers : wk'[w] = Idle
    BY IdIsJob DEF Crash
  <1>6. QED BY <1>2, <1>3, <1>4, <1>5 DEF Halts

\* The shape of every step of a slot.
LEMMA SlotShapes ==
    ASSUME TypeOK, JobsInv, NEW w \in Workers
    PROVE  /\ Finish(w) => Leaves(w, "completed") /\ wk[w].todo = {} /\ wk[w].at = "check"
           /\ Check(w) => IF AlreadyAnswered(Here(w), About(w)) THEN Continues(w)
                          ELSE GoesOn(w, "follow")
           /\ NoToken(w) => Continues(w) /\ wk[w].at = "follow"
           /\ ReadFollow(w) => \E s \in {"prompt", "reserve"} : GoesOn(w, s)
           /\ Prompt(w) => Leaves(w, "completed") /\ wk[w].at = "prompt"
           /\ Reserve(w) => GoesOn(w, "slot")
           /\ TapOverPlanLimit(w) => Leaves(w, "completed")
           /\ MessageOverPlanLimit(w) => Continues(w)
           /\ SlotGranted(w) => GoesOn(w, "send")
           /\ SlotFails(w) => Leaves(w, "waiting") \/ Leaves(w, "failed")
           /\ SlotSkipped(w) => Leaves(w, "completed")
           /\ Rejected(w) => Leaves(w, "waiting") \/ Leaves(w, "failed")
           /\ Taken(w) /\ At(w, "send") =>
                 GoesOn(w, "sent") \/ Leaves(w, "waiting") \/ Leaves(w, "failed")
           /\ RecordReveal(w) \/ RecordReply(w) =>
                 Continues(w) \/ Leaves(w, "waiting") \/ Leaves(w, "failed")
           /\ DatabaseFails(w) => Leaves(w, "waiting") \/ Leaves(w, "failed")
  <1>1. wk \in [Workers -> SlotRec] /\ job \in [JobIds -> JobRec]
    BY TypesAre
  <1>2. wk[w].at \notin {"idle", "check"} => wk[w].todo # {}
    BY DEF JobsInv, Chosen
  <1> USE <1>1, <1>2
  <1>3. Finish(w) => Leaves(w, "completed") /\ wk[w].todo = {} /\ wk[w].at = "check"
    BY ReturnLeaves DEF Finish, At
  <1>4. Check(w) => IF AlreadyAnswered(Here(w), About(w)) THEN Continues(w) ELSE GoesOn(w, "follow")
    BY ContinueContinues, GotoGoesOn DEF Check, At, Steps
  <1>5. NoToken(w) => Continues(w) /\ wk[w].at = "follow"
    BY ContinueContinues DEF NoToken, At
  <1>6. ASSUME ReadFollow(w) PROVE \E s \in {"prompt", "reserve"} : GoesOn(w, s)
    <2>1. PICK c \in BOOLEAN :
             wk' = [wk EXCEPT ![w].confirmed = c,
                              ![w].at = IF IsTap(w) /\ ~c THEN "prompt" ELSE "reserve"]
      BY <1>6, TypesAre DEF ReadFollow, FollowStatus
    <2> DEFINE s == IF IsTap(w) /\ ~c THEN "prompt" ELSE "reserve"
               r == [wk[w] EXCEPT !.confirmed = c, !.at = s]
    <2>2. wk' = [wk EXCEPT ![w] = r] /\ s \in {"prompt", "reserve"}
      BY <2>1
    <2> HIDE DEF s
    <2>3. r \in SlotRec /\ r.at = s /\ r.id = wk[w].id /\ r.todo = wk[w].todo
      BY <2>2 DEF SlotRec, Steps
    <2> HIDE DEF r
    <2>4. Moves(w) /\ wk'[w] = r
      BY <2>2, <2>3 DEF Moves
    <2>5. job' = job /\ wk[w].at = "follow"
      BY <1>6 DEF ReadFollow, At, queueVars
    <2>6. GoesOn(w, s)
      BY <2>2, <2>3, <2>4, <2>5 DEF GoesOn
    <2> QED BY <2>2, <2>6
  <1>7. Prompt(w) => Leaves(w, "completed") /\ wk[w].at = "prompt"
    BY ReturnLeaves DEF Prompt, At
  <1>8. Reserve(w) => GoesOn(w, "slot")
    BY GotoGoesOn DEF Reserve, At, Steps, queueVars
  <1>9. TapOverPlanLimit(w) => Leaves(w, "completed")
    BY ReturnLeaves DEF TapOverPlanLimit, At
  <1>10. MessageOverPlanLimit(w) => Continues(w)
    BY ContinueContinues DEF MessageOverPlanLimit, At
  <1>11. SlotGranted(w) => GoesOn(w, "send")
    BY GotoGoesOn DEF SlotGranted, At, Steps, queueVars
  <1>12. SlotFails(w) => Leaves(w, "waiting") \/ Leaves(w, "failed")
    BY ThrowLeaves DEF SlotFails, At
  <1>13. SlotSkipped(w) => Leaves(w, "completed")
    BY ReturnLeaves DEF SlotSkipped, At
  <1>14. Rejected(w) => Leaves(w, "waiting") \/ Leaves(w, "failed")
    BY ThrowLeaves DEF Rejected, SendFails, At
  <1>15. Taken(w) /\ At(w, "send") =>
            GoesOn(w, "sent") \/ Leaves(w, "waiting") \/ Leaves(w, "failed")
    BY ThrowLeaves, GotoGoesOn DEF Taken, SendFails, At, Steps
  <1>16. RecordReveal(w) \/ RecordReply(w) =>
            Continues(w) \/ Leaves(w, "waiting") \/ Leaves(w, "failed")
    BY ThrowLeaves, ContinueContinues DEF RecordReveal, RecordReply, Stored, SendFails, At
  <1>17. DatabaseFails(w) => Leaves(w, "waiting") \/ Leaves(w, "failed")
    BY ThrowLeaves DEF DatabaseFails
  <1>18. QED
    BY <1>3, <1>4, <1>5, <1>6, <1>7, <1>8, <1>9, <1>10, <1>11, <1>12, <1>13, <1>14, <1>15, <1>16,
       <1>17

\* The shape of every other step.
LEMMA QueueShapes ==
    ASSUME TypeOK, HookInv
    PROVE  /\ \A p \in Payloads : Deliver(p) \/ Processed(p) \/ EnqueueFails(p) => Stands
           /\ \A p \in Payloads : Enqueue(p) => \E i \in Interactions : Queues(<<i, 0, 0>>, job'[<<i, 0, 0>>].state)
           /\ \A id \in JobIds : EvictCompleted(id) => Queues(id, "none")
           /\ (\E c \in Campaigns : ThrottleExpires(c) \/ Pause(c)) \/ Follow \/ NextDay => Stands
  <1>1. wk \in [Workers -> SlotRec] /\ job \in [JobIds -> JobRec] /\ hook \in [Payloads -> HookRec]
    BY TypesAre
  <1>2. \A p \in Payloads : Deliver(p) \/ Processed(p) \/ EnqueueFails(p) => Stands
    BY DEF Deliver, Processed, EnqueueFails, Stands
  <1>3. ASSUME NEW p \in Payloads, Enqueue(p)
        PROVE  \E i \in Interactions : Queues(<<i, 0, 0>>, job'[<<i, 0, 0>>].state)
    <2>1. PICK i \in hook[p].left : job' = Added(<<i, 0, 0>>) /\ wk' = wk
      BY <1>3 DEF Enqueue
    <2>2. i \in Interactions /\ i \in Arrived
      <3>1. hook[p].left \subseteq Interactions /\ hook[p].left \subseteq p /\ hook[p].deliveries > 0
        BY <1>1, <1>3 DEF HookRec, HookInv, Enqueue
      <3> QED BY <2>1, <3>1 DEF Arrived
    <2>3. PICK id \in JobIds : id = <<i, 0, 0>>
      BY <2>2, IdIsJob
    <2>4. id[1] = i /\ id[2] = 0 /\ id[3] = 0
      BY <2>3
    <2>5. job' = Added(id)
      BY <2>1, <2>3
    <2>6. Queues(id, job'[id].state)
      BY <1>1, <2>1, <2>2, <2>4, <2>5, AddedIs DEF Queues, OnlyJob
    <2> QED BY <2>2, <2>3, <2>6
  <1>4. ASSUME NEW id \in JobIds, EvictCompleted(id) PROVE Queues(id, "none")
    <2>1. NoJob \in JobRec /\ NoJob.state = "none" /\ NoJob.tries = 0
      BY ConversationsAssumption DEF NoJob, JobRec, JobStates
    <2>2. job' = [job EXCEPT ![id] = NoJob] /\ wk' = wk /\ job[id].state = "completed"
      BY <1>4 DEF EvictCompleted
    <2>3. OnlyJob(id) /\ job'[id] = NoJob
      BY <1>1, <2>1, <2>2 DEF OnlyJob
    <2>4. faults'["evict"] > 0
      BY <1>4, TypesAre, FaultCounts DEF EvictCompleted, Faults
    <2> QED BY <2>1, <2>2, <2>3, <2>4 DEF Queues
  <1>5. (\E c \in Campaigns : ThrottleExpires(c) \/ Pause(c)) \/ Follow \/ NextDay => Stands
    BY DEF ThrottleExpires, Pause, Follow, NextDay, Stands, queueVars
  <1>6. QED BY <1>2, <1>3, <1>4, <1>5

Shape ==
    \/ Stands
    \/ \E id \in JobIds, s \in JobStates : Queues(id, s)
    \/ \E w \in Workers, id \in JobIds : Begins(w, id)
    \/ \E w \in Workers, s \in Steps : GoesOn(w, s)
    \/ \E w \in Workers : Continues(w)
    \/ \E w \in Workers, s \in JobStates : Leaves(w, s)
    \/ \E w \in Workers, jd \in JobIds : ComesBack(w, jd)
    \/ Halts

\* Every step has one of the shapes.
LEMMA StepShape ==
    ASSUME TypeOK, JobsInv, HookInv, [Next]_vars
    PROVE  Shape
  <1> USE DEF Shape
  <1>0. wk \in [Workers -> SlotRec] /\ job \in [JobIds -> JobRec]
    BY TypesAre
  <1>1. CASE UNCHANGED vars
    BY <1>1 DEF vars, queueVars, Stands
  <1>2. CASE \E p \in Payloads : Deliver(p) \/ Enqueue(p) \/ Processed(p) \/ EnqueueFails(p)
    <2>1. CASE \E p \in Payloads : Enqueue(p)
      <3>1. PICK i \in Interactions : Queues(<<i, 0, 0>>, job'[<<i, 0, 0>>].state)
        BY <2>1, QueueShapes
      <3>2. <<i, 0, 0>> \in JobIds /\ job'[<<i, 0, 0>>].state \in JobStates
        BY <3>1, IdIsJob DEF Queues, OnlyJob, JobRec
      <3> QED BY <3>1, <3>2
    <2> QED BY <1>2, <2>1, QueueShapes
  <1>3. CASE \E w \in Workers, id \in JobIds : Take(w, id)
    BY <1>3, TakeShape DEF JobStates
  <1>4. CASE \E w \in Workers : Run(w) \/ NoToken(w) \/ SlotFails(w) \/ Rejected(w) \/ DatabaseFails(w)
    <2>1. PICK w \in Workers : Run(w) \/ NoToken(w) \/ SlotFails(w) \/ Rejected(w) \/ DatabaseFails(w)
      BY <1>4
    <2>2. Reveal(w) \/ Reply(w) => Taken(w) /\ At(w, "send")
      BY DEF Reveal, Reply
    <2>3. (\E s \in Steps : GoesOn(w, s)) \/ Continues(w) \/ (\E s \in JobStates : Leaves(w, s))
      BY <2>1, <2>2, SlotShapes DEF Run, Steps, JobStates
    <2> QED BY <2>3
  <1>5. CASE \E w \in Workers, window \in Blocks : SlotBlocked(w, window)
    <2>1. PICK w \in Workers, window \in Blocks : SlotBlocked(w, window)
      BY <1>5
    <2>2. ComesBack(w, RetryId(wk[w].id, window)) /\ RetryId(wk[w].id, window) \in JobIds
      BY <2>1, BlockedShape DEF SlotBlocked
    <2> QED BY <2>2
  <1>6. CASE \E id \in JobIds : EvictCompleted(id)
    BY <1>6, QueueShapes DEF JobStates
  <1>7. CASE (\E c \in Campaigns : ThrottleExpires(c) \/ Pause(c)) \/ Follow \/ NextDay
    BY <1>7, QueueShapes
  <1>8. CASE Crash
    BY <1>8, CrashShape
  <1>9. QED
    BY <1>1, <1>2, <1>3, <1>4, <1>5, <1>6, <1>7, <1>8 DEF Next

-----------------------------------------------------------------------------
(* The jobs                                                                *)

\* What every step does to the faults and to the payloads that have arrived.
LEMMA Grows ==
    ASSUME TypeOK, [Next]_vars
    PROVE  /\ faults' \in [Faults -> Nat] /\ \A f \in Faults : faults'[f] >= faults[f]
           /\ Arrived \subseteq Arrived'
  <1>1. faults \in [Faults -> Nat] /\ hook \in [Payloads -> HookRec]
    BY TypesAre
  <1>2. UNCHANGED faults \/ \E f \in Faults : Fault(f)
    BY DEF Next, vars, envVars, Deliver, Enqueue, Processed, EnqueueFails, Take, Run, Finish, Check,
           ReadFollow, Prompt, Reserve, TapOverPlanLimit, MessageOverPlanLimit, SlotGranted,
           SlotSkipped, Reveal, Reply, Taken, RecordReveal, RecordReply, Stored, NoToken, SlotFails,
           Rejected, DatabaseFails, SlotBlocked, EvictCompleted, ThrottleExpires, Pause, Crash,
           Follow, NextDay, Faults
  <1>3. faults' \in [Faults -> Nat] /\ \A f \in Faults : faults'[f] >= faults[f]
    <2>1. CASE UNCHANGED faults
      BY <1>1, <2>1
    <2>2. CASE \E f \in Faults : Fault(f)
      <3>1. PICK f \in Faults : Fault(f)
        BY <2>2
      <3>2. /\ faults' \in [Faults -> Nat] /\ faults'[f] = faults[f] + 1
            /\ \A g \in Faults \ {f} : faults'[g] = faults[g]
        BY <1>1, <3>1, FaultCounts
      <3> QED BY <1>1, <3>2
    <2> QED BY <1>2, <2>1, <2>2
  <1>4. hook' = hook \/ \E p \in Payloads : Deliver(p) \/ Enqueue(p) \/ Processed(p) \/ EnqueueFails(p)
    BY DEF Next, vars, queueVars, Take, Run, Finish, Check,
           ReadFollow, Prompt, Reserve, TapOverPlanLimit, MessageOverPlanLimit, SlotGranted,
           SlotSkipped, Reveal, Reply, Taken, RecordReveal, RecordReply, Stored, NoToken, SlotFails,
           Rejected, DatabaseFails, SlotBlocked, EvictCompleted, ThrottleExpires, Pause, Crash,
           Follow, NextDay
  <1>5. \A p \in Payloads : hook[p].deliveries > 0 => hook'[p].deliveries > 0
    <2>1. ASSUME NEW p \in Payloads, Deliver(p) \/ Enqueue(p) \/ Processed(p) \/ EnqueueFails(p)
          PROVE  /\ \A q \in Payloads \ {p} : hook'[q] = hook[q]
                 /\ hook[p].deliveries > 0 => hook'[p].deliveries > 0
      <3>1. hook[p].deliveries \in Nat
        BY <1>1, ConversationsAssumption DEF HookRec
      <3>2. PICK h \in HookRec : h = hook[p]
        BY <1>1
      <3>3. CASE Deliver(p)
        <4>1. hook' = [hook EXCEPT ![p] = [state |-> "adding", left |-> p,
                                           deliveries |-> h.deliveries + 1]]
          BY <3>2, <3>3 DEF Deliver
        <4> QED BY <1>1, <3>1, <3>2, <4>1
      <3>4. CASE Enqueue(p)
        <4>1. PICK i : hook' = [hook EXCEPT ![p] = [h EXCEPT !.left = h.left \ {i}]]
          BY <3>2, <3>4 DEF Enqueue
        <4> QED BY <1>1, <3>2, <4>1 DEF HookRec
      <3>5. CASE Processed(p) \/ EnqueueFails(p)
        <4>1. PICK s \in {"PROCESSED", "FAILED"} : hook' = [hook EXCEPT ![p] = [h EXCEPT !.state = s]]
          BY <3>2, <3>5 DEF Processed, EnqueueFails
        <4> QED BY <1>1, <3>2, <4>1 DEF HookRec
      <3> QED BY <2>1, <3>3, <3>4, <3>5
    <2> QED BY <1>4, <2>1
  <1>6. Arrived \subseteq Arrived'
    BY <1>5 DEF Arrived
  <1>7. QED BY <1>3, <1>6

\* Jobs and slots keep their types and what JobsInv says of them.
LEMMA JobsStep ==
    ASSUME TypeOK, JobsInv, HookInv, [Next]_vars
    PROVE  job' \in [JobIds -> JobRec] /\ wk' \in [Workers -> SlotRec] /\ JobsInv'
  <1>1. wk \in [Workers -> SlotRec] /\ job \in [JobIds -> JobRec] /\ Arrived \subseteq Arrived'
    BY TypesAre, Grows
  <1>2. /\ \A id \in JobIds : job[id].state \in {"none", "waiting", "active"} => job[id].tries < JOB_ATTEMPTS
        /\ \A w \in Workers : Busy(w) => job[wk[w].id].state = "active"
        /\ \A v, w \in Workers : Busy(v) /\ Busy(w) /\ wk[v].id = wk[w].id => v = w
        /\ \A w \in Workers : Chosen(w) => wk[w].todo # {}
        /\ \A id \in JobIds : job[id].state # "none" => id[1] \in Arrived
        /\ \A w \in Workers : wk[w].id \in JobIds
    BY <1>1 DEF JobsInv, Live, SlotRec
  <1> DEFINE Good ==
        /\ job' \in [JobIds -> JobRec] /\ wk' \in [Workers -> SlotRec]
        /\ \A id \in JobIds : job'[id].state \in {"none", "waiting", "active"} => job'[id].tries < JOB_ATTEMPTS
        /\ \A w \in Workers : wk'[w].at # "idle" => job'[wk'[w].id].state = "active"
        /\ \A v, w \in Workers : wk'[v].at # "idle" /\ wk'[w].at # "idle" /\ wk'[v].id = wk'[w].id => v = w
        /\ \A w \in Workers : wk'[w].at \notin {"idle", "check"} => wk'[w].todo # {}
        /\ \A id \in JobIds : job'[id].state # "none" => id[1] \in Arrived'
  <1>3. ASSUME Stands PROVE Good
    BY <1>1, <1>2, <1>3 DEF Stands, Busy, Chosen
  <1>4. ASSUME NEW id \in JobIds, NEW s \in JobStates, Queues(id, s) PROVE Good
    BY <1>1, <1>2, <1>4, ConversationsAssumption DEF Queues, OnlyJob, Busy, Chosen
  <1>5. ASSUME NEW w \in Workers, NEW id \in JobIds, Begins(w, id) PROVE Good
    BY <1>1, <1>2, <1>5 DEF Begins, Moves, OnlyJob, Busy, Chosen
  <1>6. ASSUME NEW w \in Workers, NEW s \in Steps, GoesOn(w, s) PROVE Good
    BY <1>1, <1>2, <1>6 DEF GoesOn, Moves, Busy, Chosen
  <1>7. ASSUME NEW w \in Workers, Continues(w) PROVE Good
    BY <1>1, <1>2, <1>7 DEF Continues, Moves, Busy, Chosen
  <1>8. ASSUME NEW w \in Workers, NEW s \in JobStates, Leaves(w, s) PROVE Good
    BY <1>1, <1>2, <1>8 DEF Leaves, Moves, OnlyJob, Busy, Chosen, Idle
  <1>9. ASSUME NEW w \in Workers, NEW jd \in JobIds, ComesBack(w, jd) PROVE Good
    BY <1>1, <1>2, <1>9 DEF ComesBack, Moves, Busy, Chosen, Idle
  <1>10. ASSUME Halts PROVE Good
    BY <1>1, <1>2, <1>10 DEF Halts, Busy, Chosen, Idle
  <1>11. Good
    BY <1>3, <1>4, <1>5, <1>6, <1>7, <1>8, <1>9, <1>10, StepShape DEF Shape
  <1>12. QED
    BY <1>11 DEF JobsInv, Live, Busy, Chosen

\* A job's requeue was not there before, and a job that is added while nothing is
\* forgotten is the interaction's first.
LEMMA OneLineStep ==
    ASSUME TypeOK, JobsInv, HookInv, OneLine, [Next]_vars
    PROVE  OneLine'
  <1>1. wk \in [Workers -> SlotRec] /\ job \in [JobIds -> JobRec] /\ faults \in [Faults -> Nat]
    BY TypesAre
  <1>2. /\ faults'["blocked"] \in Nat /\ faults'["blocked"] = 0 => faults["blocked"] = 0
        /\ faults'["evict"] \in Nat /\ faults'["evict"] = 0 => faults["evict"] = 0
    BY <1>1, Grows DEF Faults
  <1>3. \A w \in Workers : wk[w].id \in JobIds /\ (wk[w].at # "idle" => job[wk[w].id].state = "active")
    BY <1>1 DEF SlotRec, JobsInv, Busy
  <1>4. ASSUME faults'["blocked"] = 0
        PROVE  \A id \in JobIds : Place(id) > 0 => job'[id].state = "none"
    <2>1. \A id \in JobIds : Place(id) > 0 => job[id].state = "none"
      BY <1>2, <1>4 DEF OneLine
    <2>2. ASSUME NEW id \in JobIds, NEW s \in JobStates, Queues(id, s)
          PROVE  \A jd \in JobIds : Place(jd) > 0 => job'[jd].state = "none"
      BY <2>1, <2>2, IdIsJob DEF Queues, OnlyJob, Place
    <2>3. CASE Halts
      BY <2>1, <2>3 DEF Halts
    <2>4. ASSUME NEW w \in Workers, NEW id \in JobIds, Begins(w, id)
          PROVE  \A jd \in JobIds : Place(jd) > 0 => job'[jd].state = "none"
      BY <2>1, <2>4 DEF Begins, OnlyJob
    <2>5. ASSUME NEW w \in Workers, NEW s \in JobStates, Leaves(w, s)
          PROVE  \A jd \in JobIds : Place(jd) > 0 => job'[jd].state = "none"
      BY <1>3, <2>1, <2>5 DEF Leaves, OnlyJob
    <2>6. \A w \in Workers, s \in Steps : GoesOn(w, s) \/ Continues(w) => job' = job
      BY DEF GoesOn, Continues
    <2>7. \A w \in Workers, jd \in JobIds : ~ComesBack(w, jd)
      BY <1>4 DEF ComesBack
    <2>8. Stands => job' = job
      BY DEF Stands
    <2>9. (\E w \in Workers : Continues(w)) => job' = job
      BY DEF Continues
    <2> QED BY <2>1, <2>2, <2>3, <2>4, <2>5, <2>6, <2>7, <2>8, <2>9, StepShape DEF Shape
  <1> DEFINE Line ==
        /\ \A id \in JobIds : job'[id].state # "none" => job'[<<id[1], 0, 0>>].state # "none"
        /\ \A id, jd \in JobIds : id[1] = jd[1] /\ id # jd /\ job'[id].state \in {"waiting", "active"}
                                    /\ job'[jd].state # "none" => Place(jd) < Place(id)
  <1>5. ASSUME faults'["evict"] = 0 PROVE Line
    <2>1. /\ \A id \in JobIds : job[id].state # "none" => job[<<id[1], 0, 0>>].state # "none"
          /\ \A id, jd \in JobIds : id[1] = jd[1] /\ id # jd /\ job[id].state \in {"waiting", "active"}
                                      /\ job[jd].state # "none" => Place(jd) < Place(id)
      BY <1>2, <1>5 DEF OneLine, Live
    <2>2. \A id \in JobIds : <<id[1], 0, 0>> \in JobIds /\ Place(id) \in Nat
      BY IdIsJob
    <2>3. ASSUME NEW id \in JobIds, NEW s \in JobStates, Queues(id, s) PROVE Line
      <3>1. CASE job' = job
        BY <2>1, <3>1
      <3>2. CASE job[id].state = "waiting" /\ s = "completed"
        BY <2>1, <2>2, <2>3, <3>2 DEF Queues, OnlyJob
      <3>3. CASE job[id].state = "none" /\ s = "waiting" /\ id[2] = 0 /\ id[3] = 0
        <4>1. id = <<id[1], 0, 0>>
          BY <3>3, IdIsJob
        <4>2. \A jd \in JobIds \ {id} : jd[1] = id[1] => job[jd].state = "none"
          BY <2>1, <3>3, <4>1
        <4> QED BY <2>1, <2>2, <2>3, <3>3, <4>1, <4>2 DEF Queues, OnlyJob
      <3> QED BY <1>5, <2>3, <3>1, <3>2, <3>3 DEF Queues
    <2>4. ASSUME Halts PROVE Line
      BY <2>1, <2>2, <2>4 DEF Halts
    <2>5. ASSUME NEW w \in Workers, NEW id \in JobIds, Begins(w, id) PROVE Line
      BY <2>1, <2>2, <2>5 DEF Begins, OnlyJob
    <2>6. ASSUME NEW w \in Workers, NEW s \in JobStates, Leaves(w, s) PROVE Line
      BY <1>3, <2>1, <2>2, <2>6 DEF Leaves, OnlyJob
    <2>7. ASSUME NEW w \in Workers, NEW jd \in JobIds, ComesBack(w, jd) PROVE Line
      <3>1. PICK id \in JobIds : id = wk[w].id
        BY <1>3
      <3>2. job[id].state = "active" /\ jd # id /\ jd[1] = id[1] /\ Place(jd) = Place(id) + 1
        BY <1>3, <2>2, <2>7, <3>1 DEF ComesBack
      <3>3. \A d \in JobIds : d[1] = id[1] /\ d # id /\ job[d].state # "none" => Place(d) < Place(id)
        BY <2>1, <3>2
      <3>4. Place(id) \in Nat /\ Place(jd) \in Nat
        BY <2>2
      <3>5. job[jd].state = "none"
        BY <3>2, <3>3, <3>4
      <3>6. /\ job'[id].state = "completed" /\ job'[jd].state = "waiting"
            /\ \A d \in JobIds \ {id, jd} : job'[d] = job[d]
        BY <2>7, <3>1, <3>5 DEF ComesBack
      <3>7. \A d \in JobIds \ {jd} : d[1] = id[1] /\ job[d].state # "none" => Place(d) < Place(jd)
        <4> SUFFICES ASSUME NEW d \in JobIds \ {jd}, d[1] = id[1], job[d].state # "none"
                     PROVE  Place(d) < Place(jd)
          OBVIOUS
        <4>1. Place(d) \in Nat /\ (d # id => Place(d) < Place(id))
          BY <2>2, <3>3
        <4> QED BY <3>2, <3>4, <4>1
      <3>8. \A d \in JobIds \ {id, jd} : d[1] = id[1] => job[d].state \notin {"waiting", "active"}
        <4> SUFFICES ASSUME NEW d \in JobIds \ {id, jd}, d[1] = id[1], job[d].state \in {"waiting", "active"}
                     PROVE  FALSE
          OBVIOUS
        <4>1. Place(d) \in Nat /\ Place(d) < Place(id)
          BY <2>2, <3>3
        <4>2. Place(id) < Place(d)
          BY <2>1, <3>2
        <4> QED BY <3>4, <4>1, <4>2
      <3>9. \A d \in JobIds : job'[d].state # "none" => job'[<<d[1], 0, 0>>].state # "none"
        BY <2>1, <2>2, <3>2, <3>6
      <3> HIDE DEF Place
      <3>10. \A d, e \in JobIds : d[1] = e[1] /\ d # e /\ job'[d].state \in {"waiting", "active"}
                                   /\ job'[e].state # "none" => Place(e) < Place(d)
        BY <2>1, <2>2, <3>2, <3>6, <3>7, <3>8
      <3> QED BY <3>9, <3>10
    <2>8. \A w \in Workers, s \in Steps : GoesOn(w, s) \/ Continues(w) => job' = job
      BY DEF GoesOn, Continues
    <2>9. Stands => job' = job
      BY DEF Stands
    <2>10. (\E w \in Workers : Continues(w)) => job' = job
      BY DEF Continues
    <2>11. job' = job => Line
      BY <2>1
    <2> HIDE DEF Line
    <2> QED BY <2>3, <2>4, <2>5, <2>6, <2>7, <2>8, <2>9, <2>10, <2>11, StepShape DEF Shape
  <1>6. QED
    BY <1>4, <1>5 DEF OneLine, Live, Place

\* While jobs are not handled twice, an interaction has one live job.
LEMMA OneLive ==
    ASSUME TypeOK, OneLine, ~MayRunTwice, NEW id \in JobIds, NEW jd \in JobIds,
           id[1] = jd[1], Live(id), Live(jd)
    PROVE  id = jd
  <1>1. faults["blocked"] \in Nat /\ faults["evict"] \in Nat
    BY TypesAre DEF Faults
  <1>2. CASE faults["evict"] = 0
    <2>1. id # jd => Place(id) < Place(jd) /\ Place(jd) < Place(id)
      BY <1>2 DEF OneLine, Live
    <2> QED BY <2>1, IdIsJob
  <1>3. CASE faults["blocked"] = 0
    <2>1. Place(id) = 0 /\ Place(jd) = 0
      BY <1>3, IdIsJob DEF OneLine, Live
    <2>2. id[2] = 0 /\ id[3] = 0 /\ jd[2] = 0 /\ jd[3] = 0
      BY <2>1, IdIsJob DEF Place
    <2> QED BY <2>2, IdIsJob
  <1>4. QED BY <1>1, <1>2, <1>3 DEF MayRunTwice

-----------------------------------------------------------------------------
(* The quota                                                               *)

\* The sums and cardinalities below are over finite sets.
LEMMA RowsFinite == IsFiniteSet(Rows) /\ IsFiniteSet(Campaigns) /\ IsFiniteSet(Workers)
  <1>1. IsFiniteSet(Campaigns)
    BY ConversationsAssumption, FS_Interval DEF Campaigns
  <1>2. QED BY <1>1, ConversationsAssumption, FS_Product DEF Rows

\* A message more is one more in the sum.
LEMMA MeteredCount ==
    ASSUME links \in [Rows -> Nat], asks \in [Rows -> Nat]
    PROVE  /\ Metered \in Nat
           /\ links' = links /\ asks' = asks => Metered' = Metered
           /\ \A r \in Rows : links' = [links EXCEPT ![r] = @ + 1] /\ asks' = asks => Metered' = Metered + 1
           /\ \A r \in Rows : asks' = [asks EXCEPT ![r] = @ + 1] /\ links' = links => Metered' = Metered + 1
  <1>1. /\ Metered = SumOver(links, Rows) + SumOver(asks, Rows)
        /\ Metered' = SumOver(links', Rows) + SumOver(asks', Rows)
    BY DEF Metered, SumOver, MapThenSumSet, MapThenFoldSet
  <1>2. SumOver(links, Rows) \in Nat /\ SumOver(asks, Rows) \in Nat
    BY RowsFinite, SumIsNat
  <1>3. \A r \in Rows : links' = [links EXCEPT ![r] = @ + 1] => SumOver(links', Rows) = SumOver(links, Rows) + 1
    BY RowsFinite, SumGrows
  <1>4. \A r \in Rows : asks' = [asks EXCEPT ![r] = @ + 1] => SumOver(asks', Rows) = SumOver(asks, Rows) + 1
    BY RowsFinite, SumGrows
  <1>5. QED BY <1>1, <1>2, <1>3, <1>4

\* Two sets of slots that differ at most in slot w.
LEMMA SlotCount ==
    ASSUME NEW w \in Workers, NEW S \in SUBSET Workers, NEW T \in SUBSET Workers,
           \A v \in Workers \ {w} : v \in S <=> v \in T
    PROVE  /\ Cardinality(S) \in Nat /\ Cardinality(T) \in Nat
           /\ (w \in S <=> w \in T) => Cardinality(T) = Cardinality(S)
           /\ w \notin S /\ w \in T => Cardinality(T) = Cardinality(S) + 1
           /\ w \in S /\ w \notin T => Cardinality(T) = Cardinality(S) - 1
           /\ w \in S => Cardinality(S) > 0
  <1>1. IsFiniteSet(S) /\ IsFiniteSet(T)
    BY RowsFinite, FS_Subset
  <1>2. Cardinality(S) \in Nat /\ Cardinality(T) \in Nat
    BY <1>1, FS_CardinalityType
  <1>3. (w \in S <=> w \in T) => T = S
    OBVIOUS
  <1>4. w \notin S /\ w \in T => T = S \cup {w}
    OBVIOUS
  <1>5. w \in S /\ w \notin T => T = S \ {w}
    OBVIOUS
  <1>6. w \in S => Cardinality(S) # 0
    BY <1>1, FS_EmptySet
  <1>7. w \notin S => Cardinality(S \cup {w}) = Cardinality(S) + 1
    BY <1>1, FS_AddElement
  <1>8. w \in S => Cardinality(S \ {w}) = Cardinality(S) - 1
    BY <1>1, FS_RemoveElement
  <1>9. (w \in S <=> w \in T) => Cardinality(T) = Cardinality(S)
    BY <1>3
  <1>10. w \notin S /\ w \in T => Cardinality(T) = Cardinality(S) + 1
    BY <1>4, <1>7
  <1>11. w \in S /\ w \notin T => Cardinality(T) = Cardinality(S) - 1
    BY <1>5, <1>8
  <1>12. w \in S => Cardinality(S) > 0
    BY <1>2, <1>6
  <1>13. QED BY <1>2, <1>9, <1>10, <1>11, <1>12

Held   == Cardinality(Holding)
Unread == Cardinality(OnTheWay)

\* The slots that hold a reservation and those whose message is out, before and
\* after a step of slot w.
LEMMA Tally ==
    ASSUME wk \in [Workers -> SlotRec], NEW w \in Workers, Moves(w)
    PROVE  /\ Held \in Nat /\ Unread \in Nat /\ Held' \in Nat /\ Unread' \in Nat
           /\ Cardinality(Holding \ OnTheWay) = Held - Unread
           /\ Cardinality(Holding' \ OnTheWay') = Held' - Unread'
           /\ wk[w].at \in {"slot", "send", "sent"} => Held > 0
           /\ Held' = Held + (IF wk'[w].at \in {"slot", "send", "sent"} THEN 1 ELSE 0)
                           - (IF wk[w].at \in {"slot", "send", "sent"} THEN 1 ELSE 0)
           /\ Unread' = Unread + (IF wk'[w].at = "sent" THEN 1 ELSE 0)
                               - (IF wk[w].at = "sent" THEN 1 ELSE 0)
  <1>1. /\ \A v \in Workers \ {w} : v \in Holding <=> v \in Holding'
        /\ \A v \in Workers \ {w} : v \in OnTheWay <=> v \in OnTheWay'
    BY DEF Moves, Holding, OnTheWay
  <1>2. /\ Holding \subseteq Workers /\ Holding' \subseteq Workers
        /\ OnTheWay \subseteq Holding /\ OnTheWay' \subseteq Holding'
    BY DEF Holding, OnTheWay
  <1>3. /\ w \in Holding <=> wk[w].at \in {"slot", "send", "sent"}
        /\ w \in Holding' <=> wk'[w].at \in {"slot", "send", "sent"}
        /\ w \in OnTheWay <=> wk[w].at = "sent"
        /\ w \in OnTheWay' <=> wk'[w].at = "sent"
    BY DEF Holding, OnTheWay
  <1> DEFINE H == Holding
             K == Holding'
             O == OnTheWay
             Q == OnTheWay'
  <1>4. ASSUME NEW S \in SUBSET Workers, NEW T \in SUBSET S
        PROVE  Cardinality(S \ T) = Cardinality(S) - Cardinality(T)
    <2>1. IsFiniteSet(S) /\ S \cap T = T
      BY RowsFinite, FS_Subset
    <2> QED BY <2>1, FS_Difference
  <1>5. /\ Cardinality(H \ O) = Cardinality(H) - Cardinality(O)
        /\ Cardinality(K \ Q) = Cardinality(K) - Cardinality(Q)
    <2>1. /\ H \in SUBSET Workers /\ K \in SUBSET Workers
          /\ O \in SUBSET H /\ Q \in SUBSET K
      BY <1>2
    <2> HIDE DEF H, K, O, Q
    <2> QED BY <1>4, <2>1
  <1>6. /\ Cardinality(H) \in Nat /\ Cardinality(K) \in Nat
        /\ (w \in H <=> w \in K) => Cardinality(K) = Cardinality(H)
        /\ w \notin H /\ w \in K => Cardinality(K) = Cardinality(H) + 1
        /\ w \in H /\ w \notin K => Cardinality(K) = Cardinality(H) - 1
        /\ w \in H => Cardinality(H) > 0
    <2>1. H \in SUBSET Workers /\ K \in SUBSET Workers /\ \A v \in Workers \ {w} : v \in H <=> v \in K
      BY <1>1, <1>2
    <2> HIDE DEF H, K
    <2> QED BY <2>1, SlotCount
  <1>7. /\ Cardinality(O) \in Nat /\ Cardinality(Q) \in Nat
        /\ (w \in O <=> w \in Q) => Cardinality(Q) = Cardinality(O)
        /\ w \notin O /\ w \in Q => Cardinality(Q) = Cardinality(O) + 1
        /\ w \in O /\ w \notin Q => Cardinality(Q) = Cardinality(O) - 1
    <2>1. O \in SUBSET Workers /\ Q \in SUBSET Workers /\ \A v \in Workers \ {w} : v \in O <=> v \in Q
      BY <1>1, <1>2
    <2> HIDE DEF O, Q
    <2> QED BY <2>1, SlotCount
  <1>8. QED
    BY <1>3, <1>5, <1>6, <1>7 DEF Held, Unread

\* The property, before and after a step, in these numbers.
LEMMA ExplainedIs ==
    ASSUME TypeOK, [Next]_vars
    PROVE  /\ Held \in Nat /\ Unread \in Nat /\ Cardinality(Workers) \in Nat /\ Held <= Cardinality(Workers)
           /\ UsageIsExplained <=>
                 /\ used + Unread <= Metered + Held + faults["limiter"]
                                       + Cardinality(Workers) * faults["crash"]
                 /\ Metered + (Held - Unread) <= used + faults["lostAnswer"]
           /\ UsageIsExplained' <=>
                 /\ used' + Unread' <= Metered' + Held' + faults'["limiter"]
                                         + Cardinality(Workers) * faults'["crash"]
                 /\ Metered' + (Held' - Unread') <= used' + faults'["lostAnswer"]
  <1>1. ASSUME NEW S \in SUBSET Workers, NEW T \in SUBSET S
        PROVE  /\ Cardinality(S) \in Nat /\ Cardinality(T) \in Nat
               /\ Cardinality(S) <= Cardinality(Workers)
               /\ Cardinality(S \ T) = Cardinality(S) - Cardinality(T)
    <2>1. IsFiniteSet(S) /\ IsFiniteSet(T) /\ S \cap T = T /\ Cardinality(S) <= Cardinality(Workers)
      BY RowsFinite, FS_Subset
    <2> QED BY <2>1, FS_Difference, FS_CardinalityType
  <1>2. /\ Holding \in SUBSET Workers /\ Holding' \in SUBSET Workers
        /\ OnTheWay \in SUBSET Holding /\ OnTheWay' \in SUBSET Holding'
    BY DEF Holding, OnTheWay
  <1> DEFINE H == Holding
             K == Holding'
             O == OnTheWay
             Q == OnTheWay'
  <1>3. /\ Cardinality(H) \in Nat /\ Cardinality(O) \in Nat /\ Cardinality(H) <= Cardinality(Workers)
        /\ Cardinality(H \ O) = Cardinality(H) - Cardinality(O)
        /\ Cardinality(K \ Q) = Cardinality(K) - Cardinality(Q)
    <2> HIDE DEF H, K, O, Q
    <2> QED BY <1>1, <1>2 DEF H, K, O, Q
  <1>4. Cardinality(Workers) \in Nat
    BY RowsFinite, FS_CardinalityType
  <1>5. QED BY <1>3, <1>4 DEF UsageIsExplained, Held, Unread

\* What a step may do to the counter, the messages sent and the reservations held.
Reserves  == used < DmLimit /\ used' = used + 1 /\ Held' = Held + 1 /\ Unread' = Unread /\ Metered' = Metered
Releases  == used' = used - 1 /\ Held' = Held - 1 /\ Held > 0 /\ Unread' = Unread /\ Metered' = Metered
Mislays   == /\ used' = used /\ Held' = Held - 1 /\ Unread' = Unread /\ Metered' = Metered
             /\ faults'["limiter"] = faults["limiter"] + 1
Sent      == used' = used /\ Held' = Held /\ Unread' = Unread + 1 /\ Metered' = Metered + 1
Mistakes  == /\ used' = used - 1 /\ Held' = Held - 1 /\ Held > 0
             /\ faults'["lostAnswer"] = faults["lostAnswer"] + 1
             /\ \/ Unread' = Unread /\ Metered' = Metered + 1
                \/ Unread' = Unread - 1 /\ Metered' = Metered
Records   == used' = used /\ Held' = Held - 1 /\ Unread' = Unread - 1 /\ Metered' = Metered
Drops     == /\ used' = used /\ Held' = 0 /\ Unread' = 0 /\ Metered' = Metered
             /\ faults'["crash"] = faults["crash"] + 1
Balances   == used' = used /\ Held' = Held /\ Unread' = Unread /\ Metered' = Metered
UsageShape == \/ Reserves \/ Releases \/ Mislays \/ Sent \/ Mistakes \/ Records \/ Drops \/ Balances

\* Each of these keeps the counter explained.
LEMMA UsageStep ==
    ASSUME TypeOK, Held <= used, UsageIsExplained, [Next]_vars, UsageShape
    PROVE  used' \in 0..DmLimit /\ Held' <= used' /\ UsageIsExplained'
  <1>1. /\ faults \in [Faults -> Nat] /\ used \in 0..DmLimit
        /\ links \in [Rows -> Nat] /\ asks \in [Rows -> Nat]
    BY TypesAre
  <1> DEFINE N == Cardinality(Workers)
             lim == faults["limiter"]
             lost == faults["lostAnswer"]
             dead == faults["crash"]
             lim2 == faults'["limiter"]
             lost2 == faults'["lostAnswer"]
             dead2 == faults'["crash"]
             dues == N * dead
             dues2 == N * dead2
  <1>2. /\ lim \in Nat /\ lost \in Nat /\ dead \in Nat /\ lim2 \in Nat /\ lost2 \in Nat /\ dead2 \in Nat
        /\ lim2 >= lim /\ lost2 >= lost /\ dead2 >= dead
    BY <1>1, Grows DEF Faults
  <1>3. Metered \in Nat
    BY <1>1, MeteredCount
  <1>4. /\ Held \in Nat /\ Unread \in Nat /\ N \in Nat /\ Held <= N
        /\ used + Unread <= Metered + Held + lim + dues
        /\ Metered + (Held - Unread) <= used + lost
        /\ UsageIsExplained' <=>
                 /\ used' + Unread' <= Metered' + Held' + lim2 + dues2
                 /\ Metered' + (Held' - Unread') <= used' + lost2
    BY ExplainedIs
  <1>5. /\ dues \in Nat /\ dues2 \in Nat /\ dues2 >= dues
        /\ dead2 = dead + 1 => dues2 = dues + N
    <2>1. N \in Nat /\ dead \in Nat /\ dead2 \in Nat /\ dead2 >= dead
      BY <1>2, <1>4
    <2> HIDE DEF N, dead, dead2
    <2>2. dues \in Nat /\ dues2 \in Nat /\ dues2 >= dues
      BY <2>1
    <2>3. dead2 = dead + 1 => dues2 = dues + N
      BY <2>1
    <2> QED BY <2>2, <2>3
  <1>6. used \in Nat /\ DmLimit \in Nat /\ used <= DmLimit
    BY <1>1, ConversationsAssumption
  <1>7. Unread <= Held
    <2>1. OnTheWay \subseteq Holding /\ IsFiniteSet(Holding)
      BY RowsFinite, FS_Subset DEF OnTheWay, Holding
    <2> QED BY <2>1, FS_Subset DEF Held, Unread
  <1>8. Drops => dead2 = dead + 1
    BY DEF Drops
  <1>9. Mislays => lim2 = lim + 1
    BY DEF Mislays
  <1>10. Mistakes => lost2 = lost + 1
    BY DEF Mistakes
  <1> HIDE DEF N, lim, lost, dead, lim2, lost2, dead2, dues, dues2
  <1> DEFINE Fine == /\ used' \in 0..DmLimit /\ Held' <= used'
                     /\ used' + Unread' <= Metered' + Held' + lim2 + dues2
                     /\ Metered' + (Held' - Unread') <= used' + lost2
  <1> USE <1>2, <1>3, <1>4, <1>5, <1>6, <1>7
  <1>11. Reserves => Fine
    BY DEF Reserves
  <1>12. Releases => Fine
    BY DEF Releases
  <1>13. Mislays => Fine
    BY <1>9 DEF Mislays
  <1>14. Sent => Fine
    BY DEF Sent
  <1>15. Mistakes => Fine
    BY <1>10 DEF Mistakes
  <1>16. Records => Fine
    BY DEF Records
  <1>17. Drops => Fine
    BY <1>8 DEF Drops
  <1>18. Balances => Fine
    BY DEF Balances
  <1>19. QED
    BY <1>11, <1>12, <1>13, <1>14, <1>15, <1>16, <1>17, <1>18 DEF UsageShape

\* Every step is one of these.
LEMMA UsageShapes ==
    ASSUME TypeOK, JobsInv, HookInv, [Next]_vars
    PROVE  UsageShape
  <1>1. /\ wk \in [Workers -> SlotRec] /\ job \in [JobIds -> JobRec] /\ faults \in [Faults -> Nat]
        /\ links \in [Rows -> Nat] /\ asks \in [Rows -> Nat] /\ used \in Nat
    BY TypesAre, ConversationsAssumption
  <1>2. links' = links /\ asks' = asks => Metered' = Metered
    BY <1>1, MeteredCount
  <1>3. wk' = wk => Held' = Held /\ Unread' = Unread
    BY DEF Held, Unread, Holding, OnTheWay
  <1>4. ASSUME NEW w \in Workers, Moves(w)
        PROVE  /\ Held \in Nat /\ Unread \in Nat
               /\ wk[w].at \in {"slot", "send", "sent"} => Held > 0
               /\ Held' = Held + (IF wk'[w].at \in {"slot", "send", "sent"} THEN 1 ELSE 0)
                               - (IF wk[w].at \in {"slot", "send", "sent"} THEN 1 ELSE 0)
               /\ Unread' = Unread + (IF wk'[w].at = "sent" THEN 1 ELSE 0)
                                   - (IF wk[w].at = "sent" THEN 1 ELSE 0)
    BY <1>1, <1>4, Tally
  <1>5. ASSUME NEW w \in Workers, NEW s, Leaves(w, s) PROVE Moves(w) /\ wk'[w].at = "idle"
    BY <1>5 DEF Leaves, Idle
  <1>6. ASSUME NEW w \in Workers, Continues(w) PROVE Moves(w) /\ wk'[w].at = "check"
    BY <1>6 DEF Continues
  <1>7. ASSUME NEW w \in Workers, NEW s, GoesOn(w, s) PROVE Moves(w) /\ wk'[w].at = s
    BY <1>7 DEF GoesOn
  <1>8. CASE UNCHANGED vars
    BY <1>2, <1>3, <1>8 DEF vars, metaVars, UsageShape, Balances
  <1>9. CASE \E p \in Payloads : Deliver(p) \/ Enqueue(p) \/ Processed(p) \/ EnqueueFails(p)
    BY <1>2, <1>3, <1>9 DEF Deliver, Enqueue, Processed, EnqueueFails, metaVars, UsageShape, Balances
  <1>10. CASE \E w \in Workers, id \in JobIds : Take(w, id)
    <2>1. PICK w \in Workers, id \in JobIds : Take(w, id)
      BY <1>10
    <2>2. used' = used /\ links' = links /\ asks' = asks
      BY <2>1 DEF Take, metaVars
    <2>3. CASE WithinMessagingWindow(id[1])
      <3>1. Moves(w) /\ wk[w].at = "idle" /\ wk'[w].at = "check"
        BY <2>1, <2>3, TakeShape DEF Begins
      <3> QED BY <1>2, <1>4, <2>2, <3>1 DEF UsageShape, Balances
    <2>4. CASE ~WithinMessagingWindow(id[1])
      BY <1>2, <1>3, <2>1, <2>2, <2>4 DEF Take, UsageShape, Balances
    <2> QED BY <2>3, <2>4
  <1>11. CASE \E w \in Workers : Run(w) \/ NoToken(w) \/ SlotFails(w) \/ Rejected(w) \/ DatabaseFails(w)
    <2>1. PICK w \in Workers : Run(w) \/ NoToken(w) \/ SlotFails(w) \/ Rejected(w) \/ DatabaseFails(w)
      BY <1>11
    <2> DEFINE Quiet == used' = used /\ links' = links /\ asks' = asks
    <2>2. ASSUME Quiet, Moves(w), wk[w].at \notin {"slot", "send", "sent"},
                 wk'[w].at \notin {"slot", "send", "sent"}
          PROVE  Balances
      BY <1>2, <1>4, <2>2 DEF Balances
    <2>3. Finish(w) => UsageShape
      BY <1>5, <2>2, SlotShapes DEF Finish, At, metaVars, UsageShape
    <2>4. Check(w) => UsageShape
      BY <1>6, <1>7, <2>2, SlotShapes DEF Check, At, metaVars, UsageShape
    <2>5. NoToken(w) => UsageShape
      BY <1>6, <2>2, SlotShapes DEF NoToken, At, metaVars, UsageShape
    <2>6. ReadFollow(w) => UsageShape
      BY <1>7, <2>2, SlotShapes DEF ReadFollow, At, metaVars, UsageShape
    <2>7. Prompt(w) => UsageShape
      BY <1>5, <2>2, SlotShapes DEF Prompt, At, metaVars, UsageShape
    <2>8. Reserve(w) => UsageShape
      BY <1>2, <1>4, <1>7, SlotShapes DEF Reserve, At, metaVars, UsageShape, Reserves
    <2>9. TapOverPlanLimit(w) => UsageShape
      BY <1>5, <2>2, SlotShapes DEF TapOverPlanLimit, At, metaVars, UsageShape
    <2>10. MessageOverPlanLimit(w) => UsageShape
      BY <1>6, <2>2, SlotShapes DEF MessageOverPlanLimit, At, metaVars, UsageShape
    <2>11. SlotGranted(w) => UsageShape
      BY <1>2, <1>4, <1>7, SlotShapes DEF SlotGranted, At, metaVars, UsageShape, Balances
    <2>12. ASSUME SlotFails(w) PROVE UsageShape
      <3>1. Moves(w) /\ wk'[w].at = "idle"
        BY <1>5, <2>12, SlotShapes
      <3>2. faults'["limiter"] = faults["limiter"] + 1
        BY <1>1, <2>12, FaultCounts DEF SlotFails, Faults
      <3> QED BY <1>2, <1>4, <2>12, <3>1, <3>2 DEF SlotFails, At, metaVars, UsageShape, Mislays
    <2>13. SlotSkipped(w) => UsageShape
      BY <1>2, <1>4, <1>5, SlotShapes DEF SlotSkipped, At, metaVars, UsageShape, Releases
    <2>14. Rejected(w) => UsageShape
      BY <1>2, <1>4, <1>5, SlotShapes DEF Rejected, SendFails, At, metaVars, UsageShape, Releases
    <2>15. ASSUME Reveal(w) \/ Reply(w) PROVE UsageShape
      <3>1. Taken(w) /\ wk[w].at = "send"
        BY <2>15 DEF Reveal, Reply, At
      <3>2. PICK r \in Rows : r = Row(w)
        BY <1>1, <3>1, HereIsIn DEF JobsInv, Chosen
      <3>3. \/ links' = [links EXCEPT ![r] = @ + 1] /\ asks' = asks
            \/ asks' = [asks EXCEPT ![r] = @ + 1] /\ links' = links
        BY <2>15, <3>2 DEF Reveal, Reply
      <3>4. Metered' = Metered + 1
        BY <1>1, <3>3, MeteredCount
      <3>5. CASE Goto(w, "sent") /\ UNCHANGED <<job, log, used, faults>>
        <4>1. wk[w].todo # {}
          BY <3>1 DEF JobsInv, Chosen
        <4>2. GoesOn(w, "sent")
          BY <1>1, <3>1, <3>5, <4>1, GotoGoesOn DEF Steps
        <4> QED BY <1>4, <1>7, <3>1, <3>4, <3>5, <4>2 DEF UsageShape, Sent
      <3>6. CASE Fault("lostAnswer") /\ SendFails(w)
        <4>1. faults'["lostAnswer"] = faults["lostAnswer"] + 1
          BY <1>1, <3>6, FaultCounts DEF Faults
        <4>2. Moves(w) /\ wk'[w].at = "idle" /\ used' = used - 1
          BY <1>1, <1>5, <3>1, <3>6, ThrowLeaves DEF SendFails
        <4> QED BY <1>4, <3>1, <3>4, <4>1, <4>2 DEF UsageShape, Mistakes
      <3> QED BY <3>1, <3>5, <3>6 DEF Taken
    <2>16. ASSUME RecordReveal(w) \/ RecordReply(w) PROVE UsageShape
      <3>1. wk[w].at = "sent" /\ links' = links /\ asks' = asks
        BY <2>16 DEF RecordReveal, RecordReply, At, metaVars
      <3>2. CASE \E stage : Stored(w, stage)
        <4>1. Moves(w) /\ wk'[w].at = "check" /\ used' = used
          <5>1. wk[w].todo # {}
            BY <3>1 DEF JobsInv, Chosen
          <5> QED BY <1>1, <1>6, <3>1, <3>2, <5>1, ContinueContinues DEF Stored
        <4> QED BY <1>2, <1>4, <3>1, <4>1 DEF UsageShape, Records
      <3>3. CASE Fault("lostAnswer") /\ SendFails(w)
        <4>1. faults'["lostAnswer"] = faults["lostAnswer"] + 1
          BY <1>1, <3>3, FaultCounts DEF Faults
        <4>2. Moves(w) /\ wk'[w].at = "idle" /\ used' = used - 1
          BY <1>1, <1>5, <3>1, <3>3, ThrowLeaves DEF SendFails
        <4> QED BY <1>2, <1>4, <3>1, <4>1, <4>2 DEF UsageShape, Mistakes
      <3> QED BY <2>16, <3>2, <3>3 DEF RecordReveal, RecordReply
    <2>17. DatabaseFails(w) => UsageShape
      BY <1>5, <2>2, SlotShapes DEF DatabaseFails, At, metaVars, UsageShape
    <2> QED
      BY <2>1, <2>3, <2>4, <2>5, <2>6, <2>7, <2>8, <2>9, <2>10, <2>11, <2>12, <2>13, <2>14, <2>15,
         <2>16, <2>17 DEF Run
  <1>12. CASE \E w \in Workers, window \in Blocks : SlotBlocked(w, window)
    <2>1. PICK w \in Workers, window \in Blocks : SlotBlocked(w, window)
      BY <1>12
    <2>2. Moves(w) /\ wk'[w].at = "idle"
      BY <2>1, BlockedShape DEF ComesBack, Idle
    <2> QED BY <1>2, <1>4, <2>1, <2>2 DEF SlotBlocked, At, metaVars, UsageShape, Releases
  <1>13. CASE (\E id \in JobIds : EvictCompleted(id)) \/ (\E c \in Campaigns : ThrottleExpires(c) \/ Pause(c))
              \/ Follow \/ NextDay
    BY <1>2, <1>3, <1>13 DEF EvictCompleted, ThrottleExpires, Pause, Follow, NextDay, metaVars,
                             UsageShape, Balances
  <1>14. CASE Crash
    <2>1. Holding' = {} /\ OnTheWay' = {}
      BY <1>14 DEF Crash, Holding, OnTheWay, Idle
    <2>2. faults'["crash"] = faults["crash"] + 1
      BY <1>1, <1>14, FaultCounts DEF Crash, Faults
    <2> QED BY <1>2, <1>14, <2>1, <2>2, FS_EmptySet DEF Crash, metaVars, Held, Unread, UsageShape, Drops
  <1>15. QED
    BY <1>8, <1>9, <1>10, <1>11, <1>12, <1>13, <1>14 DEF Next

-----------------------------------------------------------------------------
(* The rows, and the rest of the types                                     *)

\* Slot w writes status s to its row.
Writes(w, s) ==
    /\ log' \in [Rows -> LogRec]
    /\ \A r \in Rows \ {Row(w)} : log'[r] = log[r]
    /\ log'[Row(w)].status = s /\ s \in Statuses \ {"none"}
    /\ log'[Row(w)].dmSentAt = IF s = "SENT" THEN day ELSE log[Row(w)].dmSentAt
    /\ wk[w].at \notin {"idle", "check"} /\ Row(w) \in Rows
    /\ s = "SENT" => wk[w].at = "sent" /\ Continues(w)

\* A write changes its row alone; only SENT dates it.
LEMMA WriteIs ==
    ASSUME TypeOK, NEW w \in Workers, NEW s \in Statuses, NEW stage \in {"none", "FOLLOW_PROMPT", "DELIVERY"},
           Write(w, s, stage), Row(w) \in Rows
    PROVE  /\ log' \in [Rows -> LogRec]
           /\ \A r \in Rows \ {Row(w)} : log'[r] = log[r]
           /\ log'[Row(w)].status = s
           /\ log'[Row(w)].dmSentAt = IF s = "SENT" THEN day ELSE log[Row(w)].dmSentAt
  <1>1. log \in [Rows -> LogRec] /\ day \in 0..LastDay
    BY TypesAre
  <1>2. PICK r \in Rows : r = Row(w)
    OBVIOUS
  <1>3. PICK old \in LogRec : old = log[r]
    BY <1>1
  <1>4. CASE s = "SENT"
    <2>1. log' = [log EXCEPT ![r] = [status |-> s, stage |-> stage, dmSentAt |-> day]]
      BY <1>2, <1>3, <1>4 DEF Write
    <2>2. [status |-> s, stage |-> stage, dmSentAt |-> day] \in LogRec
      BY <1>1 DEF LogRec
    <2> QED BY <1>1, <1>2, <1>4, <2>1, <2>2
  <1>5. CASE s # "SENT"
    <2>1. log' = [log EXCEPT ![r] = [status |-> s, stage |-> old.stage, dmSentAt |-> old.dmSentAt]]
      BY <1>2, <1>3, <1>5 DEF Write
    <2>2. [status |-> s, stage |-> old.stage, dmSentAt |-> old.dmSentAt] \in LogRec
      BY DEF LogRec
    <2> QED BY <1>1, <1>2, <1>3, <1>5, <2>1, <2>2
  <1>6. QED BY <1>4, <1>5

\* The writes of a slot's step.
LEMMA SlotWrites ==
    ASSUME TypeOK, JobsInv, NEW w \in Workers
    PROVE  /\ Finish(w) \/ Check(w) \/ ReadFollow(w) \/ Prompt(w) \/ Reserve(w) \/ SlotGranted(w)
                \/ SlotFails(w) \/ DatabaseFails(w) => log' = log
           /\ NoToken(w) => IF IsTap(w) THEN log' = log ELSE Writes(w, "FAILED")
           /\ TapOverPlanLimit(w) \/ MessageOverPlanLimit(w) => Writes(w, "SKIPPED_PLAN_LIMIT")
           /\ SlotSkipped(w) => Writes(w, "SKIPPED_RATE_LIMIT")
           /\ Rejected(w) => Writes(w, "FAILED")
           /\ Reveal(w) \/ Reply(w) => \/ log' = log /\ GoesOn(w, "sent") /\ faults' = faults
                                       \/ Writes(w, "FAILED") /\ Fault("lostAnswer")
                                          /\ (Leaves(w, "waiting") \/ Leaves(w, "failed"))
           /\ RecordReveal(w) \/ RecordReply(w) =>
                 \/ Writes(w, "SENT") /\ Continues(w)
                 \/ Writes(w, "FAILED") /\ Fault("lostAnswer")
                    /\ (Leaves(w, "waiting") \/ Leaves(w, "failed"))
  <1>1. wk \in [Workers -> SlotRec] /\ job \in [JobIds -> JobRec]
    BY TypesAre
  <1>2. wk[w].at \notin {"idle", "check"} => wk[w].todo # {} /\ Row(w) \in Rows
    BY <1>1, HereIsIn DEF JobsInv, Chosen
  <1>3. ASSUME NEW s \in Statuses \ {"none", "SENT"}, Write(w, s, "none"), wk[w].at \notin {"idle", "check"}
        PROVE  Writes(w, s)
    BY <1>2, <1>3, WriteIs DEF Writes, Statuses
  <1>4. ASSUME NEW stage \in {"FOLLOW_PROMPT", "DELIVERY"}, Write(w, "SENT", stage), wk[w].at = "sent",
               Continue(w)
        PROVE  Writes(w, "SENT") /\ Continues(w)
    <2>1. Continues(w)
      BY <1>1, <1>2, <1>4, ContinueContinues
    <2> QED BY <1>2, <1>4, <2>1, WriteIs DEF Writes, Statuses
  <1>5. ASSUME Fault("lostAnswer"), SendFails(w), wk[w].at \notin {"idle", "check"}
        PROVE  Writes(w, "FAILED") /\ (Leaves(w, "waiting") \/ Leaves(w, "failed"))
    BY <1>1, <1>3, <1>5, ThrowLeaves DEF SendFails, Statuses
  <1>6. Finish(w) \/ Check(w) \/ ReadFollow(w) \/ Prompt(w) \/ Reserve(w) \/ SlotGranted(w)
                \/ SlotFails(w) \/ DatabaseFails(w) => log' = log
    BY DEF Finish, Check, ReadFollow, Prompt, Reserve, SlotGranted, SlotFails, DatabaseFails
  <1>7. NoToken(w) => IF IsTap(w) THEN log' = log ELSE Writes(w, "FAILED")
    BY <1>3 DEF NoToken, At, Statuses
  <1>8. TapOverPlanLimit(w) \/ MessageOverPlanLimit(w) => Writes(w, "SKIPPED_PLAN_LIMIT")
    BY <1>3 DEF TapOverPlanLimit, MessageOverPlanLimit, At, Statuses
  <1>9. SlotSkipped(w) => Writes(w, "SKIPPED_RATE_LIMIT")
    BY <1>3 DEF SlotSkipped, At, Statuses
  <1>10. Rejected(w) => Writes(w, "FAILED")
    BY <1>3 DEF Rejected, SendFails, At, Statuses
  <1>11. ASSUME Reveal(w) \/ Reply(w)
         PROVE  \/ log' = log /\ GoesOn(w, "sent") /\ faults' = faults
                \/ Writes(w, "FAILED") /\ Fault("lostAnswer")
                   /\ (Leaves(w, "waiting") \/ Leaves(w, "failed"))
    <2>1. Taken(w) /\ wk[w].at = "send"
      BY <1>11 DEF Reveal, Reply, At
    <2>2. Goto(w, "sent") /\ job' = job => GoesOn(w, "sent")
      BY <1>1, <1>2, <2>1, GotoGoesOn DEF Steps
    <2> QED BY <1>5, <2>1, <2>2 DEF Taken
  <1>12. ASSUME RecordReveal(w) \/ RecordReply(w)
         PROVE  \/ Writes(w, "SENT") /\ Continues(w)
                \/ Writes(w, "FAILED") /\ Fault("lostAnswer")
                   /\ (Leaves(w, "waiting") \/ Leaves(w, "failed"))
    <2>1. wk[w].at = "sent"
      BY <1>12 DEF RecordReveal, RecordReply, At
    <2>2. CASE \E stage \in {"FOLLOW_PROMPT", "DELIVERY"} : Stored(w, stage)
      BY <1>4, <2>1, <2>2 DEF Stored
    <2>3. CASE Fault("lostAnswer") /\ SendFails(w)
      BY <1>5, <2>1, <2>3
    <2> QED BY <1>12, <2>2, <2>3 DEF RecordReveal, RecordReply
  <1>13. QED
    BY <1>6, <1>7, <1>8, <1>9, <1>10, <1>11, <1>12

\* A step writes one row at most, that of the slot that moves.
LEMMA LogStep ==
    ASSUME TypeOK, JobsInv, [Next]_vars
    PROVE  log' = log \/ \E w \in Workers, s \in Statuses : Writes(w, s)
  <1>1. CASE \E w \in Workers : Run(w) \/ NoToken(w) \/ SlotFails(w) \/ Rejected(w) \/ DatabaseFails(w)
    <2>1. PICK w \in Workers : Run(w) \/ NoToken(w) \/ SlotFails(w) \/ Rejected(w) \/ DatabaseFails(w)
      BY <1>1
    <2>2. log' = log \/ \E s \in Statuses : Writes(w, s)
      BY <2>1, SlotWrites DEF Run, Statuses
    <2> QED BY <2>2
  <1>2. CASE UNCHANGED vars \/ (\E p \in Payloads : Deliver(p) \/ Enqueue(p) \/ Processed(p) \/ EnqueueFails(p))
             \/ (\E w \in Workers, id \in JobIds : Take(w, id))
             \/ (\E w \in Workers, window \in Blocks : SlotBlocked(w, window))
             \/ (\E id \in JobIds : EvictCompleted(id))
             \/ (\E c \in Campaigns : ThrottleExpires(c) \/ Pause(c)) \/ Crash \/ Follow \/ NextDay
    BY <1>2 DEF vars, Deliver, Enqueue, Processed, EnqueueFails, Take, SlotBlocked, EvictCompleted,
                ThrottleExpires, Pause, Crash, Follow, NextDay
  <1>3. QED BY <1>1, <1>2 DEF Next

\* The webhook's own record of its payloads.
LEMMA HookType ==
    ASSUME TypeOK, HookInv, [Next]_vars
    PROVE  hook' \in [Payloads -> HookRec]
  <1>1. hook \in [Payloads -> HookRec]
    BY TypesAre
  <1>2. ASSUME NEW p \in Payloads, Deliver(p) \/ Enqueue(p) \/ Processed(p) \/ EnqueueFails(p)
        PROVE  hook' \in [Payloads -> HookRec]
    <2>1. PICK h \in HookRec : h = hook[p]
      BY <1>1
    <2>2. CASE Deliver(p)
      <3>1. hook' = [hook EXCEPT ![p] = [state |-> "adding", left |-> p, deliveries |-> h.deliveries + 1]]
        BY <2>1, <2>2 DEF Deliver
      <3>2. h.deliveries + 1 \in 0..MaxDeliveries /\ p \subseteq Interactions
        BY <2>1, <2>2, ConversationsAssumption DEF Deliver, HookRec
      <3> QED BY <1>1, <3>1, <3>2 DEF HookRec
    <2>3. CASE Enqueue(p)
      <3>1. PICK i : hook' = [hook EXCEPT ![p] = [h EXCEPT !.left = h.left \ {i}]]
        BY <2>1, <2>3 DEF Enqueue
      <3>2. h.left \ {i} \subseteq Interactions
        BY DEF HookRec
      <3> QED BY <1>1, <3>1, <3>2 DEF HookRec
    <2>4. CASE Processed(p) \/ EnqueueFails(p)
      <3>1. PICK s \in {"PROCESSED", "FAILED"} : hook' = [hook EXCEPT ![p] = [h EXCEPT !.state = s]]
        BY <2>1, <2>4 DEF Processed, EnqueueFails
      <3> QED BY <1>1, <3>1 DEF HookRec
    <2> QED BY <1>2, <2>2, <2>3, <2>4
  <1>3. CASE \E w \in Workers : Run(w) \/ NoToken(w) \/ SlotFails(w) \/ Rejected(w) \/ DatabaseFails(w)
    BY <1>1, <1>3 DEF Run, queueVars, Finish, Check, ReadFollow, Prompt, Reserve, TapOverPlanLimit,
           MessageOverPlanLimit, SlotGranted, SlotSkipped, Reveal, Reply, Taken, RecordReveal,
           RecordReply, NoToken, SlotFails, Rejected, DatabaseFails
  <1>4. CASE UNCHANGED vars
             \/ (\E w \in Workers, id \in JobIds : Take(w, id))
             \/ (\E w \in Workers, window \in Blocks : SlotBlocked(w, window))
             \/ (\E id \in JobIds : EvictCompleted(id))
             \/ (\E c \in Campaigns : ThrottleExpires(c) \/ Pause(c)) \/ Crash \/ Follow \/ NextDay
    BY <1>1, <1>4 DEF vars, queueVars, Take, SlotBlocked, EvictCompleted,
                ThrottleExpires, Pause, Crash, Follow, NextDay
  <1>5. QED BY <1>2, <1>3, <1>4 DEF Next

\* What a step does to the world around the worker.
LEMMA WorldStep ==
    ASSUME TypeOK, HookInv, [Next]_vars
    PROVE  /\ active' \subseteq active /\ races \subseteq races' /\ races' \subseteq SUBSET Interactions
           /\ day' \in 0..LastDay /\ day' >= day
           /\ follows' \in BOOLEAN /\ (follows => follows')
           /\ followed \subseteq followed' /\ followed' \subseteq Interactions
           /\ arrived' \in [Interactions -> 0..LastDay]
           /\ \A i \in Interactions : arrived'[i] = arrived[i] \/ (i \notin Arrived /\ arrived'[i] = day)
           /\ arrived' = arrived \/ (wk' = wk /\ job' = job /\ log' = log /\ day' = day)
           /\ day' = day \/ (day' = day + 1 /\ wk' = wk /\ job' = job /\ log' = log /\ arrived' = arrived)
  <1>1. /\ active \subseteq Campaigns /\ day \in 0..LastDay /\ arrived \in [Interactions -> 0..LastDay]
        /\ follows \in BOOLEAN /\ followed \subseteq Interactions /\ races \subseteq SUBSET Interactions
        /\ LastDay \in Nat
    BY TypesAre, ConversationsAssumption
  <1> DEFINE Good ==
           /\ active' \subseteq active /\ races \subseteq races' /\ races' \subseteq SUBSET Interactions
           /\ day' \in 0..LastDay /\ day' >= day
           /\ follows' \in BOOLEAN /\ (follows => follows')
           /\ followed \subseteq followed' /\ followed' \subseteq Interactions
           /\ arrived' \in [Interactions -> 0..LastDay]
           /\ \A i \in Interactions : arrived'[i] = arrived[i] \/ (i \notin Arrived /\ arrived'[i] = day)
           /\ arrived' = arrived \/ (wk' = wk /\ job' = job /\ log' = log /\ day' = day)
           /\ day' = day \/ (day' = day + 1 /\ wk' = wk /\ job' = job /\ log' = log /\ arrived' = arrived)
  <1>2. ASSUME UNCHANGED <<active, day, follows, followed, arrived>>, races \subseteq races',
               races' \subseteq SUBSET Interactions
        PROVE  Good
    BY <1>1, <1>2
  <1>3. UNCHANGED races => races \subseteq races' /\ races' \subseteq SUBSET Interactions
    BY <1>1
  <1>4. ASSUME NEW p \in Payloads, Deliver(p) PROVE Good
    <2>1. p \subseteq Interactions
      BY ConversationsAssumption
    <2> QED BY <1>1, <1>4, <2>1 DEF Deliver
  <1>5. ASSUME NEW w \in Workers, NEW id \in JobIds, Take(w, id) PROVE Good
    <2>1. races' = races \/ races' = races \cup ({{About(v), id[1]} : v \in {v \in Workers : wk[v].at # "idle"}}
                                                    \cap SUBSET Taps)
      BY <1>5 DEF Take
    <2>2. SUBSET Taps \subseteq SUBSET Interactions
      BY DEF Interactions
    <2> HIDE DEF Good
    <2> QED BY <1>1, <1>2, <1>5, <2>1, <2>2 DEF Take, envVars
  <1> HIDE DEF Good
  <1>6. ASSUME NEW w \in Workers, Run(w) \/ NoToken(w) \/ SlotFails(w) \/ Rejected(w) \/ DatabaseFails(w)
        PROVE  Good
    BY <1>2, <1>3, <1>6 DEF Run, envVars, Finish, Check, ReadFollow, Prompt, Reserve, TapOverPlanLimit,
           MessageOverPlanLimit, SlotGranted, SlotSkipped, Reveal, Reply, Taken, RecordReveal,
           RecordReply, NoToken, SlotFails, Rejected, DatabaseFails
  <1>7. ASSUME Follow \/ NextDay \/ \E c \in Campaigns : Pause(c) PROVE Good
    <2>1. CASE Follow
      BY <1>1, <2>1 DEF Follow, Good
    <2>2. CASE NextDay
      <3>1. /\ day' = day + 1 /\ day < LastDay /\ wk' = wk /\ job' = job /\ log' = log
            /\ UNCHANGED <<active, races, follows, followed, arrived>>
        BY <2>2 DEF NextDay, queueVars
      <3>2. day' \in 0..LastDay /\ day' >= day
        BY <1>1, <3>1
      <3> QED BY <1>1, <3>1, <3>2 DEF Good
    <2>3. CASE \E c \in Campaigns : Pause(c)
      BY <1>1, <2>3 DEF Pause, Good
    <2> QED BY <1>7, <2>1, <2>2, <2>3
  <1>8. ASSUME \/ UNCHANGED vars \/ (\E p \in Payloads : Enqueue(p) \/ Processed(p) \/ EnqueueFails(p))
               \/ (\E w \in Workers, window \in Blocks : SlotBlocked(w, window))
               \/ (\E id \in JobIds : EvictCompleted(id))
               \/ (\E c \in Campaigns : ThrottleExpires(c)) \/ Crash
        PROVE  Good
    BY <1>2, <1>3, <1>8 DEF vars, envVars, Enqueue, Processed, EnqueueFails, SlotBlocked,
           EvictCompleted, ThrottleExpires, Crash
  <1>9. Good
    BY <1>4, <1>5, <1>6, <1>7, <1>8 DEF Next
  <1>10. QED BY <1>9 DEF Good

\* Slot w sends one message for its row.
Sends1(w) ==
    /\ wk[w].at = "send"
    /\ \/ links' = [links EXCEPT ![Row(w)] = @ + 1] /\ asks' = asks /\ (IsTap(w) \/ wk[w].confirmed)
       \/ asks' = [asks EXCEPT ![Row(w)] = @ + 1] /\ links' = links /\ ~IsTap(w)

\* A step sends at most one message, for a slot that is sending; prompts are throttled.
LEMMA MetaStep ==
    ASSUME TypeOK, JobsInv, PromptsInv, [Next]_vars
    PROVE  /\ (links' = links /\ asks' = asks) \/ \E w \in Workers : (Reveal(w) \/ Reply(w)) /\ Sends1(w)
           /\ prompts' \in [Campaigns -> Nat] /\ expiries' \in [Campaigns -> Nat]
           /\ throttled' \subseteq Campaigns /\ PromptsInv'
  <1>1. /\ links \in [Rows -> Nat] /\ asks \in [Rows -> Nat] /\ throttled \subseteq Campaigns
        /\ prompts \in [Campaigns -> Nat] /\ expiries \in [Campaigns -> Nat]
        /\ faults \in [Faults -> Nat] /\ wk \in [Workers -> SlotRec]
    BY TypesAre
  <1>2. faults["throttle"] \in Nat /\ faults'["throttle"] \in Nat /\ faults'["throttle"] >= faults["throttle"]
    BY <1>1, Grows DEF Faults
  <1> DEFINE Good ==
           /\ (links' = links /\ asks' = asks) \/ \E w \in Workers : (Reveal(w) \/ Reply(w)) /\ Sends1(w)
           /\ prompts' \in [Campaigns -> Nat] /\ expiries' \in [Campaigns -> Nat]
           /\ throttled' \subseteq Campaigns
           /\ \A c \in Campaigns :
                 prompts'[c] <= expiries'[c] + faults'["throttle"] + (IF c \in throttled' THEN 1 ELSE 0)
  <1>3. \A c \in Campaigns :
            prompts[c] <= expiries[c] + faults["throttle"] + (IF c \in throttled THEN 1 ELSE 0)
    BY DEF PromptsInv
  <1>4. ASSUME (links' = links /\ asks' = asks) \/ \E w \in Workers : (Reveal(w) \/ Reply(w)) /\ Sends1(w),
               UNCHANGED <<prompts, expiries, throttled>>
        PROVE  Good
    BY <1>1, <1>2, <1>3, <1>4
  <1>5. ASSUME NEW w \in Workers, Prompt(w) PROVE Good
    <2>1. expiries' = expiries /\ links' = links /\ asks' = asks
      BY <1>5 DEF Prompt
    <2>2. wk[w].todo # {}
      BY <1>5 DEF Prompt, At, JobsInv, Chosen
    <2>c. PICK c \in Campaigns : c = Here(w)
      BY <1>1, <2>2, HereIsIn
    <2>3. CASE Here(w) \in throttled /\ UNCHANGED <<prompts, throttled>>
      BY <1>4, <2>1, <2>3
    <2>4. CASE /\ Here(w) \notin throttled /\ throttled' = throttled \cup {Here(w)}
               /\ prompts' \in {prompts, [prompts EXCEPT ![Here(w)] = @ + 1]}
      <3> QED BY <1>1, <1>2, <1>3, <2>1, <2>c, <2>4
    <2>5. CASE Fault("throttle") /\ prompts' = [prompts EXCEPT ![Here(w)] = @ + 1] /\ throttled' = throttled
      <3>1. faults'["throttle"] = faults["throttle"] + 1
        BY <1>1, <2>5, FaultCounts DEF Faults
      <3> QED BY <1>1, <1>2, <1>3, <2>1, <2>c, <2>5, <3>1
    <2> QED BY <1>5, <2>3, <2>4, <2>5 DEF Prompt
  <1>6. ASSUME NEW c \in Campaigns, ThrottleExpires(c) PROVE Good
    BY <1>1, <1>2, <1>3, <1>6 DEF ThrottleExpires, metaVars, envVars
  <1> HIDE DEF Good
  <1>7. ASSUME NEW w \in Workers, Reveal(w) \/ Reply(w) PROVE Good
    <2>1. Sends1(w)
      BY <1>7 DEF Reveal, Reply, Sends1, At
    <2> QED BY <1>4, <1>7, <2>1 DEF Reveal, Reply, Taken
  <1>8. ASSUME NEW w \in Workers, Run(w) \/ NoToken(w) \/ SlotFails(w) \/ Rejected(w) \/ DatabaseFails(w)
        PROVE  Good
    BY <1>4, <1>5, <1>7, <1>8 DEF Run, metaVars, Finish, Check, ReadFollow, Reserve, TapOverPlanLimit,
           MessageOverPlanLimit, SlotGranted, SlotSkipped, RecordReveal,
           RecordReply, NoToken, SlotFails, Rejected, DatabaseFails
  <1>9. ASSUME \/ UNCHANGED vars
               \/ (\E p \in Payloads : Deliver(p) \/ Enqueue(p) \/ Processed(p) \/ EnqueueFails(p))
               \/ (\E w \in Workers, id \in JobIds : Take(w, id))
               \/ (\E w \in Workers, window \in Blocks : SlotBlocked(w, window))
               \/ (\E id \in JobIds : EvictCompleted(id))
               \/ (\E c \in Campaigns : Pause(c)) \/ Crash \/ Follow \/ NextDay
        PROVE  Good
    BY <1>4, <1>9 DEF vars, metaVars, Deliver, Enqueue, Processed, EnqueueFails, Take, SlotBlocked,
           EvictCompleted, Pause, Crash, Follow, NextDay
  <1>10. Good
    BY <1>6, <1>8, <1>9 DEF Next
  <1>11. QED BY <1>10 DEF Good, PromptsInv

\* A job, once there, stays there unless a completed one is forgotten.
LEMMA JobsRemain ==
    ASSUME TypeOK, JobsInv, HookInv, [Next]_vars, NEW id \in JobIds, job[id].state # "none"
    PROVE  job'[id].state # "none" \/ faults'["evict"] > 0
  <1>1. \A w \in Workers : wk[w].id \in JobIds
    BY TypesAre DEF SlotRec
  <1>2. job'[id] = job[id] \/ job'[id].state # "none" \/ faults'["evict"] > 0
    BY <1>1, StepShape DEF Shape, Stands, Queues, OnlyJob, Begins, GoesOn, Continues, Leaves,
                           ComesBack, Halts
  <1>3. QED BY <1>2

\* What the webhook is done with is in the queue.
LEMMA HookStep ==
    ASSUME TypeOK, JobsInv, HookInv, [Next]_vars
    PROVE  HookInv'
  <1>1. /\ hook \in [Payloads -> HookRec] /\ hook' \in [Payloads -> HookRec]
        /\ job \in [JobIds -> JobRec] /\ faults \in [Faults -> Nat]
    BY TypesAre, HookType
  <1>2. /\ faults["evict"] \in Nat /\ faults'["evict"] \in Nat
        /\ faults["evict"] > 0 => faults'["evict"] > 0
    BY <1>1, Grows DEF Faults
  <1>3. \A i \in Interactions : <<i, 0, 0>> \in JobIds /\ (job[<<i, 0, 0>>].state # "none" =>
                job'[<<i, 0, 0>>].state # "none" \/ faults'["evict"] > 0)
    BY IdIsJob, JobsRemain
  <1> DEFINE Kept(h) == h.state \in {"none", "FAILED"} \/ faults["evict"] > 0
             Good(q, h) ==
                /\ h.left \subseteq q
                /\ h.state # "none" => h.deliveries > 0
                /\ h.state = "PROCESSED" => h.left = {}
                /\ h.state \in {"none", "FAILED"} \/ faults'["evict"] > 0
                   \/ \A i \in q \ h.left : job'[<<i, 0, 0>>].state # "none"
  <1>4. \A q \in Payloads : /\ hook[q].left \subseteq q /\ q \subseteq Interactions
                            /\ hook[q].state # "none" => hook[q].deliveries > 0
                            /\ hook[q].state = "PROCESSED" => hook[q].left = {}
                            /\ Kept(hook[q]) \/ \A i \in q \ hook[q].left : job[<<i, 0, 0>>].state # "none"
    BY ConversationsAssumption DEF HookInv
  <1>5. \A q \in Payloads : Good(q, hook[q])
    BY <1>2, <1>3, <1>4
  <1>6. ASSUME NEW p \in Payloads, Deliver(p) \/ Enqueue(p) \/ Processed(p) \/ EnqueueFails(p)
        PROVE  Good(p, hook'[p]) /\ \A q \in Payloads \ {p} : hook'[q] = hook[q]
    <2>1. PICK h \in HookRec : h = hook[p]
      BY <1>1
    <2>2. CASE Deliver(p)
      <3>1. hook' = [hook EXCEPT ![p] = [state |-> "adding", left |-> p, deliveries |-> h.deliveries + 1]]
        BY <2>1, <2>2 DEF Deliver
      <3>2. hook'[p] = [state |-> "adding", left |-> p, deliveries |-> h.deliveries + 1]
        BY <1>1, <3>1
      <3>3. h.deliveries + 1 > 0
        BY ConversationsAssumption DEF HookRec
      <3> QED BY <1>1, <3>1, <3>2, <3>3
    <2>3. CASE Enqueue(p)
      <3>1. PICK i \in h.left : /\ hook' = [hook EXCEPT ![p] = [h EXCEPT !.left = h.left \ {i}]]
                                /\ job' = Added(<<i, 0, 0>>) /\ h.state = "adding"
        BY <2>1, <2>3 DEF Enqueue
      <3>2. hook'[p] = [h EXCEPT !.left = h.left \ {i}]
        BY <1>1, <3>1
      <3>3. hook'[p].state = "adding" /\ hook'[p].left = h.left \ {i} /\ hook'[p].deliveries = h.deliveries
        BY <3>1, <3>2 DEF HookRec
      <3>4. <<i, 0, 0>> \in JobIds
        BY <1>4, <2>1, <3>1, IdIsJob
      <3>5. job'[<<i, 0, 0>>].state # "none"
        BY <1>1, <3>1, <3>4, AddedIs
      <3> QED BY <1>1, <1>5, <2>1, <3>1, <3>3, <3>5
    <2>4. CASE Processed(p)
      <3>1. hook' = [hook EXCEPT ![p] = [h EXCEPT !.state = "PROCESSED"]] /\ h.left = {} /\ h.state = "adding"
        BY <2>1, <2>4 DEF Processed
      <3>2. hook'[p].state = "PROCESSED" /\ hook'[p].left = h.left /\ hook'[p].deliveries = h.deliveries
        BY <1>1, <3>1 DEF HookRec
      <3> QED BY <1>1, <1>5, <2>1, <3>1, <3>2
    <2>5. CASE EnqueueFails(p)
      <3>1. hook' = [hook EXCEPT ![p] = [h EXCEPT !.state = "FAILED"]] /\ h.state = "adding"
        BY <2>1, <2>5 DEF EnqueueFails
      <3>2. hook'[p].state = "FAILED" /\ hook'[p].left = h.left /\ hook'[p].deliveries = h.deliveries
        BY <1>1, <3>1 DEF HookRec
      <3> QED BY <1>1, <1>5, <2>1, <3>1, <3>2
    <2> HIDE DEF Good
    <2> QED BY <1>6, <2>2, <2>3, <2>4, <2>5
  <1>7. hook' = hook \/ \E p \in Payloads : Deliver(p) \/ Enqueue(p) \/ Processed(p) \/ EnqueueFails(p)
    BY DEF Next, vars, queueVars, Take, Run, Finish, Check,
           ReadFollow, Prompt, Reserve, TapOverPlanLimit, MessageOverPlanLimit, SlotGranted,
           SlotSkipped, Reveal, Reply, Taken, RecordReveal, RecordReply, Stored, NoToken, SlotFails,
           Rejected, DatabaseFails, SlotBlocked, EvictCompleted, ThrottleExpires, Pause, Crash,
           Follow, NextDay
  <1>8. \A q \in Payloads : Good(q, hook'[q])
    <2> HIDE DEF Good
    <2> QED BY <1>5, <1>6, <1>7
  <1>9. \A i \in Interactions : arrived'[i] <= day'
    <2>1. /\ arrived \in [Interactions -> 0..LastDay] /\ day \in 0..LastDay /\ LastDay \in Nat
          /\ \A i \in Interactions : arrived[i] <= day
      BY TypesAre, ConversationsAssumption DEF HookInv
    <2>2. /\ arrived' \in [Interactions -> 0..LastDay] /\ day' \in 0..LastDay /\ day' >= day
          /\ \A i \in Interactions : arrived'[i] = arrived[i] \/ arrived'[i] = day
      BY WorldStep
    <2>3. \A i \in Interactions : arrived[i] \in Nat /\ arrived'[i] \in Nat /\ day \in Nat /\ day' \in Nat
      BY <2>1, <2>2
    <2> QED BY <2>1, <2>2, <2>3
  <1>10. QED BY <1>8, <1>9 DEF HookInv

-----------------------------------------------------------------------------
\* The whole of the type invariant.
LEMMA TypeStep ==
    ASSUME TypeOK, JobsInv, HookInv, PromptsInv, Held <= used, UsageIsExplained, [Next]_vars
    PROVE  TypeOK'
  <1>1. /\ links \in [Rows -> Nat] /\ asks \in [Rows -> Nat] /\ wk \in [Workers -> SlotRec]
        /\ log \in [Rows -> LogRec] /\ active \subseteq Campaigns
    BY TypesAre
  <1>2. links' \in [Rows -> Nat] /\ asks' \in [Rows -> Nat]
    <2>1. CASE links' = links /\ asks' = asks
      BY <1>1, <2>1
    <2>2. ASSUME NEW w \in Workers, Sends1(w) PROVE links' \in [Rows -> Nat] /\ asks' \in [Rows -> Nat]
      <3>1. PICK r \in Rows : r = Row(w)
        BY <1>1, <2>2, HereIsIn DEF Sends1, JobsInv, Chosen
      <3> QED BY <1>1, <2>2, <3>1 DEF Sends1
    <2> QED BY <2>1, <2>2, MetaStep
  <1>3. log' \in [Rows -> LogRec]
    BY <1>1, LogStep DEF Writes
  <1>4. used' \in 0..DmLimit
    BY UsageStep, UsageShapes
  <1>5. /\ hook' \in [Payloads -> HookRec] /\ job' \in [JobIds -> JobRec] /\ wk' \in [Workers -> SlotRec]
        /\ faults' \in [Faults -> Nat]
    BY HookType, JobsStep, Grows
  <1>6. /\ prompts' \in [Campaigns -> Nat] /\ expiries' \in [Campaigns -> Nat] /\ throttled' \subseteq Campaigns
    BY MetaStep
  <1>7. /\ active' \subseteq Campaigns /\ races' \subseteq SUBSET Interactions
        /\ day' \in 0..LastDay /\ follows' \in BOOLEAN
        /\ followed' \subseteq Interactions /\ arrived' \in [Interactions -> 0..LastDay]
    BY <1>1, WorldStep
  <1>8. QED BY <1>2, <1>3, <1>4, <1>5, <1>6, <1>7 DEF TypeOK, HookRec, JobRec, JobStates, SlotRec, LogRec

-----------------------------------------------------------------------------
(* What a step of a slot is about                                          *)

\* The job is completed: the loop is over, the tap is done with, or skipped.
Ends(w) ==
    /\ Leaves(w, "completed")
    /\ Finish(w) \/ Prompt(w) \/ TapOverPlanLimit(w) \/ SlotSkipped(w)

\* A message that goes on with the next campaign has answered this one.
Passes(w) ==
    /\ Continues(w)
    /\ IsTap(w) \/ log'[Row(w)].status # "none" \/ (Replied(Here(w), About(w)) /\ log' = log /\ day' = day)
    /\ wk[w].at = "sent" => Writes(w, "SENT")

Asks(w) ==
    /\ wk[w].at = "check" /\ GoesOn(w, "follow") /\ log' = log
    /\ ~AlreadyAnswered(Here(w), About(w))

Reads(w) == ReadFollow(w) /\ \E s \in {"prompt", "reserve"} : GoesOn(w, s)

Proceeds(w) ==
    /\ wk[w].at \in {"reserve", "slot", "send"}
    /\ \E s \in {"slot", "send", "sent"} : GoesOn(w, s)

Fails(w) ==
    /\ Leaves(w, "waiting") \/ Leaves(w, "failed")
    /\ wk[w].at = "sent" => Fault("lostAnswer")

Works(w) == Ends(w) \/ Passes(w) \/ Asks(w) \/ Reads(w) \/ Proceeds(w) \/ Fails(w)

\* Every step of a slot is one of these.
LEMMA SlotWorks ==
    ASSUME TypeOK, JobsInv, NEW w \in Workers,
           Run(w) \/ NoToken(w) \/ SlotFails(w) \/ Rejected(w) \/ DatabaseFails(w)
    PROVE  Works(w)
  <1>1. CASE Finish(w) \/ Prompt(w) \/ TapOverPlanLimit(w) \/ SlotSkipped(w)
    BY <1>1, SlotShapes DEF Works, Ends
  <1>2. CASE Check(w)
    <2>1. /\ log' = log /\ wk[w].at = "check" /\ day' = day
          /\ IF AlreadyAnswered(Here(w), About(w)) THEN Continues(w) ELSE GoesOn(w, "follow")
      BY <1>2, SlotShapes, SlotWrites DEF Check, At, envVars
    <2>2. AlreadyAnswered(Here(w), About(w)) => IsTap(w) \/ Replied(Here(w), About(w))
      BY DEF AlreadyAnswered, IsTap
    <2> QED BY <2>1, <2>2 DEF Works, Passes, Asks
  <1>3. CASE NoToken(w) \/ MessageOverPlanLimit(w)
    <2>1. Continues(w) /\ wk[w].at # "sent"
      BY <1>3, SlotShapes DEF MessageOverPlanLimit, At
    <2>2. IsTap(w) \/ log'[Row(w)].status # "none"
      BY <1>3, SlotWrites DEF Writes
    <2> QED BY <2>1, <2>2 DEF Works, Passes
  <1>4. CASE ReadFollow(w)
    BY <1>4, SlotShapes DEF Works, Reads
  <1>5. CASE Reserve(w) \/ SlotGranted(w)
    BY <1>5, SlotShapes DEF Works, Proceeds, Reserve, SlotGranted, At
  <1>6. CASE SlotFails(w) \/ Rejected(w) \/ DatabaseFails(w)
    BY <1>6, SlotShapes DEF Works, Fails, SlotFails, Rejected, DatabaseFails, At
  <1>7. CASE Reveal(w) \/ Reply(w)
    BY <1>7, SlotShapes DEF Works, Proceeds, Fails, Reveal, Reply, At
  <1>8. CASE RecordReveal(w) \/ RecordReply(w)
    <2>1. CASE Writes(w, "SENT") /\ Continues(w)
      BY <2>1 DEF Works, Passes, Writes
    <2>2. CASE Fault("lostAnswer") /\ (Leaves(w, "waiting") \/ Leaves(w, "failed"))
      BY <2>2 DEF Works, Fails
    <2> QED BY <1>8, <2>1, <2>2, SlotWrites
  <1>9. QED BY <1>1, <1>2, <1>3, <1>4, <1>5, <1>6, <1>7, <1>8 DEF Run

\* The shape of every step, with what it is about.
Deed ==
    \/ Stands
    \/ \E id \in JobIds, s \in JobStates : Queues(id, s)
    \/ \E w \in Workers, id \in JobIds : Begins(w, id)
    \/ \E w \in Workers : Works(w)
    \/ \E w \in Workers, jd \in JobIds : ComesBack(w, jd)
    \/ Halts /\ Fault("crash")

\* Every step is one of these.
LEMMA StepDeed ==
    ASSUME TypeOK, JobsInv, HookInv, [Next]_vars
    PROVE  Deed
  <1>1. CASE UNCHANGED vars
    BY <1>1 DEF vars, queueVars, Deed, Stands
  <1>2. CASE (\E p \in Payloads : Deliver(p) \/ Processed(p) \/ EnqueueFails(p))
             \/ (\E c \in Campaigns : ThrottleExpires(c) \/ Pause(c)) \/ Follow \/ NextDay
    BY <1>2, QueueShapes DEF Deed
  <1>3. ASSUME NEW p \in Payloads, Enqueue(p) PROVE Deed
    <2>1. PICK i \in Interactions : Queues(<<i, 0, 0>>, job'[<<i, 0, 0>>].state)
      BY <1>3, QueueShapes
    <2>2. <<i, 0, 0>> \in JobIds /\ job'[<<i, 0, 0>>].state \in JobStates
      BY <2>1, IdIsJob DEF Queues, OnlyJob, JobRec
    <2> QED BY <2>1, <2>2 DEF Deed
  <1>4. ASSUME NEW id \in JobIds, EvictCompleted(id) PROVE Deed
    BY <1>4, QueueShapes DEF Deed, JobStates
  <1>5. ASSUME NEW w \in Workers, NEW id \in JobIds, Take(w, id) PROVE Deed
    BY <1>5, TakeShape DEF Deed, JobStates
  <1>6. ASSUME NEW w \in Workers, Run(w) \/ NoToken(w) \/ SlotFails(w) \/ Rejected(w) \/ DatabaseFails(w)
        PROVE  Deed
    BY <1>6, SlotWorks DEF Deed
  <1>7. ASSUME NEW w \in Workers, NEW window \in Blocks, SlotBlocked(w, window) PROVE Deed
    BY <1>7, BlockedShape DEF Deed, SlotBlocked
  <1>8. CASE Crash
    BY <1>8, CrashShape DEF Deed, Crash
  <1>9. QED BY <1>1, <1>2, <1>3, <1>4, <1>5, <1>6, <1>7, <1>8 DEF Next

\* How a slot gets beyond the check, and from there from step to step.
LEMMA BeyondCheck ==
    ASSUME TypeOK, JobsInv, HookInv, [Next]_vars, NEW w \in Workers, wk'[w].at \notin {"idle", "check"}
    PROVE  wk'[w] = wk[w] \/ Asks(w) \/ Reads(w) \/ Proceeds(w)
  <1>1. /\ Stands => wk' = wk
        /\ \A id \in JobIds, s \in JobStates : Queues(id, s) => wk' = wk
    BY DEF Stands, Queues
  <1>2. \A v \in Workers, id \in JobIds : Begins(v, id) => wk'[w] = wk[w] \/ wk'[w].at = "check"
    BY DEF Begins, Moves
  <1>3. \A v \in Workers : Works(v) =>
            \/ wk'[w] = wk[w]
            \/ wk'[w].at \in {"idle", "check"}
            \/ (w = v /\ (Asks(v) \/ Reads(v) \/ Proceeds(v)))
    BY DEF Works, Ends, Passes, Asks, Reads, Proceeds, Fails, Continues, Leaves, GoesOn, Moves, Idle
  <1>4. \A v \in Workers, jd \in JobIds : ComesBack(v, jd) => wk'[w] = wk[w] \/ wk'[w].at = "idle"
    BY DEF ComesBack, Moves, Idle
  <1>5. Halts => wk'[w].at = "idle"
    BY DEF Halts, Idle
  <1>6. QED BY <1>1, <1>2, <1>3, <1>4, <1>5, StepDeed DEF Deed

-----------------------------------------------------------------------------
(* The follow gate                                                         *)

\* Only a delivery makes an interaction arrive.
LEMMA ArrivesBy ==
    ASSUME TypeOK, [Next]_vars
    PROVE  \/ Arrived' = Arrived
           \/ \E p \in Payloads : Deliver(p) /\ Arrived' \subseteq Arrived \cup p
  <1>1. hook \in [Payloads -> HookRec]
    BY TypesAre
  <1>2. \A q \in Payloads : hook[q].deliveries \in Nat
    BY <1>1, ConversationsAssumption DEF HookRec
  <1>3. hook' = hook \/ \E p \in Payloads : Deliver(p) \/ Enqueue(p) \/ Processed(p) \/ EnqueueFails(p)
    BY DEF Next, vars, queueVars, Take, Run, Finish, Check,
           ReadFollow, Prompt, Reserve, TapOverPlanLimit, MessageOverPlanLimit, SlotGranted,
           SlotSkipped, Reveal, Reply, Taken, RecordReveal, RecordReply, Stored, NoToken, SlotFails,
           Rejected, DatabaseFails, SlotBlocked, EvictCompleted, ThrottleExpires, Pause, Crash,
           Follow, NextDay
  <1>4. CASE hook' = hook
    BY <1>4 DEF Arrived
  <1>5. ASSUME NEW p \in Payloads, Enqueue(p) \/ Processed(p) \/ EnqueueFails(p)
        PROVE  Arrived' = Arrived
    <2>1. PICK h \in HookRec : h = hook[p]
      BY <1>1
    <2>2. \A q \in Payloads : hook'[q].deliveries = hook[q].deliveries
      <3>1. CASE Enqueue(p)
        <4>1. PICK i : hook' = [hook EXCEPT ![p] = [h EXCEPT !.left = h.left \ {i}]]
          BY <2>1, <3>1 DEF Enqueue
        <4> QED BY <1>1, <2>1, <4>1 DEF HookRec
      <3>2. CASE Processed(p) \/ EnqueueFails(p)
        <4>1. PICK s \in {"PROCESSED", "FAILED"} : hook' = [hook EXCEPT ![p] = [h EXCEPT !.state = s]]
          BY <2>1, <3>2 DEF Processed, EnqueueFails
        <4> QED BY <1>1, <2>1, <4>1 DEF HookRec
      <3> QED BY <1>5, <3>1, <3>2
    <2> QED BY <2>2 DEF Arrived
  <1>6. ASSUME NEW p \in Payloads, Deliver(p) PROVE Arrived' \subseteq Arrived \cup p
    <2>1. \A q \in Payloads \ {p} : hook'[q] = hook[q]
      BY <1>1, <1>6 DEF Deliver
    <2> QED BY <2>1 DEF Arrived
  <1>7. QED BY <1>3, <1>4, <1>5, <1>6

\* A confirmed sender of a gated campaign follows, or followed since.
LEMMA GateStep ==
    ASSUME TypeOK, JobsInv, HookInv, GateInv, GateHolds, PromptsInv, [Next]_vars
    PROVE  GateInv' /\ GateHolds'
  <1>1. /\ follows \in BOOLEAN /\ wk \in [Workers -> SlotRec] /\ links \in [Rows -> Nat]
        /\ Gated \subseteq Campaigns
    BY TypesAre, ConversationsAssumption
  <1>2. followed \subseteq followed' /\ follows' \in BOOLEAN /\ (follows => follows')
    BY WorldStep
  <1>3. follows' => Arrived' \subseteq followed'
    <2>1. CASE Follow
      <3>1. Arrived' \subseteq Interactions
        BY ConversationsAssumption DEF Arrived
      <3> QED BY <2>1, <3>1 DEF Follow
    <2>2. ASSUME ~Follow, follows' PROVE Arrived' \subseteq followed'
      <3>1. follows
        BY <2>2 DEF Next, vars, envVars, Deliver, Enqueue, Processed, EnqueueFails, Take, Run, Finish,
           Check, ReadFollow, Prompt, Reserve, TapOverPlanLimit, MessageOverPlanLimit, SlotGranted,
           SlotSkipped, Reveal, Reply, Taken, RecordReveal, RecordReply, Stored, NoToken, SlotFails,
           Rejected, DatabaseFails, SlotBlocked, EvictCompleted, ThrottleExpires, Pause, Crash, NextDay
      <3>2. Arrived \subseteq followed
        BY <3>1 DEF GateInv
      <3>3. ASSUME NEW p \in Payloads, Deliver(p) PROVE p \subseteq followed'
        BY <3>1, <3>3 DEF Deliver
      <3> QED BY <1>2, <3>2, <3>3, ArrivesBy
    <2> QED BY <2>1, <2>2
  <1> DEFINE Knows(s) ==
        /\ s.at = "prompt" => s.id[1] \in Taps
        /\ s.at \in {"reserve", "slot", "send", "sent"} =>
              /\ s.id[1] \in Taps => s.confirmed
              /\ s.confirmed /\ Min(s.todo) \in Gated => s.id[1] \in followed'
  <1>4. ASSUME NEW w \in Workers PROVE Knows(wk'[w])
    <2>1. Knows(wk[w])
      BY <1>2 DEF GateInv, At, IsTap, About, Here
    <2>2. CASE wk'[w].at \in {"idle", "check"} \/ Asks(w)
      BY <2>2 DEF Asks, GoesOn
    <2>3. ASSUME Reads(w) PROVE Knows(wk'[w])
      <3>1. PICK confirmed \in IF Here(w) \in Gated THEN FollowStatus(w) ELSE {TRUE} :
               wk' = [wk EXCEPT ![w].confirmed = confirmed,
                                ![w].at = IF IsTap(w) /\ ~confirmed THEN "prompt" ELSE "reserve"]
        BY <2>3 DEF Reads, ReadFollow
      <3>2. confirmed \in BOOLEAN /\ (confirmed /\ Here(w) \in Gated => follows)
        BY <1>1, <3>1 DEF FollowStatus
      <3>3. PICK s \in SlotRec : s = wk[w]
        BY <1>1
      <3>4. wk'[w] = [s EXCEPT !.confirmed = confirmed,
                               !.at = IF IsTap(w) /\ ~confirmed THEN "prompt" ELSE "reserve"]
        BY <1>1, <3>1, <3>3
      <3>5. /\ wk'[w].confirmed = confirmed /\ wk'[w].id = s.id /\ wk'[w].todo = s.todo
            /\ wk'[w].at = IF IsTap(w) /\ ~confirmed THEN "prompt" ELSE "reserve"
        BY <3>4 DEF SlotRec
      <3>6. s.id[1] \in Arrived /\ wk[w].at = "follow" /\ s.id \in JobIds
        BY <2>3, <3>3 DEF JobsInv, Busy, Reads, ReadFollow, At, SlotRec
      <3>7. confirmed /\ Here(w) \in Gated => s.id[1] \in followed'
        BY <1>2, <3>2, <3>6 DEF GateInv
      <3> QED BY <3>2, <3>3, <3>5, <3>7 DEF IsTap, About, Here
    <2>4. CASE Proceeds(w)
      BY <2>1, <2>4 DEF Proceeds, GoesOn
    <2>5. CASE wk'[w] = wk[w]
      BY <2>1, <2>5
    <2> HIDE DEF Knows
    <2> QED BY <2>2, <2>3, <2>4, <2>5, BeyondCheck
  <1>5. GateInv'
    BY <1>3, <1>4 DEF GateInv, At, IsTap, About, Here
  <1>6. GateHolds'
    <2> SUFFICES ASSUME NEW c \in Gated, NEW i \in Interactions, links'[<<c, i>>] > 0
                 PROVE  i \in followed'
      BY DEF GateHolds
    <2>1. CASE links' = links
      BY <1>2, <2>1 DEF GateHolds
    <2>2. ASSUME NEW w \in Workers, Sends1(w), links' # links PROVE i \in followed'
      <3>1. /\ links' = [links EXCEPT ![Row(w)] = @ + 1] /\ wk[w].at = "send"
            /\ IsTap(w) \/ wk[w].confirmed
        BY <2>2 DEF Sends1
      <3>2. CASE Row(w) = <<c, i>>
        <4>1. Here(w) = c /\ About(w) = i
          BY <3>2 DEF Row
        <4> QED BY <1>2, <3>1, <4>1 DEF GateInv
      <3>3. CASE Row(w) # <<c, i>>
        <4>1. <<c, i>> \in Rows
          BY <1>1 DEF Rows
        <4>2. links'[<<c, i>>] = links[<<c, i>>]
          BY <1>1, <3>1, <3>3, <4>1
        <4> QED BY <1>2, <4>2 DEF GateHolds
      <3> QED BY <3>2, <3>3
    <2> QED BY <2>1, <2>2, MetaStep
  <1>7. QED BY <1>5, <1>6

-----------------------------------------------------------------------------
(* Two taps on one day                                                     *)

\* A slot keeps its job, or takes one; what it takes races with the others' taps.
LEMMA SlotsJob ==
    ASSUME TypeOK, JobsInv, HookInv, [Next]_vars, NEW w \in Workers, wk'[w].at # "idle"
    PROVE  \/ wk[w].at # "idle" /\ wk'[w].id = wk[w].id
           \/ \E id \in JobIds : Begins(w, id)
  <1>1. /\ Stands => wk' = wk
        /\ \A id \in JobIds, s \in JobStates : Queues(id, s) => wk' = wk
    BY DEF Stands, Queues
  <1>2. \A v \in Workers, id \in JobIds : Begins(v, id) => wk'[w] = wk[w] \/ v = w
    BY DEF Begins, Moves
  <1>3. \A v \in Workers : Works(v) => \/ wk'[w] = wk[w]
                                      \/ wk'[w].at = "idle"
                                      \/ (wk[w].at # "idle" /\ wk'[w].id = wk[w].id)
    BY DEF Works, Ends, Passes, Asks, Reads, Proceeds, Fails, Continues, Leaves, GoesOn, Moves, Idle
  <1>4. \A v \in Workers, jd \in JobIds : ComesBack(v, jd) => wk'[w] = wk[w] \/ wk'[w].at = "idle"
    BY DEF ComesBack, Moves, Idle
  <1>5. Halts => wk'[w].at = "idle"
    BY DEF Halts, Idle
  <1>6. QED BY <1>1, <1>2, <1>3, <1>4, <1>5, StepDeed DEF Deed

\* Beyond the check a slot has the row it had, or has just looked for an answer.
LEMMA SameRow ==
    ASSUME TypeOK, JobsInv, HookInv, [Next]_vars, NEW w \in Workers, wk'[w].at \notin {"idle", "check"}
    PROVE  /\ wk[w].at # "idle" /\ wk[w].todo # {} /\ Row(w) \in Rows
           /\ wk'[w].id = wk[w].id /\ wk'[w].todo = wk[w].todo
           /\ About(w)' = About(w) /\ Here(w)' = Here(w) /\ Row(w)' = Row(w)
           /\ wk[w].at = "check" => /\ log' = log
                                    /\ ~AlreadyAnswered(Here(w), About(w))
  <1>1. /\ wk'[w].id = wk[w].id /\ wk'[w].todo = wk[w].todo /\ wk[w].at # "idle" /\ wk[w].todo # {}
        /\ wk[w].at = "check" => Asks(w)
    BY BeyondCheck DEF Asks, Reads, Proceeds, GoesOn, ReadFollow, At, JobsInv, Chosen
  <1>2. About(w)' = About(w) /\ Here(w)' = Here(w) /\ Row(w)' = Row(w)
    BY <1>1 DEF About, Here, Row
  <1>3. Row(w) \in Rows
    BY <1>1, HereIsIn, TypesAre
  <1>4. QED BY <1>1, <1>2, <1>3 DEF Asks

\* A tap that finds no reveal of the day sends while those it races with may send.
LEMMA RacesStep ==
    ASSUME TypeOK, JobsInv, HookInv, RacesInv, OnlyRacingTapsRepeat, [Next]_vars
    PROVE  RacesInv' /\ OnlyRacingTapsRepeat'
  <1>1. /\ wk \in [Workers -> SlotRec] /\ log \in [Rows -> LogRec] /\ day \in 0..LastDay
        /\ Taps \subseteq Interactions
    BY TypesAre DEF Interactions
  <1>2. /\ races \subseteq races' /\ day' \in 0..LastDay /\ day' >= day
        /\ day' = day \/ (day' = day + 1 /\ wk' = wk /\ job' = job /\ log' = log)
    BY WorldStep
  <1>3. ASSUME NEW v \in Workers, NEW w \in Workers, v # w,
               wk'[v].at # "idle", wk'[w].at # "idle", wk'[v].id[1] \in Taps, wk'[w].id[1] \in Taps
        PROVE  {wk'[v].id[1], wk'[w].id[1]} \in races'
    <2>1. ASSUME NEW x \in Workers, NEW y \in Workers, x # y, NEW id \in JobIds, Begins(x, id),
                 wk'[y].at # "idle", wk'[x].id[1] \in Taps, wk'[y].id[1] \in Taps
          PROVE  {wk'[y].id[1], wk'[x].id[1]} \in races'
      <3>1. wk'[y] = wk[y] /\ wk'[x].id = id
        BY <2>1 DEF Begins, Moves
      <3>2. {About(y), id[1]} \in {{About(u), id[1]} : u \in {u \in Workers : wk[u].at # "idle"}}
        BY <2>1, <3>1
      <3>3. {About(y), id[1]} \in SUBSET Taps
        BY <2>1, <3>1 DEF About
      <3> QED BY <2>1, <3>1, <3>2, <3>3 DEF Begins, About
    <2>2. CASE \E id \in JobIds : Begins(v, id)
      <3>1. {wk'[w].id[1], wk'[v].id[1]} \in races'
        BY <1>3, <2>1, <2>2
      <3> QED BY <3>1
    <2>3. CASE \E id \in JobIds : Begins(w, id)
      BY <1>3, <2>1, <2>3
    <2>4. CASE ~(\E id \in JobIds : Begins(w, id)) /\ ~(\E id \in JobIds : Begins(v, id))
      <3>1. /\ wk[v].at # "idle" /\ wk'[v].id = wk[v].id
            /\ wk[w].at # "idle" /\ wk'[w].id = wk[w].id
        BY <1>3, <2>4, SlotsJob
      <3> QED BY <1>2, <1>3, <3>1 DEF RacesInv, Busy, IsTap, About
    <2> QED BY <2>2, <2>3, <2>4
  <1>4. \A r \in Rows : log'[r].dmSentAt <= day'
    <2>1. \A r \in Rows : log[r].dmSentAt <= day /\ log[r].dmSentAt \in 0..LastDay
      BY <1>1 DEF RacesInv, LogRec
    <2>2. CASE log' = log
      BY <1>1, <1>2, <2>1, <2>2
    <2>3. ASSUME NEW w \in Workers, NEW s \in Statuses, Writes(w, s)
          PROVE  \A r \in Rows : log'[r].dmSentAt <= day'
      <3>1. \A r \in Rows : log'[r].dmSentAt = log[r].dmSentAt \/ log'[r].dmSentAt = day
        BY <2>3 DEF Writes
      <3> QED BY <1>1, <1>2, <2>1, <3>1
    <2> QED BY <2>2, <2>3, LogStep
  <1>5. ASSUME NEW w \in Workers, NEW t \in Taps, wk[w].at \notin {"idle", "check"}, IsTap(w), About(w) # t,
               log[<<Here(w), t>>].status = "SENT", log[<<Here(w), t>>].dmSentAt = day
        PROVE  {About(w), t} \in races'
    BY <1>2, <1>5 DEF RacesInv, Chosen
  <1>6. ASSUME NEW w \in Workers, NEW t \in Taps, wk'[w].at \notin {"idle", "check"},
               IsTap(w), About(w) # t,
               log'[<<Here(w), t>>].status = "SENT", log'[<<Here(w), t>>].dmSentAt = day'
        PROVE  {About(w), t} \in races'
    <2>1. /\ wk[w].at # "idle" /\ Row(w) \in Rows /\ wk'[w].id = wk[w].id
          /\ wk[w].at = "check" => log' = log /\ ~AlreadyAnswered(Here(w), About(w))
      BY <1>6, SameRow
    <2>2. <<Here(w), t>> \in Rows
      BY <1>1, <2>1 DEF Row, Rows
    <2>3. day' = day
      <3>1. ASSUME day' # day PROVE FALSE
        <4>1. log' = log /\ log[<<Here(w), t>>].dmSentAt <= day /\ day' = day + 1
          BY <1>2, <2>2, <3>1 DEF RacesInv
        <4> QED BY <1>1, <1>6, <4>1
      <3> QED BY <3>1
    <2>4. CASE log' = log
      <3>1. wk[w].at = "check" => FALSE
        BY <1>6, <2>1, <2>3, <2>4 DEF AlreadyAnswered, Revealed, SentRecently, IsTap
      <3> QED BY <1>5, <1>6, <2>1, <2>3, <2>4, <3>1
    <2>5. ASSUME NEW v \in Workers, NEW s \in Statuses, Writes(v, s), log' # log
          PROVE  {About(w), t} \in races'
      <3>1. CASE Row(v) # <<Here(w), t>>
        <4>1. log'[<<Here(w), t>>] = log[<<Here(w), t>>]
          BY <2>2, <2>5, <3>1 DEF Writes
        <4> QED BY <1>5, <1>6, <2>1, <2>3, <2>5, <4>1
      <3>2. CASE Row(v) = <<Here(w), t>>
        <4>1. s = "SENT" /\ Continues(v)
          BY <1>6, <2>5, <3>2 DEF Writes
        <4>2. About(v) = t /\ v # w
          BY <1>6, <3>2 DEF Row
        <4>3. wk[v].at # "idle" /\ wk[w].at # "idle"
          BY <2>1, <4>1 DEF Continues
        <4>4. {About(w), About(v)} \in races
          BY <1>6, <4>2, <4>3 DEF RacesInv, Busy, IsTap
        <4> QED BY <1>2, <4>2, <4>4
      <3> QED BY <3>1, <3>2
    <2> QED BY <2>4, <2>5, LogStep
  <1>7. RacesInv'
    <2>1. ASSUME NEW w \in Workers, NEW t \in Taps, Chosen(w)', IsTap(w)', About(w)' # t,
                 log'[<<Here(w)', t>>].status = "SENT", log'[<<Here(w)', t>>].dmSentAt = day'
          PROVE  {About(w)', t} \in races'
      <3>1. wk'[w].at \notin {"idle", "check"}
        BY <2>1 DEF Chosen
      <3>2. About(w)' = About(w) /\ Here(w)' = Here(w)
        BY <3>1, SameRow
      <3>3. IsTap(w)
        BY <2>1, <3>2 DEF IsTap
      <3> QED BY <1>6, <2>1, <3>1, <3>2, <3>3
    <2> QED BY <1>3, <1>4, <2>1 DEF RacesInv, Busy, IsTap, About
  <1>8. OnlyRacingTapsRepeat'
    <2> SUFFICES ASSUME NEW c \in Campaigns, NEW s \in Taps, NEW t \in Taps, s # t,
                        log'[<<c, s>>].status = "SENT", log'[<<c, t>>].status = "SENT",
                        log'[<<c, s>>].dmSentAt = log'[<<c, t>>].dmSentAt
                 PROVE  {s, t} \in races'
      BY DEF OnlyRacingTapsRepeat
    <2>1. <<c, s>> \in Rows /\ <<c, t>> \in Rows
      BY <1>1 DEF Rows
    <2>2. CASE log'[<<c, s>>] = log[<<c, s>>] /\ log'[<<c, t>>] = log[<<c, t>>]
      BY <1>2, <2>2 DEF OnlyRacingTapsRepeat
    <2>3. ASSUME NEW x \in Taps, NEW y \in Taps, x # y, NEW w \in Workers, Writes(w, "SENT"), Row(w) = <<c, x>>,
                 log'[<<c, y>>].status = "SENT", log'[<<c, x>>].dmSentAt = log'[<<c, y>>].dmSentAt
          PROVE  {x, y} \in races'
      <3>1. Here(w) = c /\ About(w) = x /\ <<c, y>> \in Rows
        BY <1>1, <2>3 DEF Row, Rows
      <3>2. log'[<<c, x>>].dmSentAt = day /\ log'[<<c, y>>] = log[<<c, y>>]
        BY <2>3, <3>1 DEF Writes
      <3> QED BY <1>5, <2>3, <3>1, <3>2 DEF Writes, IsTap
    <2>4. CASE \E w \in Workers, z \in Statuses : Writes(w, z) /\ Row(w) = <<c, s>>
      <3>1. PICK w \in Workers : Writes(w, "SENT") /\ Row(w) = <<c, s>>
        BY <2>4 DEF Writes
      <3> QED BY <2>3, <3>1
    <2>5. CASE \E w \in Workers, z \in Statuses : Writes(w, z) /\ Row(w) = <<c, t>>
      <3>1. PICK w \in Workers : Writes(w, "SENT") /\ Row(w) = <<c, t>>
        BY <2>5 DEF Writes
      <3>2. {t, s} \in races'
        BY <2>3, <3>1
      <3> QED BY <3>2
    <2> QED BY <2>1, <2>2, <2>4, <2>5, LogStep DEF Writes
  <1>9. QED BY <1>7, <1>8

-----------------------------------------------------------------------------
(* One answer                                                              *)

\* While jobs are not handled twice, one slot is about an interaction.
LEMMA OneSlot ==
    ASSUME TypeOK, JobsInv, OneLine, ~MayRunTwice, NEW v \in Workers, NEW w \in Workers,
           wk[v].at # "idle", wk[w].at # "idle", About(v) = About(w)
    PROVE  v = w
  <1>1. wk[v].id \in JobIds /\ wk[w].id \in JobIds
    BY TypesAre DEF SlotRec
  <1>2. Live(wk[v].id) /\ Live(wk[w].id)
    BY DEF JobsInv, Busy, Live
  <1>3. wk[v].id = wk[w].id
    BY <1>1, <1>2, OneLive DEF About
  <1>4. QED BY <1>3 DEF JobsInv, Busy

\* A message that is out is stored, or its slot still knows, or something was lost.
LEMMA OutStays ==
    ASSUME TypeOK, JobsInv, HookInv, [Next]_vars, NEW w \in Workers, wk[w].at = "sent"
    PROVE  \/ wk'[w] = wk[w]
           \/ Writes(w, "SENT")
           \/ Fault("lostAnswer") \/ Fault("crash")
  <1>1. /\ Stands => wk' = wk
        /\ \A id \in JobIds, s \in JobStates : Queues(id, s) => wk' = wk
    BY DEF Stands, Queues
  <1>2. \A v \in Workers, id \in JobIds : Begins(v, id) => wk'[w] = wk[w]
    BY DEF Begins, Moves
  <1>3. \A v \in Workers : Works(v) => wk'[w] = wk[w] \/ v = w
    BY DEF Works, Ends, Passes, Asks, Reads, Proceeds, Fails, Continues, Leaves, GoesOn, Moves
  <1>4. Works(w) => Writes(w, "SENT") \/ Fault("lostAnswer")
    BY DEF Works, Ends, Passes, Asks, Reads, Proceeds, Fails, Finish, Prompt, TapOverPlanLimit,
           SlotSkipped, ReadFollow, At
  <1>5. \A v \in Workers, jd \in JobIds : ComesBack(v, jd) => wk'[w] = wk[w]
    BY DEF ComesBack, Moves
  <1>6. QED BY <1>1, <1>2, <1>3, <1>4, <1>5, StepDeed DEF Deed

\* What was lost so far.
Lost == faults["lostAnswer"] + faults["crash"]

\* A lost answer and a crash count one each, and a line of jobs once doubled stays so.
LEMMA LostGrows ==
    ASSUME TypeOK, [Next]_vars
    PROVE  /\ Lost \in Nat /\ Lost' \in Nat /\ Lost' >= Lost
           /\ Fault("lostAnswer") \/ Fault("crash") => Lost' = Lost + 1
           /\ MayRunTwice => MayRunTwice'
  <1>1. faults \in [Faults -> Nat]
    BY TypesAre
  <1>2. {"lostAnswer", "crash", "evict", "blocked"} \subseteq Faults
    BY DEF Faults
  <1>3. /\ Fault("lostAnswer") => /\ faults'["lostAnswer"] = faults["lostAnswer"] + 1
                                  /\ faults'["crash"] = faults["crash"]
        /\ Fault("crash") => /\ faults'["lostAnswer"] = faults["lostAnswer"]
                             /\ faults'["crash"] = faults["crash"] + 1
    BY <1>1, <1>2, FaultCounts
  <1>4. QED BY <1>1, <1>2, <1>3, Grows DEF Lost, MayRunTwice

\* A message of row r is out and not stored yet.
OnWay(r) == \E w \in Workers : wk[w].at = "sent" /\ Row(w) = r

\* A message goes out for a row without an answer, and is stored unless it is lost.
LEMMA RowsStep ==
    ASSUME TypeOK, JobsInv, HookInv, OneLine, RowsInv, PromptsInv, [Next]_vars
    PROVE  RowsInv'
  <1>1. /\ wk \in [Workers -> SlotRec] /\ log \in [Rows -> LogRec]
        /\ links \in [Rows -> Nat] /\ asks \in [Rows -> Nat]
    BY TypesAre
  <1>2. SUFFICES ASSUME ~MayRunTwice'
                 PROVE  /\ \A w \in Workers : Chosen(w)' => log'[Row(w)'].status # "SENT"
                        /\ \A r \in Rows : Sends(r)' <= Lost' + (IF log'[r].status = "SENT" \/ OnWay(r)'
                                                                 THEN 1 ELSE 0)
    BY DEF RowsInv, Lost, OnWay, OnTheWay
  <1>3. /\ Lost \in Nat /\ Lost' \in Nat /\ Lost' >= Lost /\ ~MayRunTwice
        /\ Fault("lostAnswer") \/ Fault("crash") => Lost' = Lost + 1
    BY <1>2, LostGrows
  <1>4. /\ \A w \in Workers : wk[w].at \notin {"idle", "check"} => log[Row(w)].status # "SENT"
        /\ \A r \in Rows : Sends(r) <= Lost + (IF log[r].status = "SENT" \/ OnWay(r) THEN 1 ELSE 0)
    BY <1>3 DEF RowsInv, Lost, OnWay, OnTheWay, Chosen
  <1>5. ASSUME NEW w \in Workers, Chosen(w)' PROVE log'[Row(w)'].status # "SENT"
    <2>1. wk'[w].at \notin {"idle", "check"}
      BY <1>5 DEF Chosen
    <2>2. /\ wk[w].at # "idle" /\ Row(w) \in Rows /\ Row(w)' = Row(w)
          /\ wk[w].at = "check" => log' = log /\ ~AlreadyAnswered(Here(w), About(w))
      BY <2>1, SameRow
    <2>3. CASE wk[w].at = "check"
      BY <2>2, <2>3 DEF AlreadyAnswered, Revealed, Replied, Row
    <2>4. CASE wk[w].at # "check" /\ log' = log
      BY <1>4, <2>2, <2>4
    <2>5. ASSUME wk[w].at # "check", NEW v \in Workers, NEW s \in Statuses, Writes(v, s)
          PROVE  log'[Row(w)].status # "SENT"
      <3>1. CASE Row(v) # Row(w)
        BY <1>4, <2>2, <2>5, <3>1 DEF Writes
      <3>2. CASE Row(v) = Row(w) /\ s = "SENT"
        <4>1. Continues(v) /\ About(v) = About(w)
          BY <2>5, <3>2 DEF Writes, Row
        <4>2. v = w
          BY <1>3, <2>2, <4>1, OneSlot DEF Continues
        <4> QED BY <2>1, <4>1, <4>2 DEF Continues
      <3>3. CASE Row(v) = Row(w) /\ s # "SENT"
        BY <2>5, <3>3 DEF Writes
      <3> QED BY <3>1, <3>2, <3>3
    <2> QED BY <2>2, <2>3, <2>4, <2>5, LogStep
  <1>6. ASSUME NEW r \in Rows
        PROVE  Sends(r)' <= Lost' + (IF log'[r].status = "SENT" \/ OnWay(r)' THEN 1 ELSE 0)
    <2>1. Sends(r) \in Nat /\ Sends(r) <= Lost + (IF log[r].status = "SENT" \/ OnWay(r) THEN 1 ELSE 0)
      BY <1>1, <1>4 DEF Sends
    <2>2. log[r].status = "SENT" => log'[r].status = "SENT"
      <3> SUFFICES ASSUME log[r].status = "SENT" PROVE log'[r].status = "SENT"
        OBVIOUS
      <3>1. ASSUME NEW w \in Workers, NEW s \in Statuses, Writes(w, s) PROVE log'[r] = log[r]
        <4>1. Row(w) # r
          BY <1>4, <3>1 DEF Writes
        <4> QED BY <3>1, <4>1 DEF Writes
      <3> QED BY <3>1, LogStep
    <2>3. OnWay(r) => log'[r].status = "SENT" \/ OnWay(r)' \/ Lost' = Lost + 1
      <3> SUFFICES ASSUME OnWay(r) PROVE log'[r].status = "SENT" \/ OnWay(r)' \/ Lost' = Lost + 1
        OBVIOUS
      <3>1. PICK w \in Workers : wk[w].at = "sent" /\ Row(w) = r
        BY DEF OnWay
      <3>2. CASE wk'[w] = wk[w]
        BY <3>1, <3>2 DEF OnWay, Row, Here, About
      <3>3. CASE Writes(w, "SENT")
        BY <3>1, <3>3 DEF Writes
      <3> QED BY <1>3, <3>1, <3>2, <3>3, OutStays
    <2>4. CASE Sends(r)' = Sends(r)
      BY <1>3, <2>1, <2>2, <2>3, <2>4
    <2>5. ASSUME NEW w \in Workers, Reveal(w) \/ Reply(w), Sends1(w)
          PROVE  Sends(r)' <= Lost' + (IF log'[r].status = "SENT" \/ OnWay(r)' THEN 1 ELSE 0)
      <3>1. wk[w].at = "send"
        BY <2>5 DEF Sends1
      <3>2. Row(w) \in Rows
        BY <1>1, <3>1, HereIsIn DEF JobsInv, Chosen
      <3>3. CASE Row(w) # r
        <4>1. Sends(r)' = Sends(r)
          BY <1>1, <2>5, <3>2, <3>3 DEF Sends1, Sends
        <4> QED BY <2>4, <4>1
      <3>4. CASE Row(w) = r
        <4>1. Sends(r)' = Sends(r) + 1
          BY <1>1, <2>5, <3>4 DEF Sends1, Sends
        <4>2. log[r].status # "SENT"
          BY <1>4, <3>1, <3>4
        <4>3. ~OnWay(r)
          <5> SUFFICES ASSUME NEW v \in Workers, wk[v].at = "sent", Row(v) = r PROVE FALSE
            BY DEF OnWay
          <5>1. About(v) = About(w)
            BY <3>4 DEF Row
          <5>2. v = w
            BY <1>3, <3>1, <5>1, OneSlot
          <5> QED BY <3>1, <5>2
        <4>4. Sends(r) <= Lost
          BY <1>3, <2>1, <4>2, <4>3
        <4>5. CASE GoesOn(w, "sent")
          <5>1. OnWay(r)'
            BY <3>4, <4>5 DEF GoesOn, OnWay, Row, Here, About
          <5> QED BY <1>3, <2>1, <4>1, <4>4, <5>1
        <4>6. CASE Fault("lostAnswer")
          BY <1>3, <2>1, <4>1, <4>4, <4>6
        <4> QED BY <2>5, <4>5, <4>6, SlotWrites
      <3> QED BY <3>3, <3>4
    <2>6. links' = links /\ asks' = asks => Sends(r)' = Sends(r)
      BY DEF Sends
    <2> QED BY <2>4, <2>5, <2>6, MetaStep
  <1>7. QED BY <1>5, <1>6

-----------------------------------------------------------------------------
(* The loop over the campaigns                                             *)

\* While jobs are not handled twice an answer that is stored stays, and so does
\* what a message's job has been through.
LEMMA PassedStays ==
    ASSUME TypeOK, JobsInv, RowsInv, ~MayRunTwice, [Next]_vars,
           NEW c \in Campaigns, NEW m \in Messages, PassedOver(c, m), day' = day
    PROVE  PassedOver(c, m)'
  <1>1. Messages \subseteq Interactions
    BY DEF Interactions
  <1>2. \A w \in Workers : wk[w].at \notin {"idle", "check"} => log[Row(w)].status # "SENT"
    BY DEF RowsInv, Chosen
  <1>3. \A r \in Rows : log[r].status = "SENT" => log'[r] = log[r]
    BY <1>2, LogStep DEF Writes
  <1>4. \A r \in Rows : log[r].status # "none" => log'[r].status # "none"
    BY LogStep DEF Writes
  <1>5. \A i \in Messages : <<c, i>> \in Rows
    BY <1>1 DEF Rows
  <1>6. SentRecently(c, Messages) => SentRecently(c, Messages)'
    BY <1>3, <1>5 DEF SentRecently
  <1>7. QED BY <1>4, <1>5, <1>6 DEF PassedOver

\* The day, and the arrival, of an interaction whose window is still open.
LEMMA StillToday ==
    ASSUME TypeOK, JobsInv, HookInv, [Next]_vars, NEW i \in Interactions,
           arrived'[i] = day', i \in Arrived
    PROVE  day' = day /\ arrived[i] = day
  <1>1. /\ arrived \in [Interactions -> 0..LastDay] /\ day \in 0..LastDay /\ arrived[i] <= day
        /\ LastDay \in Nat
    BY TypesAre, ConversationsAssumption DEF HookInv
  <1>2. /\ arrived'[i] = arrived[i]
        /\ day' = day \/ (day' = day + 1 /\ arrived' = arrived)
    BY WorldStep
  <1>3. QED BY <1>1, <1>2

\* The loop leaves a campaign behind when it answered it.
LEMMA LoopStep ==
    ASSUME TypeOK, JobsInv, HookInv, OneLine, RowsInv, LoopInv, [Next]_vars
    PROVE  LoopInv'
  <1>1. SUFFICES ASSUME ~MayRunTwice', NEW w \in Workers, Busy(w)', ~IsTap(w)',
                        WithinMessagingWindow(About(w))',
                        NEW c \in (Concerned(About(w)) \ wk[w].todo)'
                 PROVE  PassedOver(c, About(w))'
    BY DEF LoopInv
  <1>2. wk \in [Workers -> SlotRec] /\ active \subseteq Campaigns /\ wk' \in [Workers -> SlotRec]
    BY TypesAre, JobsStep
  <1>3. /\ wk'[w].at # "idle" /\ wk'[w].id[1] \notin Taps /\ arrived'[wk'[w].id[1]] = day'
        /\ active' \subseteq active /\ ~MayRunTwice
    BY <1>1, WorldStep, LostGrows DEF Busy, IsTap, About, WithinMessagingWindow
  <1>4. ~\E id \in JobIds : Begins(w, id)
    BY <1>1, <1>3 DEF Begins, Concerned, About
  <1>5. wk[w].at # "idle" /\ wk'[w].id = wk[w].id /\ wk[w].id \in JobIds
    BY <1>2, <1>3, <1>4, SlotsJob DEF SlotRec
  <1>6. PICK m : m = About(w)
    OBVIOUS
  <1>7. m \in Messages /\ m \in Interactions /\ m \in Arrived /\ About(w)' = m
    BY <1>3, <1>5, <1>6, IdIsJob DEF About, Interactions, JobsInv, Busy
  <1>8. day' = day /\ arrived[m] = day
    BY <1>3, <1>5, <1>6, <1>7, StillToday DEF About
  <1>9. c \in Concerned(m) /\ c \notin wk'[w].todo /\ c \in Campaigns
    BY <1>1, <1>2, <1>3, <1>7 DEF Concerned
  <1>10. CASE c \notin wk[w].todo
    <2>1. PassedOver(c, m)
      BY <1>3, <1>5, <1>6, <1>7, <1>8, <1>9, <1>10 DEF LoopInv, Busy, IsTap, About, WithinMessagingWindow
    <2>2. PassedOver(c, m)'
      BY <1>3, <1>7, <1>8, <1>9, <2>1, PassedStays
    <2> QED BY <1>7, <2>2
  <1>11. CASE c \in wk[w].todo
    <2>1. Passes(w)
      <3>1. wk'[w] # wk[w] /\ wk'[w].todo # wk[w].todo
        BY <1>9, <1>11
      <3>2. wk'[w].at = "check"
        BY <1>3, <3>1, SameRow
      <3>3. /\ Stands => wk' = wk
            /\ \A id \in JobIds, s \in JobStates : Queues(id, s) => wk' = wk
        BY DEF Stands, Queues
      <3>4. \A v \in Workers, id \in JobIds : Begins(v, id) => wk'[w] = wk[w]
        BY <1>4 DEF Begins, Moves
      <3>5. \A v \in Workers : Works(v) => wk'[w] = wk[w] \/ v = w
        BY DEF Works, Ends, Passes, Asks, Reads, Proceeds, Fails, Continues, Leaves, GoesOn, Moves
      <3>6. Works(w) => Passes(w) \/ wk'[w].at # "check"
        BY DEF Works, Ends, Asks, Reads, Proceeds, Fails, Leaves, GoesOn, Idle
      <3>7. \A v \in Workers, jd \in JobIds : ComesBack(v, jd) => wk'[w] = wk[w] \/ wk'[w].at = "idle"
        BY DEF ComesBack, Moves, Idle
      <3>8. Halts => wk'[w].at = "idle"
        BY DEF Halts, Idle
      <3> QED BY <3>1, <3>2, <3>3, <3>4, <3>5, <3>6, <3>7, <3>8, StepDeed DEF Deed
    <2>2. c = Here(w) /\ Row(w) = <<c, m>>
      BY <1>6, <1>9, <1>11, <2>1 DEF Passes, Continues, Row
    <2>3. CASE log'[Row(w)].status # "none"
      BY <1>7, <2>2, <2>3 DEF PassedOver
    <2>4. CASE Replied(Here(w), About(w)) /\ log' = log /\ day' = day
      <3>1. PassedOver(c, m)
        BY <1>6, <2>2, <2>4 DEF Replied, PassedOver
      <3>2. PassedOver(c, m)'
        BY <1>3, <1>7, <1>8, <1>9, <3>1, PassedStays
      <3> QED BY <1>7, <3>2
    <2> QED BY <1>3, <1>5, <2>1, <2>3, <2>4 DEF Passes, IsTap, About
  <1>12. QED BY <1>10, <1>11

\* All jobs of a message.
LEMMA OverIs ==
    ASSUME NEW m \in Messages
    PROVE  /\ Over(m) <=> /\ \A id \in JobIds : id[1] = m => job[id].state \in {"none", "completed"}
                          /\ job[<<m, 0, 0>>].state = "completed"
           /\ Over(m)' <=> /\ \A id \in JobIds : id[1] = m => job'[id].state \in {"none", "completed"}
                           /\ job'[<<m, 0, 0>>].state = "completed"
  <1>1. \A h \in 0..MaxHourlyRequeues, b \in 0..MAX_BURST_REQUEUE_ATTEMPTS : <<m, h, b>> \in JobIds
    BY DEF JobIds, Interactions
  <1>2. \A id \in JobIds : id[1] = m => \E h \in 0..MaxHourlyRequeues, b \in 0..MAX_BURST_REQUEUE_ATTEMPTS :
                                              id = <<m, h, b>>
    BY DEF JobIds
  <1>3. QED BY <1>1, <1>2 DEF Over

\* A job is over when its loop is, when it is skipped, or out of the window.
LEMMA GetsOver ==
    ASSUME TypeOK, JobsInv, HookInv, OneLine, GateInv, [Next]_vars, ~MayRunTwice',
           NEW m \in Messages, Over(m)', ~Over(m), arrived[m] = day
    PROVE  \E w \in Workers : /\ About(w) = m /\ wk[w].at # "idle" /\ ~IsTap(w)
                              /\ Finish(w) \/ SlotSkipped(w)
  <1>1. m \in Interactions /\ m \notin Taps /\ <<m, 0, 0>> \in JobIds /\ wk \in [Workers -> SlotRec]
    BY ConversationsAssumption, IdIsJob, TypesAre DEF Interactions
  <1>2. /\ \A id \in JobIds : id[1] = m => job'[id].state \in {"none", "completed"}
        /\ job'[<<m, 0, 0>>].state = "completed"
    BY OverIs
  <1>3. ASSUME \A id \in JobIds : id[1] = m => job[id].state \in {"none", "completed"} \/ job'[id] = job[id],
               job[<<m, 0, 0>>].state = "completed" \/ job'[<<m, 0, 0>>] = job[<<m, 0, 0>>]
        PROVE  FALSE
    BY <1>2, <1>3, OverIs
  <1>4. ~Stands
    BY <1>1, <1>3 DEF Stands
  <1>5. ~\E id \in JobIds, s \in JobStates : Queues(id, s)
    <2> SUFFICES ASSUME NEW id \in JobIds, NEW s \in JobStates, Queues(id, s) PROVE FALSE
      OBVIOUS
    <2>1. CASE id[1] # m \/ job' = job
      BY <1>1, <1>3, <2>1 DEF Queues, OnlyJob
    <2>2. CASE id[1] = m /\ job' # job
      <3>1. job[id].state = "completed" /\ s = "none" /\ job'[id].state = "none"
        BY <1>2, <2>2 DEF Queues, WithinMessagingWindow
      <3>2. id # <<m, 0, 0>>
        BY <1>2, <3>1
      <3>3. \A d \in JobIds \ {id} : job'[d] = job[d]
        BY DEF Queues, OnlyJob
      <3> QED BY <1>1, <1>3, <3>1, <3>2, <3>3
    <2> QED BY <2>1, <2>2
  <1>6. ~\E w \in Workers, id \in JobIds : Begins(w, id)
    <2> SUFFICES ASSUME NEW w \in Workers, NEW id \in JobIds, Begins(w, id) PROVE FALSE
      OBVIOUS
    <2>1. id[1] # m
      BY <1>2 DEF Begins
    <2> QED BY <1>1, <1>3, <2>1 DEF Begins, OnlyJob
  <1>7. ~\E w \in Workers, jd \in JobIds : ComesBack(w, jd)
    <2> SUFFICES ASSUME NEW w \in Workers, NEW jd \in JobIds, ComesBack(w, jd) PROVE FALSE
      OBVIOUS
    <2>1. PICK id \in JobIds : id = wk[w].id
      BY <1>1 DEF SlotRec
    <2>2. jd[1] = id[1] /\ Place(jd) = Place(id) + 1 /\ job[id].state = "active"
      BY <2>1 DEF ComesBack, JobsInv, Busy
    <2>3. CASE id[1] # m
      BY <1>1, <1>3, <2>1, <2>2, <2>3 DEF ComesBack
    <2>4. CASE id[1] = m
      <3>1. job[jd].state # "none"
        BY <1>2, <2>2, <2>4 DEF ComesBack
      <3>2. faults["evict"] = 0
        <4>1. faults'["blocked"] > 0 /\ faults'["evict"] \in Nat /\ faults["evict"] \in Nat
              /\ faults'["evict"] >= faults["evict"]
          BY Grows, TypesAre DEF ComesBack, Faults
        <4> QED BY <4>1 DEF MayRunTwice
      <3>3. Place(id) \in Nat
        BY IdIsJob
      <3>4. id # jd
        BY <2>2, <3>3
      <3>5. Place(jd) < Place(id)
        BY <2>2, <3>1, <3>2, <3>4 DEF OneLine, Live
      <3> QED BY <2>2, <3>3, <3>5
    <2> QED BY <2>3, <2>4
  <1>8. ~Halts
    <2> SUFFICES ASSUME Halts PROVE FALSE
      OBVIOUS
    <2>1. \A id \in JobIds : id[1] = m => job'[id] = job[id]
      BY <1>2 DEF Halts
    <2> QED BY <1>1, <1>3, <2>1
  <1>9. PICK w \in Workers : Works(w)
    BY <1>4, <1>5, <1>6, <1>7, <1>8, StepDeed DEF Deed
  <1>10. wk[w].id \in JobIds
    BY <1>1 DEF SlotRec
  <1>11. ~(Passes(w) \/ Asks(w) \/ Reads(w) \/ Proceeds(w))
    BY <1>1, <1>3 DEF Passes, Continues, Asks, Reads, Proceeds, GoesOn
  <1>12. \E s \in {"waiting", "failed", "completed"} : Leaves(w, s) /\ (s = "completed" => Ends(w))
    BY <1>9, <1>11 DEF Works, Ends, Fails
  <1>13. wk[w].id[1] = m
    BY <1>1, <1>3, <1>10, <1>12 DEF Leaves, OnlyJob
  <1>14. Ends(w)
    BY <1>2, <1>10, <1>12, <1>13 DEF Leaves
  <1>15. ~IsTap(w) /\ wk[w].at # "idle" /\ About(w) = m
    BY <1>1, <1>13, <1>14 DEF IsTap, About, Ends, Leaves
  <1>16. Finish(w) \/ SlotSkipped(w)
    BY <1>14, <1>15 DEF Ends, Prompt, TapOverPlanLimit, GateInv
  <1>17. QED BY <1>15, <1>16

\* What was answered when the loop ends stays answered.
LEMMA LoopEndStep ==
    ASSUME TypeOK, JobsInv, HookInv, OneLine, RowsInv, GateInv, LoopInv, OnlyASkipEndsTheLoop, [Next]_vars
    PROVE  OnlyASkipEndsTheLoop'
  <1>1. SUFFICES ASSUME ~MayRunTwice', NEW m \in Messages, Over(m)', WithinMessagingWindow(m)',
                        NEW c \in active' \cap (AnyWord \cup Matches[m])
                 PROVE  \/ PassedOver(c, m)'
                        \/ \E d \in 1..(c - 1) : log'[<<d, m>>].status = "SKIPPED_RATE_LIMIT"
    BY DEF OnlyASkipEndsTheLoop, PassedOver
  <1>2. /\ wk \in [Workers -> SlotRec] /\ active' \subseteq active /\ active \subseteq Campaigns
        /\ m \in Interactions /\ m \notin Taps /\ <<m, 0, 0>> \in JobIds
        /\ ~MayRunTwice
    BY <1>1, TypesAre, WorldStep, LostGrows, IdIsJob, ConversationsAssumption DEF Interactions
  <1>3. c \in Campaigns /\ c \in active /\ c \in Concerned(m) /\ <<c, m>> \in Rows
    BY <1>1, <1>2 DEF Concerned, Rows
  <1>4. day' = day /\ arrived[m] = day
    <2>1. arrived'[m] = day' /\ job'[<<m, 0, 0>>].state = "completed"
      BY <1>1, OverIs DEF WithinMessagingWindow
    <2>2. CASE m \in Arrived
      BY <1>2, <2>1, <2>2, StillToday
    <2>3. CASE m \notin Arrived
      <3>1. job[<<m, 0, 0>>].state = "none"
        BY <1>2, <2>3 DEF JobsInv
      <3>2. job' # job
        BY <2>1, <3>1
      <3>3. arrived' = arrived /\ day' = day
        BY <3>2, WorldStep
      <3> QED BY <2>1, <3>3
    <2> QED BY <2>2, <2>3
  <1>5. CASE Over(m)
    <2>1. \/ PassedOver(c, m)
          \/ \E d \in 1..(c - 1) : log[<<d, m>>].status = "SKIPPED_RATE_LIMIT"
      BY <1>1, <1>2, <1>3, <1>4, <1>5 DEF OnlyASkipEndsTheLoop, PassedOver, WithinMessagingWindow
    <2>2. ASSUME NEW d \in 1..(c - 1) PROVE log'[<<d, m>>] = log[<<d, m>>]
      <3>1. <<d, m>> \in Rows
        BY <1>2, <1>3, ConversationsAssumption DEF Rows, Campaigns
      <3>2. ASSUME NEW w \in Workers, NEW s \in Statuses, Writes(w, s) PROVE Row(w) # <<d, m>>
        <4>1. job[wk[w].id].state = "active" /\ wk[w].id \in JobIds
          BY <1>2, <3>2 DEF Writes, JobsInv, Busy, SlotRec
        <4>2. About(w) # m
          BY <1>5, <4>1, OverIs DEF About
        <4> QED BY <4>2 DEF Row
      <3> QED BY <3>1, <3>2, LogStep DEF Writes
    <2>3. PassedOver(c, m) => PassedOver(c, m)'
      BY <1>2, <1>3, <1>4, PassedStays
    <2> QED BY <2>1, <2>2, <2>3
  <1>6. CASE ~Over(m)
    <2>1. PICK w \in Workers : /\ About(w) = m /\ wk[w].at # "idle" /\ ~IsTap(w)
                               /\ Finish(w) \/ SlotSkipped(w)
      BY <1>1, <1>4, <1>6, GetsOver
    <2>2. c \notin wk[w].todo => PassedOver(c, m)
      BY <1>2, <1>3, <1>4, <2>1 DEF LoopInv, Busy, WithinMessagingWindow
    <2>3. CASE c \notin wk[w].todo
      BY <1>2, <1>3, <1>4, <2>2, <2>3, PassedStays
    <2>4. CASE c \in wk[w].todo
      <3>1. SlotSkipped(w)
        BY <2>1, <2>4 DEF Finish
      <3>2. Writes(w, "SKIPPED_RATE_LIMIT")
        BY <3>1, SlotWrites
      <3>3. log'[<<Here(w), m>>].status = "SKIPPED_RATE_LIMIT"
        BY <2>1, <3>2 DEF Writes, Row
      <3>4. Here(w) \in Campaigns /\ Here(w) <= c
        BY <1>2, <2>4, HereIsIn
      <3>5. CASE Here(w) = c
        BY <3>3, <3>5 DEF PassedOver
      <3>6. CASE Here(w) # c
        <4>1. Here(w) \in 1..(c - 1)
          BY <1>3, <3>4, <3>6, ConversationsAssumption DEF Campaigns
        <4> QED BY <3>3, <4>1
      <3> QED BY <3>5, <3>6
    <2> QED BY <2>3, <2>4
  <1>7. QED BY <1>5, <1>6

-----------------------------------------------------------------------------
(* The invariant                                                           *)

\* At first nothing has arrived and nothing is done.
LEMMA InitHolds == Init => IInv
  <1> SUFFICES ASSUME Init PROVE IInv
    OBVIOUS
  <1>1. TypeOK
    <2>1. NoJob \in JobRec
      BY ConversationsAssumption DEF NoJob, JobRec, JobStates
    <2>2. [status |-> "none", stage |-> "none", dmSentAt |-> 0] \in LogRec
      BY ConversationsAssumption DEF LogRec, Statuses
    <2>3. [state |-> "none", left |-> {}, deliveries |-> 0] \in HookRec
      BY ConversationsAssumption DEF HookRec
    <2>4. 0 \in 0..LastDay /\ 0 \in 0..DmLimit
      BY ConversationsAssumption
    <2> QED BY <2>1, <2>2, <2>3, <2>4, IdIsJob, TypesAre DEF Init
  <1>2. /\ \A w \in Workers : wk[w].at = "idle"
        /\ \A id \in JobIds : job[id].state = "none" /\ job[id].tries = 0
        /\ \A p \in Payloads : hook[p].state = "none" /\ hook[p].left = {} /\ hook[p].deliveries = 0
        /\ \A r \in Rows : log[r].status = "none" /\ log[r].dmSentAt = 0 /\ links[r] = 0 /\ asks[r] = 0
        /\ \A f \in Faults : faults[f] = 0
        /\ \A c \in Campaigns : prompts[c] = 0 /\ expiries[c] = 0
        /\ \A i \in Interactions : arrived[i] = 0
        /\ used = 0 /\ day = 0
    BY DEF Init, Idle, NoJob
  <1>3. Metered = 0 /\ Cardinality(Holding) = 0 /\ Cardinality(OnTheWay) = 0
        /\ Cardinality(Holding \ OnTheWay) = 0 /\ Cardinality(Workers) \in Nat
    <2>1. SumOver(links, Rows) = 0 /\ SumOver(asks, Rows) = 0
      BY <1>2, RowsFinite, SumOfZeros
    <2>2. Metered = 0
      BY <2>1 DEF Metered, SumOver, MapThenSumSet, MapThenFoldSet
    <2>3. Holding = {} /\ OnTheWay = {} /\ Holding \ OnTheWay = {}
      BY <1>2 DEF Holding, OnTheWay
    <2> QED BY <2>2, <2>3, RowsFinite, FS_EmptySet, FS_CardinalityType
  <1>4. UsageIsExplained /\ Cardinality(Holding) <= used
    BY <1>2, <1>3 DEF UsageIsExplained, Faults
  <1>5. Arrived = {} /\ NoId \in JobIds
    BY <1>2, IdIsJob DEF Arrived
  <1>6. JobsInv /\ HookInv
    BY <1>2, <1>5, ConversationsAssumption DEF JobsInv, HookInv, Busy, Chosen, Live
  <1>7. GateInv /\ GateHolds /\ PromptsInv
    <2>1. \A c \in Gated, i \in Interactions : <<c, i>> \in Rows
      BY ConversationsAssumption DEF Rows
    <2> QED BY <1>2, <1>5, <2>1 DEF GateInv, GateHolds, PromptsInv, At, Faults
  <1>8. RacesInv /\ OnlyRacingTapsRepeat
    <2>1. \A c \in Campaigns, t \in Taps : <<c, t>> \in Rows
      BY DEF Rows, Interactions
    <2> QED BY <1>2, <2>1 DEF RacesInv, OnlyRacingTapsRepeat, Busy, Chosen
  <1>9. OneLine /\ RowsInv /\ LoopInv
    BY <1>2, IdIsJob DEF OneLine, RowsInv, LoopInv, Live, Chosen, Busy, Sends, Faults
  <1>10. OnlyASkipEndsTheLoop
    BY <1>2, IdIsJob DEF OnlyASkipEndsTheLoop, Over, Interactions
  <1>11. QED BY <1>1, <1>4, <1>6, <1>7, <1>8, <1>9, <1>10 DEF IInv

\* Every step keeps the invariant.
LEMMA NextHolds == IInv /\ [Next]_vars => IInv'
  <1> SUFFICES ASSUME IInv, [Next]_vars PROVE IInv'
    OBVIOUS
  <1>1. /\ TypeOK /\ JobsInv /\ HookInv /\ GateInv /\ GateHolds /\ PromptsInv /\ RacesInv
        /\ OnlyRacingTapsRepeat /\ OneLine /\ RowsInv /\ LoopInv /\ OnlyASkipEndsTheLoop
        /\ Held <= used /\ UsageIsExplained
    BY DEF IInv, Held
  <1>2. TypeOK' /\ JobsInv' /\ HookInv' /\ PromptsInv'
    BY <1>1, TypeStep, JobsStep, HookStep, MetaStep
  <1>3. Held' <= used' /\ UsageIsExplained'
    BY <1>1, UsageShapes, UsageStep
  <1>4. GateInv' /\ GateHolds' /\ RacesInv' /\ OnlyRacingTapsRepeat'
    BY <1>1, GateStep, RacesStep
  <1>5. OneLine' /\ RowsInv'
    BY <1>1, OneLineStep, RowsStep
  <1>6. LoopInv' /\ OnlyASkipEndsTheLoop'
    BY <1>1, LoopStep, LoopEndStep
  <1>7. QED BY <1>2, <1>3, <1>4, <1>5, <1>6 DEF IInv, Held

\* The invariant holds in every behaviour.
LEMMA Invariance == Spec => []IInv
  BY InitHolds, NextHolds, PTL DEF Spec

-----------------------------------------------------------------------------

\* The quota counts the messages that went out: whatever fails, in any interleaving
\* of the slots, a unit in excess is held by a running job or was lost to a crash or
\* an unreachable limiter, and a message in excess was one whose answer was lost.
THEOREM UsageHolds == Spec => []UsageIsExplained
  <1>1. IInv => UsageIsExplained
    BY DEF IInv
  <1>2. QED BY <1>1, Invariance, PTL

\* The follow gate: a gated campaign's link goes only to people who followed since
\* they wrote or tapped, and the prompts outside the quota are throttled.
THEOREM GateIsKept == Spec => []FollowersOnly
  <1>1. IInv => FollowersOnly
    <2> SUFFICES ASSUME IInv PROVE GateHolds /\ PromptsAreThrottled
      BY DEF FollowersOnly
    <2>1. GateHolds /\ PromptsInv /\ TypeOK
      BY DEF IInv
    <2>2. faults["throttle"] \in Nat /\ \A c \in Campaigns : prompts[c] \in Nat /\ expiries[c] \in Nat
      BY <2>1, TypesAre DEF Faults
    <2> QED BY <2>1, <2>2 DEF PromptsInv, PromptsAreThrottled
  <1>2. QED BY <1>1, Invariance, PTL

\* One answer per interaction and campaign but for the lost ones, a second reveal on
\* a day only to taps that raced, no campaign dropped by the loop but after a skip,
\* and no acknowledged interaction missing from the queue.
THEOREM AnswersHold == Spec => []AnswersAreAccounted
  <1>1. IInv => AnswersAreAccounted
    <2> SUFFICES ASSUME IInv PROVE AnswersAreAccounted
      OBVIOUS
    <2>1. TypeOK /\ HookInv /\ RowsInv /\ OnlyRacingTapsRepeat /\ OnlyASkipEndsTheLoop
      BY DEF IInv
    <2>2. OneAnswer
      <3>1. /\ \A r \in Rows : Sends(r) \in Nat
            /\ faults["lostAnswer"] \in Nat /\ faults["crash"] \in Nat
        BY <2>1, TypesAre DEF Sends, Faults
      <3> QED BY <2>1, <3>1 DEF RowsInv, OneAnswer, Sends
    <2>3. AcknowledgedIsQueued
      BY <2>1 DEF HookInv, AcknowledgedIsQueued
    <2> QED BY <2>1, <2>2, <2>3 DEF AnswersAreAccounted
  <1>2. QED BY <1>1, Invariance, PTL
=============================================================================
