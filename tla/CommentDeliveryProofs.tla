------------------------ MODULE CommentDeliveryProofs ------------------------
(***************************************************************************)
(* What CommentDelivery guarantees for every number of comments, campaigns *)
(* and job slots, under every combination of crashes, timeouts, failing    *)
(* writes, redeliveries, evictions and overlapping jobs: its types (with   *)
(* the counter between 0 and the plan's cap), that DmLog never claims a    *)
(* message or a public reply that Meta did not take, and what the month's  *)
(* counter is worth.                                                       *)
(***************************************************************************)
EXTENDS CommentDelivery, SumTheorems

SlotRec == [at : Steps, id : JobIds, pos : 1..(NumCampaigns + 1),
            status : Statuses, replied : BOOLEAN]
JobRec  == [state : {"none", "waiting", "active", "completed", "failed"},
            tries : 0..JOB_ATTEMPTS, stalls : 0..1]

\* A busy slot owns its job: the job is active and no other slot works on it.
JobsOwned ==
    \A w \in Workers : wk[w].at # "idle" =>
        /\ job[wk[w].id].state = "active"
        /\ \A v \in Workers \ {w} : wk[v].at # "idle" => wk[v].id # wk[w].id

\* A job that may still run has tries left.
TriesLeft ==
    \A id \in JobIds : job[id].state \in {"none", "waiting", "active"} =>
        job[id].tries < JOB_ATTEMPTS

\* Only a slot at the top of the loop can be past the last campaign.
InLoop == \A w \in Workers : wk[w].at \notin {"idle", "read"} => wk[w].pos \in Campaigns

\* The slots that would give a reservation back if their send failed now.
Holding == {w \in Workers : wk[w].at \in {"slot", "send", "sent"}}

\* Between Meta's answer and the update of the row.
AnswerSeen ==
    \A w \in Workers :
        /\ wk[w].at = "sent" => dms[Pair(w)] > 0
        /\ wk[w].at = "replied" => replies[Pair(w)] > 0

IInv ==
    /\ TypeOK
    /\ JobsOwned /\ TriesLeft /\ InLoop
    /\ Cardinality(Holding) <= used
    /\ AnswerSeen
    /\ SentHasDm /\ RepliedIsTrue

-----------------------------------------------------------------------------

\* Slot w takes a step, the others stand still.
Moves(w) ==
    /\ wk' \in [Workers -> SlotRec]
    /\ \A v \in Workers \ {w} : wk'[v] = wk[v]

\* Jobs that run are left alone, others at most become runnable.
JobsOnlyAdded ==
    /\ job' \in [JobIds -> JobRec]
    /\ \A id \in JobIds : job[id].state = "active" => job'[id] = job[id]
    /\ \A id \in JobIds : job'[id].state \in {"none", "waiting", "active"} =>
           job'[id].tries < JOB_ATTEMPTS

\* The slots that hold a reservation, before and after a step of one slot.
LEMMA HoldingCount ==
    ASSUME wk \in [Workers -> SlotRec], NEW w \in Workers, Moves(w)
    PROVE  /\ Cardinality(Holding) \in Nat
           /\ w \notin Holding /\ w \notin Holding' => Cardinality(Holding') = Cardinality(Holding)
           /\ w \notin Holding /\ w \in Holding' => Cardinality(Holding') = Cardinality(Holding) + 1
           /\ w \in Holding /\ w \in Holding' => Cardinality(Holding') = Cardinality(Holding)
           /\ w \in Holding /\ w \notin Holding' => Cardinality(Holding') = Cardinality(Holding) - 1
           /\ w \in Holding => Cardinality(Holding) > 0
  <1>1. IsFiniteSet(Holding)
    BY DeliveryAssumption, FS_Subset DEF Holding
  <1>2. \A v \in Workers \ {w} : v \in Holding <=> v \in Holding'
    BY DEF Moves, Holding
  <1>3. Holding \subseteq Workers /\ Holding' \subseteq Workers
    BY DEF Holding
  <1>4. Cardinality(Holding) \in Nat
    BY <1>1, FS_CardinalityType
  <1>5. CASE w \notin Holding /\ w \notin Holding'
    <2>1. Holding' = Holding
      BY <1>2, <1>3, <1>5
    <2> QED BY <1>4, <1>5, <2>1
  <1>6. CASE w \notin Holding /\ w \in Holding'
    <2>1. Holding' = Holding \cup {w}
      BY <1>2, <1>3, <1>6
    <2> QED BY <1>1, <1>4, <1>6, <2>1, FS_AddElement
  <1>7. w \in Holding => Cardinality(Holding) > 0
    BY <1>1, <1>4, FS_EmptySet
  <1>8. CASE w \in Holding /\ w \in Holding'
    <2>1. Holding' = Holding
      BY <1>2, <1>3, <1>8
    <2> QED BY <1>4, <1>7, <1>8, <2>1
  <1>9. CASE w \in Holding /\ w \notin Holding'
    <2>1. Holding' = Holding \ {w}
      BY <1>2, <1>3, <1>9
    <2> QED BY <1>1, <1>4, <1>7, <1>9, <2>1, FS_RemoveElement
  <1>10. QED
    BY <1>5, <1>6, <1>8, <1>9

\* A slot that goes on with its job.
LEMMA SlotGoesOn ==
    ASSUME IInv, NEW w \in Workers, Moves(w), JobsOnlyAdded,
           wk[w].at # "idle", wk'[w].at # "idle", wk'[w].id = wk[w].id,
           wk'[w].at # "read" => wk'[w].pos \in Campaigns
    PROVE  JobsOwned' /\ TriesLeft' /\ InLoop'
  <1>0. /\ \A v \in Workers : wk[v].id \in JobIds /\ wk'[v].id = wk[v].id
        /\ \A v \in Workers : wk'[v].at # "idle" => wk[v].at # "idle"
    BY DEF IInv, TypeOK, Moves, SlotRec
  <1>1. JobsOwned'
    BY <1>0 DEF IInv, JobsOwned, JobsOnlyAdded
  <1>2. TriesLeft'
    BY DEF JobsOnlyAdded, TriesLeft
  <1>3. InLoop'
    BY DEF IInv, InLoop, Moves
  <1>4. QED BY <1>1, <1>2, <1>3

\* A slot that leaves its job, whatever becomes of the job.
LEMMA SlotLeaves ==
    ASSUME IInv, NEW w \in Workers, Moves(w), wk[w].at # "idle", wk'[w] = Idle,
           job' \in [JobIds -> JobRec],
           \A id \in JobIds \ {wk[w].id} : job'[id] = job[id],
           job'[wk[w].id].state \in {"none", "waiting", "active"} =>
               job'[wk[w].id].tries < JOB_ATTEMPTS
    PROVE  JobsOwned' /\ TriesLeft' /\ InLoop'
  <1>0. /\ wk'[w].at = "idle"
        /\ \A v \in Workers \ {w} : wk'[v] = wk[v] /\ wk[v].id \in JobIds
    BY DEF IInv, TypeOK, Moves, SlotRec, Idle
  <1>1. JobsOwned'
    <2> SUFFICES ASSUME NEW v \in Workers \ {w}, wk[v].at # "idle"
                 PROVE  /\ job'[wk[v].id].state = "active"
                        /\ \A u \in Workers \ {v} : wk'[u].at # "idle" => wk'[u].id # wk[v].id
      BY <1>0 DEF JobsOwned
    <2>1. wk[v].id # wk[w].id /\ job[wk[v].id].state = "active"
      BY DEF IInv, JobsOwned
    <2>2. job'[wk[v].id].state = "active"
      BY <1>0, <2>1
    <2>3. \A u \in Workers \ {v} : wk'[u].at # "idle" => wk'[u].id # wk[v].id
      BY <1>0 DEF IInv, JobsOwned
    <2> QED BY <2>2, <2>3
  <1>2. TriesLeft'
    BY DEF IInv, TriesLeft
  <1>3. InLoop'
    BY DEF IInv, InLoop, Moves, Idle
  <1>4. QED BY <1>1, <1>2, <1>3

\* An add leaves every job but a new one as it is.
LEMMA AddIsSafe ==
    ASSUME IInv, NEW id \in JobIds, job' = Added(id)
    PROVE  JobsOnlyAdded
  <1>1. job \in [JobIds -> JobRec]
    BY DEF IInv, TypeOK, JobRec
  <1>2. \A i \in JobIds : job[i].state \in {"none", "waiting", "active"} => job[i].tries < JOB_ATTEMPTS
    BY DEF IInv, TriesLeft
  <1>3. CASE job[id].state = "none"
    BY <1>1, <1>2, <1>3 DEF Added, JobsOnlyAdded, JobRec
  <1>4. CASE job[id].state # "none"
    BY <1>1, <1>2, <1>4 DEF Added, JobsOnlyAdded
  <1>5. QED BY <1>3, <1>4

\* No add at all.
LEMMA NoAddIsSafe ==
    ASSUME IInv, UNCHANGED job
    PROVE  JobsOnlyAdded
  BY DEF IInv, TypeOK, TriesLeft, JobsOnlyAdded, JobRec

\* Where the shapes of a slot's step lead.
LEMMA GotoMoves ==
    ASSUME IInv, NEW w \in Workers, NEW s \in Steps, Goto(w, s)
    PROVE  /\ Moves(w) /\ wk'[w].at = s /\ wk'[w].id = wk[w].id /\ wk'[w].pos = wk[w].pos
           /\ Pair(w)' = Pair(w)
  <1>1. wk \in [Workers -> SlotRec]
    BY DEF IInv, TypeOK, SlotRec
  <1>2. wk' = [wk EXCEPT ![w] = [wk[w] EXCEPT !.at = s]]
    BY DEF Goto
  <1>3. [wk[w] EXCEPT !.at = s] \in SlotRec
    BY <1>1 DEF SlotRec
  <1>4. Moves(w) /\ wk'[w] = [wk[w] EXCEPT !.at = s]
    BY <1>1, <1>2, <1>3 DEF Moves
  <1>5. wk'[w].at = s /\ wk'[w].id = wk[w].id /\ wk'[w].pos = wk[w].pos
    BY <1>1, <1>4 DEF SlotRec
  <1>6. QED
    BY <1>4, <1>5 DEF Pair, Comment

\* The next campaign of the same job.
LEMMA ContinueMoves ==
    ASSUME IInv, NEW w \in Workers, Continue(w), wk[w].pos \in Campaigns
    PROVE  Moves(w) /\ wk'[w].at = "read" /\ wk'[w].id = wk[w].id
  <1>1. wk \in [Workers -> SlotRec]
    BY DEF IInv, TypeOK, SlotRec
  <1>2. wk[w].pos + 1 \in 1..(NumCampaigns + 1) /\ wk[w].id \in JobIds
    BY <1>1, DeliveryAssumption DEF SlotRec, Campaigns
  <1>3. Before(wk[w].id, wk[w].pos + 1) \in SlotRec
    BY <1>2 DEF Before, SlotRec, Steps, Statuses
  <1>4. Moves(w) /\ wk'[w] = Before(wk[w].id, wk[w].pos + 1)
    BY <1>1, <1>3 DEF Continue, Moves
  <1>5. QED
    BY <1>4 DEF Before

\* The job throws and the slot is free.
LEMMA ThrowMoves ==
    ASSUME IInv, NEW w \in Workers, Throw(w), wk[w].at # "idle"
    PROVE  /\ Moves(w) /\ wk'[w] = Idle
           /\ job' \in [JobIds -> JobRec]
           /\ JobsOwned' /\ TriesLeft' /\ InLoop'
  <1>1. wk \in [Workers -> SlotRec] /\ job \in [JobIds -> JobRec]
    BY DEF IInv, TypeOK, SlotRec, JobRec
  <1>2. Idle \in SlotRec
    BY DeliveryAssumption DEF SlotRec, Idle, Steps, Statuses, JobIds, Comments
  <1>3. Moves(w) /\ wk'[w] = Idle
    BY <1>1, <1>2 DEF Throw, Moves
  <1>4. wk[w].id \in JobIds /\ job[wk[w].id].tries < JOB_ATTEMPTS
    BY <1>1 DEF IInv, JobsOwned, TriesLeft, SlotRec
  <1>5. PICK id \in JobIds : id = wk[w].id
    BY <1>4
  <1>6. /\ job' \in [JobIds -> JobRec]
        /\ \A i \in JobIds \ {id} : job'[i] = job[i]
        /\ job'[id].state \in {"waiting", "failed"}
        /\ job'[id].state = "waiting" => job'[id].tries < JOB_ATTEMPTS
    <2>1. job' = [job EXCEPT ![id] = [job[id] EXCEPT !.tries = job[id].tries + 1,
                     !.state = IF job[id].tries + 1 < JOB_ATTEMPTS THEN "waiting" ELSE "failed"]]
      BY <1>5 DEF Throw
    <2>2. job[id].tries + 1 \in 0..JOB_ATTEMPTS
      BY <1>1, <1>4, <1>5, DeliveryAssumption DEF JobRec
    <2>3. CASE job[id].tries + 1 < JOB_ATTEMPTS
      <3>1. job' = [job EXCEPT ![id] = [job[id] EXCEPT !.tries = job[id].tries + 1,
                                                       !.state = "waiting"]]
        BY <2>1, <2>3
      <3> QED BY <1>1, <2>2, <2>3, <3>1 DEF JobRec
    <2>4. CASE ~(job[id].tries + 1 < JOB_ATTEMPTS)
      <3>1. job' = [job EXCEPT ![id] = [job[id] EXCEPT !.tries = job[id].tries + 1,
                                                       !.state = "failed"]]
        BY <2>1, <2>4
      <3> QED BY <1>1, <2>2, <2>4, <3>1 DEF JobRec
    <2> QED BY <2>3, <2>4
  <1>7. JobsOwned' /\ TriesLeft' /\ InLoop'
    BY <1>3, <1>5, <1>6, SlotLeaves
  <1>8. QED BY <1>3, <1>6, <1>7

-----------------------------------------------------------------------------

LogRec == [status : Statuses, attempts : 0..MAX_TOTAL_SEND_ATTEMPTS, replied : BOOLEAN]

\* Nothing sent is unsent.
MetaOnlyGrows ==
    /\ dms' \in [Pairs -> Nat] /\ \A p \in Pairs : dms'[p] >= dms[p]
    /\ replies' \in [Pairs -> Nat] /\ \A p \in Pairs : replies'[p] >= replies[p]
    /\ manual' \in [Comments -> BOOLEAN] /\ \A c \in Comments : manual[c] => manual'[c]

\* The row of slot w's pair changes at most in its status.
OnlyStatus(w, s) ==
    /\ log' \in [Pairs -> LogRec]
    /\ \A p \in Pairs : log'[p].replied = log[p].replied
    /\ \A p \in Pairs : log'[p].status = log[p].status \/ (p = Pair(w) /\ log'[p].status = s)

\* A slot inside the loop works on a pair.
LEMMA PairInLoop ==
    ASSUME IInv, NEW w \in Workers, wk[w].pos \in Campaigns
    PROVE  Pair(w) \in Pairs /\ Comment(w) \in Comments /\ Pair(w)[2] = Comment(w)
  <1>1. wk[w].id \in JobIds
    BY DEF IInv, TypeOK
  <1>2. wk[w].id[1] \in Comments
    BY <1>1 DEF JobIds
  <1>3. QED
    BY <1>2 DEF Pair, Comment, Pairs

\* What Meta took stays what the slots and the rows say it is.
LEMMA MetaUnchanged ==
    ASSUME IInv, UNCHANGED meta
    PROVE  MetaOnlyGrows /\ dms' = dms /\ replies' = replies /\ manual' = manual /\ rejects' = rejects
  BY DEF IInv, TypeOK, meta, MetaOnlyGrows

\* An answered comment stays answered.
LEMMA OwnerRepliedStays ==
    ASSUME IInv, MetaOnlyGrows, NEW c \in Comments, OwnerReplied(c)
    PROVE  OwnerReplied(c)'
  <1>1. CASE manual[c]
    BY <1>1 DEF MetaOnlyGrows, OwnerReplied
  <1>2. CASE \E p \in Pairs : p[2] = c /\ replies[p] > 0
    <2>1. PICK p \in Pairs : p[2] = c /\ replies[p] > 0
      BY <1>2
    <2>2. replies'[p] > 0
      BY <2>1 DEF MetaOnlyGrows, IInv, TypeOK
    <2> QED BY <2>1, <2>2 DEF OwnerReplied
  <1>3. QED BY <1>1, <1>2 DEF OwnerReplied

\* The slots that stand between an answer and the row keep their evidence.
LEMMA AnswersKept ==
    ASSUME IInv, NEW w \in Workers, Moves(w), MetaOnlyGrows,
           wk'[w].at = "sent" => dms'[Pair(w)'] > 0,
           wk'[w].at = "replied" => replies'[Pair(w)'] > 0
    PROVE  AnswerSeen'
  <1> SUFFICES ASSUME NEW v \in Workers
               PROVE  /\ wk'[v].at = "sent" => dms'[Pair(v)'] > 0
                      /\ wk'[v].at = "replied" => replies'[Pair(v)'] > 0
    BY DEF AnswerSeen
  <1>1. CASE v = w
    BY <1>1
  <1>2. CASE v # w
    <2>1. wk'[v] = wk[v] /\ Pair(v)' = Pair(v)
      BY <1>2 DEF Moves, Pair, Comment
    <2>2. ASSUME wk[v].at \in {"sent", "replied"} PROVE Pair(v) \in Pairs
      BY <2>2, PairInLoop DEF IInv, InLoop
    <2>3. \A p \in Pairs : dms[p] \in Nat /\ dms'[p] \in Nat /\ replies[p] \in Nat /\ replies'[p] \in Nat
      BY DEF IInv, TypeOK, MetaOnlyGrows
    <2>4. wk[v].at = "sent" => dms[Pair(v)] > 0 /\ dms'[Pair(v)] >= dms[Pair(v)]
      BY <2>2 DEF IInv, AnswerSeen, MetaOnlyGrows
    <2>5. wk[v].at = "replied" => replies[Pair(v)] > 0 /\ replies'[Pair(v)] >= replies[Pair(v)]
      BY <2>2 DEF IInv, AnswerSeen, MetaOnlyGrows
    <2> QED BY <2>1, <2>2, <2>3, <2>4, <2>5
  <1>3. QED BY <1>1, <1>2

\* The rows keep their evidence when no row becomes SENT or replied without it.
LEMMA RowsKept ==
    ASSUME IInv, MetaOnlyGrows,
           \A p \in Pairs : log'[p].status = "SENT" => log[p].status = "SENT" \/ dms[p] > 0,
           \A p \in Pairs : log'[p].replied => log[p].replied \/ OwnerReplied(p[2])
    PROVE  SentHasDm' /\ RepliedIsTrue'
  <1>1. \A p \in Pairs : dms[p] \in Nat /\ dms'[p] \in Nat
    BY DEF IInv, TypeOK, MetaOnlyGrows
  <1>2. SentHasDm'
    BY <1>1 DEF IInv, SentHasDm, MetaOnlyGrows
  <1>3. \A p \in Pairs : p[2] \in Comments
    BY DEF Pairs
  <1>4. RepliedIsTrue'
    BY <1>3, OwnerRepliedStays DEF IInv, RepliedIsTrue
  <1>5. QED BY <1>2, <1>4

\* The effect of SetStatus.
LEMMA SetStatusEffect ==
    ASSUME IInv, NEW w \in Workers, wk[w].pos \in Campaigns, NEW s \in Statuses, SetStatus(w, s)
    PROVE  OnlyStatus(w, s)
  <1>1. Pair(w) \in Pairs /\ log \in [Pairs -> LogRec]
    BY PairInLoop DEF IInv, TypeOK, LogRec
  <1>2. log' = [log EXCEPT ![Pair(w)] = [log[Pair(w)] EXCEPT !.status = s]]
    BY DEF SetStatus
  <1>3. QED
    BY <1>1, <1>2 DEF OnlyStatus, LogRec

\* A status other than SENT needs no evidence.
LEMMA StatusIsBacked ==
    ASSUME IInv, NEW w \in Workers, NEW s \in Statuses \ {"SENT"}, OnlyStatus(w, s), MetaOnlyGrows
    PROVE  SentHasDm' /\ RepliedIsTrue'
  <1>1. /\ \A p \in Pairs : log'[p].status = "SENT" => log[p].status = "SENT"
        /\ \A p \in Pairs : log'[p].replied => log[p].replied
    BY DEF OnlyStatus
  <1>2. QED BY <1>1, RowsKept

\* Neither does a row that stays as it is.
LEMMA UnchangedIsBacked ==
    ASSUME IInv, UNCHANGED log, MetaOnlyGrows
    PROVE  SentHasDm' /\ RepliedIsTrue' /\ log' \in [Pairs -> LogRec]
  <1>1. log' \in [Pairs -> LogRec]
    BY DEF IInv, TypeOK, LogRec
  <1>2. SentHasDm' /\ RepliedIsTrue'
    BY RowsKept
  <1>3. QED BY <1>1, <1>2

-----------------------------------------------------------------------------

\* The initial states.
LEMMA InitIInv == Init => IInv
  <1> SUFFICES ASSUME Init PROVE IInv
    OBVIOUS
  <1> USE DeliveryAssumption
  <1>1. Idle \in SlotRec
    BY DEF SlotRec, Idle, Steps, Statuses, JobIds, Comments
  <1>2. TypeOK
    <2>1. wk \in [Workers -> SlotRec]
      BY <1>1 DEF Init
    <2>2. job \in [JobIds -> JobRec] /\ log \in [Pairs -> LogRec]
      BY DEF Init, NoJob, NoLog, JobRec, LogRec, Statuses
    <2>3. sweep \in [left : SUBSET Campaigns, todo : SUBSET Comments]
      BY DEF Init
    <2> QED BY <2>1, <2>2, <2>3 DEF Init, TypeOK, SlotRec, JobRec, LogRec
  <1>3. JobsOwned /\ TriesLeft /\ InLoop /\ AnswerSeen
    BY DEF Init, JobsOwned, TriesLeft, InLoop, AnswerSeen, Idle, NoJob
  <1>4. Cardinality(Holding) <= used
    <2>1. Holding = {}
      BY DEF Init, Holding, Idle
    <2> QED BY <2>1, FS_EmptySet DEF Init
  <1>5. SentHasDm /\ RepliedIsTrue
    BY DEF Init, SentHasDm, RepliedIsTrue, NoLog
  <1>6. QED BY <1>2, <1>3, <1>4, <1>5 DEF IInv

\* A slot's step that goes on with its job: what is left to show of it.
LEMMA GoesOn ==
    ASSUME IInv, NEW w \in Workers, Moves(w), JobsOnlyAdded, MetaOnlyGrows,
           wk[w].at # "idle", wk'[w].at # "idle", wk'[w].id = wk[w].id,
           wk'[w].at # "read" => wk'[w].pos \in Campaigns,
           wk'[w].at = "sent" => dms'[Pair(w)'] > 0,
           wk'[w].at = "replied" => replies'[Pair(w)'] > 0,
           log' \in [Pairs -> LogRec], SentHasDm', RepliedIsTrue',
           used' \in 0..DmLimit, Cardinality(Holding') <= used',
           rejects' \in [Pairs -> 0..MaxRejects], faults' \in [Faults -> Nat],
           UNCHANGED <<sweep, age, webhooks>>
    PROVE  IInv'
  <1>1. JobsOwned' /\ TriesLeft' /\ InLoop'
    BY SlotGoesOn
  <1>2. AnswerSeen'
    BY AnswersKept
  <1>3. TypeOK'
    BY DEF IInv, TypeOK, Moves, SlotRec, JobsOnlyAdded, JobRec, LogRec, MetaOnlyGrows
  <1>4. QED BY <1>1, <1>2, <1>3 DEF IInv

\* The same of a step after which the job is over or waits for its next try.
LEMMA Leaves ==
    ASSUME IInv, NEW w \in Workers, Moves(w), wk'[w] = Idle,
           job' \in [JobIds -> JobRec], JobsOwned', TriesLeft', InLoop',
           MetaOnlyGrows,
           log' \in [Pairs -> LogRec], SentHasDm', RepliedIsTrue',
           used' \in 0..DmLimit, Cardinality(Holding') <= used',
           rejects' \in [Pairs -> 0..MaxRejects], faults' \in [Faults -> Nat],
           UNCHANGED <<sweep, age, webhooks>>
    PROVE  IInv'
  <1>1. wk'[w].at = "idle"
    BY DEF Idle
  <1>2. AnswerSeen'
    BY <1>1, AnswersKept
  <1>3. TypeOK'
    BY DEF IInv, TypeOK, Moves, SlotRec, JobRec, LogRec, MetaOnlyGrows
  <1>4. QED BY <1>2, <1>3 DEF IInv

\* A slot that held no reservation and takes none, and one that keeps its own.
LEMMA ReservationsSame ==
    ASSUME IInv, NEW w \in Workers, Moves(w), w \in Holding <=> w \in Holding', UNCHANGED used
    PROVE  used' \in 0..DmLimit /\ Cardinality(Holding') <= used'
  <1>1. wk \in [Workers -> SlotRec]
    BY DEF IInv, TypeOK, SlotRec
  <1>2. Cardinality(Holding') = Cardinality(Holding)
    BY <1>1, HoldingCount
  <1>3. QED BY <1>2 DEF IInv, TypeOK

\* A slot that gives its reservation back finds the counter above zero; one that
\* leaves it behind only makes the counter too high.
LEMMA ReservationReleased ==
    ASSUME IInv, NEW w \in Workers, Moves(w), w \in Holding, w \notin Holding',
           used' \in {used - 1, used}
    PROVE  used' \in 0..DmLimit /\ Cardinality(Holding') <= used'
  <1>1. wk \in [Workers -> SlotRec]
    BY DEF IInv, TypeOK, SlotRec
  <1>2. /\ Cardinality(Holding') = Cardinality(Holding) - 1
        /\ Cardinality(Holding) > 0 /\ Cardinality(Holding) \in Nat
    BY <1>1, HoldingCount
  <1>3. used \in 0..DmLimit /\ DmLimit \in Nat /\ Cardinality(Holding) <= used
    BY DeliveryAssumption DEF IInv, TypeOK
  <1>4. QED BY <1>2, <1>3

\* A failed send: release, FAILED, throw.
LEMMA SendFailsEffect ==
    ASSUME IInv, NEW w \in Workers, wk[w].at \in {"slot", "send", "sent"}, SendFails(w),
           MetaOnlyGrows,
           rejects' \in [Pairs -> 0..MaxRejects], faults' \in [Faults -> Nat],
           UNCHANGED <<sweep, age, webhooks>>
    PROVE  IInv'
  <1>1. /\ Moves(w) /\ wk'[w] = Idle /\ job' \in [JobIds -> JobRec]
        /\ JobsOwned' /\ TriesLeft' /\ InLoop'
    BY ThrowMoves DEF SendFails
  <1>2. w \in Holding /\ w \notin Holding'
    BY <1>1 DEF Holding, Idle
  <1>3. used' \in 0..DmLimit /\ Cardinality(Holding') <= used'
    BY <1>1, <1>2, ReservationReleased DEF SendFails
  <1>4. wk[w].pos \in Campaigns
    BY DEF IInv, InLoop
  <1>5. OnlyStatus(w, "FAILED") \/ UNCHANGED log
    BY <1>4, SetStatusEffect DEF SendFails, Statuses
  <1>6. log' \in [Pairs -> LogRec] /\ SentHasDm' /\ RepliedIsTrue'
    BY <1>5, StatusIsBacked, UnchangedIsBacked DEF OnlyStatus, Statuses
  <1>7. QED BY <1>1, <1>3, <1>6, Leaves

-----------------------------------------------------------------------------

\* An idle slot takes a job that nobody runs.
LEMMA TakeStep ==
    ASSUME IInv, NEW w \in Workers, NEW id \in JobIds, Take(w, id)
    PROVE  IInv'
  <1> USE DeliveryAssumption
  <1>1. wk \in [Workers -> SlotRec] /\ job \in [JobIds -> JobRec]
    BY DEF IInv, TypeOK, SlotRec, JobRec
  <1>2. Before(id, 1) \in SlotRec
    BY DEF Before, SlotRec, Steps, Statuses
  <1>3. Moves(w) /\ wk'[w] = Before(id, 1)
    BY <1>1, <1>2 DEF Take, Moves
  <1>4. wk'[w].at = "read" /\ wk'[w].id = id /\ wk[w].at = "idle"
    BY <1>3 DEF Before, Take, At
  <1>5. /\ job' = [job EXCEPT ![id] = [job[id] EXCEPT !.state = "active"]]
        /\ job[id].state = "waiting"
    BY DEF Take
  <1>6. /\ job' \in [JobIds -> JobRec] /\ job'[id].state = "active" /\ job'[id].tries = job[id].tries
        /\ \A i \in JobIds \ {id} : job'[i] = job[i]
    BY <1>1, <1>5 DEF JobRec
  <1>7. \A v \in Workers \ {w} : wk[v].at # "idle" => wk[v].id # id /\ wk[v].id \in JobIds
    BY <1>1, <1>5 DEF IInv, JobsOwned, SlotRec
  <1>8. JobsOwned'
    <2> SUFFICES ASSUME NEW v \in Workers, wk'[v].at # "idle"
                 PROVE  /\ job'[wk'[v].id].state = "active"
                        /\ \A u \in Workers \ {v} : wk'[u].at # "idle" => wk'[u].id # wk'[v].id
      BY DEF JobsOwned
    <2>1. CASE v = w
      BY <1>3, <1>4, <1>6, <1>7, <2>1 DEF Moves
    <2>2. CASE v # w
      <3>1. wk'[v] = wk[v] /\ wk[v].id # id /\ wk[v].id \in JobIds
        BY <1>3, <1>7, <2>2 DEF Moves
      <3>2. job'[wk[v].id].state = "active"
        BY <1>6, <3>1 DEF IInv, JobsOwned
      <3>3. \A u \in Workers \ {v} : wk'[u].at # "idle" => wk'[u].id # wk[v].id
        BY <1>3, <1>4, <3>1 DEF IInv, JobsOwned, Moves
      <3> QED BY <3>1, <3>2, <3>3
    <2> QED BY <2>1, <2>2
  <1>9. TriesLeft'
    BY <1>5, <1>6 DEF IInv, TriesLeft
  <1>10. InLoop'
    BY <1>3, <1>4 DEF IInv, InLoop, Moves
  <1>11. MetaOnlyGrows /\ UNCHANGED <<log, used, sweep, dms, replies, manual, rejects, age, webhooks, faults>>
    BY MetaUnchanged DEF Take, meta, bounds
  <1>12. AnswerSeen' /\ SentHasDm' /\ RepliedIsTrue' /\ log' \in [Pairs -> LogRec]
    BY <1>3, <1>4, <1>11, AnswersKept, UnchangedIsBacked
  <1>13. used' \in 0..DmLimit /\ Cardinality(Holding') <= used'
    BY <1>3, <1>4, <1>11, ReservationsSame DEF Holding
  <1>14. TypeOK'
    BY <1>3, <1>6, <1>11 DEF IInv, TypeOK, Moves, SlotRec, JobRec
  <1>15. QED
    BY <1>8, <1>9, <1>10, <1>12, <1>13, <1>14 DEF IInv

\* The steps of a slot that touch neither Meta nor the row nor the counter.
LEMMA LocalStep ==
    ASSUME IInv, NEW w \in Workers, Moves(w), JobsOnlyAdded,
           wk[w].at # "idle", wk'[w].id = wk[w].id,
           wk'[w].at \in {"read", "mark", "reply", "reserve"},
           wk'[w].at # "read" => wk'[w].pos \in Campaigns,
           wk[w].at \notin {"slot", "send", "sent"},
           UNCHANGED <<log, used, sweep, meta, bounds>>
    PROVE  IInv'
  <1>1. /\ MetaOnlyGrows /\ rejects' \in [Pairs -> 0..MaxRejects] /\ faults' \in [Faults -> Nat]
        /\ UNCHANGED <<age, webhooks>>
    BY MetaUnchanged DEF meta, bounds, IInv, TypeOK
  <1>2. used' \in 0..DmLimit /\ Cardinality(Holding') <= used'
    BY ReservationsSame DEF Holding
  <1>3. SentHasDm' /\ RepliedIsTrue' /\ log' \in [Pairs -> LogRec]
    BY <1>1, UnchangedIsBacked
  <1>4. QED
    BY <1>1, <1>2, <1>3, GoesOn

\* The same of a step that also changes the status of the slot's row.
LEMMA StatusStep ==
    ASSUME IInv, NEW w \in Workers, Moves(w), JobsOnlyAdded,
           wk[w].at # "idle", wk'[w].id = wk[w].id,
           wk'[w].at \in {"read", "mark", "reply", "reserve"},
           wk'[w].at # "read" => wk'[w].pos \in Campaigns,
           wk[w].at \notin {"slot", "send", "sent"},
           log' \in [Pairs -> LogRec], SentHasDm', RepliedIsTrue',
           faults' \in [Faults -> Nat],
           UNCHANGED <<used, sweep, meta, age, webhooks>>
    PROVE  IInv'
  <1>1. MetaOnlyGrows /\ rejects' \in [Pairs -> 0..MaxRejects]
    BY MetaUnchanged DEF IInv, TypeOK
  <1>2. used' \in 0..DmLimit /\ Cardinality(Holding') <= used'
    BY ReservationsSame DEF Holding
  <1>3. QED
    BY <1>1, <1>2, GoesOn

\* The public reply leg ends in the next campaign or at the reservation.
LEMMA AfterReplyMoves ==
    ASSUME IInv, NEW w \in Workers, AfterReply(w), wk[w].pos \in Campaigns
    PROVE  /\ Moves(w) /\ wk'[w].id = wk[w].id /\ wk'[w].at \in {"read", "reserve"}
           /\ wk'[w].at # "read" => wk'[w].pos \in Campaigns
  <1>1. CASE wk[w].status = "SENT"
    BY <1>1, ContinueMoves DEF AfterReply
  <1>2. CASE wk[w].status # "SENT"
    <2>1. Goto(w, "reserve") /\ "reserve" \in Steps
      BY <1>2 DEF AfterReply, Steps
    <2> QED BY <2>1, GotoMoves
  <1>3. QED BY <1>1, <1>2

\* From the row to the public reply leg, or past it.
LEMMA AfterMarkMoves ==
    ASSUME IInv, NEW w \in Workers, AfterMark(w), wk[w].pos \in Campaigns
    PROVE  /\ Moves(w) /\ wk'[w].id = wk[w].id /\ wk'[w].at \in {"read", "reply", "reserve"}
           /\ wk'[w].at # "read" => wk'[w].pos \in Campaigns
  <1>1. CASE wk[w].pos \in PublicReply /\ ~wk[w].replied
    <2>1. Goto(w, "reply") /\ "reply" \in Steps
      BY <1>1 DEF AfterMark, Steps
    <2> QED BY <2>1, GotoMoves
  <1>2. CASE ~(wk[w].pos \in PublicReply /\ ~wk[w].replied)
    BY <1>2, AfterReplyMoves DEF AfterMark
  <1>3. QED BY <1>1, <1>2

-----------------------------------------------------------------------------

\* A fault is counted.
LEMMA FaultBound ==
    ASSUME IInv, faults' = faults \/ \E f \in Faults : Fault(f)
    PROVE  faults' \in [Faults -> Nat]
  BY DeliveryAssumption DEF IInv, TypeOK, Fault

\* Reading the row, and the steps that only depend on what was read.
LEMMA ReadingSteps ==
    ASSUME IInv, NEW w \in Workers, ReadLog(w) \/ KeepSent(w) \/ ReplyRejected(w)
    PROVE  IInv'
  <1>1. /\ wk[w].pos \in Campaigns /\ wk[w].at \notin {"idle", "slot", "send", "sent"}
        /\ UNCHANGED <<job, log, used, sweep, meta, bounds>>
    BY DEF ReadLog, KeepSent, ReplyRejected, At, IInv, InLoop
  <1>2. JobsOnlyAdded
    BY <1>1, NoAddIsSafe
  <1>3. CASE ReadLog(w)
    <2>1. CASE Continue(w)
      BY <1>1, <1>2, <2>1, ContinueMoves, LocalStep
    <2>2. CASE /\ wk' = [wk EXCEPT ![w].at = "mark", ![w].status = log[Pair(w)].status,
                                   ![w].replied = log[Pair(w)].replied]
      <3>1. wk \in [Workers -> SlotRec] /\ log[Pair(w)].status \in Statuses
            /\ log[Pair(w)].replied \in BOOLEAN
        BY <1>1, PairInLoop DEF IInv, TypeOK, SlotRec
      <3>2. /\ Moves(w) /\ wk'[w].at = "mark" /\ wk'[w].id = wk[w].id
            /\ wk'[w].pos = wk[w].pos
        BY <2>2, <3>1 DEF Moves, SlotRec, Steps
      <3> QED BY <1>1, <1>2, <3>2, LocalStep
    <2> QED BY <1>3, <2>1, <2>2 DEF ReadLog
  <1>4. CASE KeepSent(w)
    BY <1>1, <1>2, <1>4, AfterMarkMoves, LocalStep DEF KeepSent
  <1>5. CASE ReplyRejected(w)
    BY <1>1, <1>2, <1>5, AfterReplyMoves, LocalStep DEF ReplyRejected
  <1>6. QED BY <1>3, <1>4, <1>5

\* The end of the loop.
LEMMA FinishStep ==
    ASSUME IInv, NEW w \in Workers, FinishJob(w)
    PROVE  IInv'
  <1>0. Idle \in SlotRec
    BY DeliveryAssumption DEF SlotRec, Idle, Steps, Statuses, JobIds, Comments
  <1>1. wk \in [Workers -> SlotRec] /\ job \in [JobIds -> JobRec]
    BY DEF IInv, TypeOK, SlotRec, JobRec
  <1>2. Moves(w) /\ wk'[w] = Idle /\ wk[w].at = "read"
    BY <1>0, <1>1 DEF FinishJob, Moves, At
  <1>3. PICK id \in JobIds : id = wk[w].id
    BY <1>1 DEF SlotRec
  <1>4. job' = [job EXCEPT ![id] = [job[id] EXCEPT !.state = "completed"]]
    BY <1>3 DEF FinishJob
  <1>5. /\ job' \in [JobIds -> JobRec] /\ job'[id].state = "completed"
        /\ \A i \in JobIds \ {id} : job'[i] = job[i]
    BY <1>1, <1>4 DEF JobRec
  <1>6. JobsOwned' /\ TriesLeft' /\ InLoop'
    BY <1>2, <1>3, <1>5, SlotLeaves
  <1>7. /\ MetaOnlyGrows /\ rejects' \in [Pairs -> 0..MaxRejects] /\ faults' \in [Faults -> Nat]
        /\ UNCHANGED <<log, used, sweep, age, webhooks>>
    BY MetaUnchanged DEF FinishJob, meta, bounds, IInv, TypeOK
  <1>8. used' \in 0..DmLimit /\ Cardinality(Holding') <= used'
    BY <1>2, <1>7, ReservationsSame DEF Holding, Idle
  <1>9. SentHasDm' /\ RepliedIsTrue' /\ log' \in [Pairs -> LogRec]
    BY <1>7, UnchangedIsBacked
  <1>10. QED
    BY <1>2, <1>5, <1>6, <1>7, <1>8, <1>9, Leaves

\* A job that throws outside the try blocks.
LEMMA ThrowStep ==
    ASSUME IInv, NEW w \in Workers, ClashOnCreate(w) \/ DatabaseFails(w)
    PROVE  IInv'
  <1>1. /\ Throw(w) /\ wk[w].at \in {"read", "mark", "reserve"}
        /\ UNCHANGED <<log, used, sweep, meta, age, webhooks>>
    BY DEF ClashOnCreate, DatabaseFails, At, bounds
  <1>2. faults' \in [Faults -> Nat]
    BY FaultBound DEF ClashOnCreate, DatabaseFails, bounds, Faults
  <1>3. /\ Moves(w) /\ wk'[w] = Idle /\ job' \in [JobIds -> JobRec]
        /\ JobsOwned' /\ TriesLeft' /\ InLoop'
    BY <1>1, ThrowMoves
  <1>4. MetaOnlyGrows /\ rejects' \in [Pairs -> 0..MaxRejects]
    BY <1>1, MetaUnchanged DEF IInv, TypeOK
  <1>5. used' \in 0..DmLimit /\ Cardinality(Holding') <= used'
    BY <1>1, <1>3, ReservationsSame DEF Holding, Idle
  <1>6. SentHasDm' /\ RepliedIsTrue' /\ log' \in [Pairs -> LogRec]
    BY <1>1, <1>4, UnchangedIsBacked
  <1>7. QED
    BY <1>1, <1>2, <1>3, <1>4, <1>5, <1>6, Leaves

\* Opening the row, and marking it as hopeless for want of a token.
LEMMA MarkSteps ==
    ASSUME IInv, NEW w \in Workers, NoToken(w) \/ CreateLog(w) \/ ReopenLog(w)
    PROVE  IInv'
  <1>1. /\ wk[w].at = "mark" /\ wk[w].pos \in Campaigns
        /\ UNCHANGED <<job, used, sweep, meta, age, webhooks>>
    BY DEF NoToken, CreateLog, ReopenLog, At, IInv, InLoop, bounds
  <1>2. JobsOnlyAdded /\ MetaOnlyGrows /\ faults' \in [Faults -> Nat]
    BY <1>1, NoAddIsSafe, MetaUnchanged, FaultBound DEF NoToken, CreateLog, ReopenLog, bounds, Faults
  <1>3. Pair(w) \in Pairs /\ log \in [Pairs -> LogRec]
    BY <1>1, PairInLoop DEF IInv, TypeOK, LogRec
  <1>4. CASE NoToken(w)
    <2>1. OnlyStatus(w, "FAILED")
      BY <1>1, <1>4, SetStatusEffect DEF NoToken, Statuses
    <2>2. log' \in [Pairs -> LogRec] /\ SentHasDm' /\ RepliedIsTrue'
      BY <1>2, <2>1, StatusIsBacked DEF OnlyStatus, Statuses
    <2>3. Moves(w) /\ wk'[w].at = "read" /\ wk'[w].id = wk[w].id
      BY <1>1, <1>4, ContinueMoves DEF NoToken
    <2> QED BY <1>1, <1>2, <2>2, <2>3, StatusStep
  <1>5. CASE CreateLog(w) \/ ReopenLog(w)
    <2>1. OnlyStatus(w, "PENDING")
      <3>1. CASE CreateLog(w)
        <4>1. log' = [log EXCEPT ![Pair(w)] =
                         [log[Pair(w)] EXCEPT !.status = "PENDING", !.attempts = 1]]
          BY <3>1 DEF CreateLog
        <4>2. log[Pair(w)] \in LogRec /\ 1 \in 0..MAX_TOTAL_SEND_ATTEMPTS /\ "PENDING" \in Statuses
          BY <1>3, DeliveryAssumption DEF Statuses
        <4>3. [log[Pair(w)] EXCEPT !.status = "PENDING", !.attempts = 1] \in LogRec
          BY <4>2 DEF LogRec
        <4>4. /\ log' \in [Pairs -> LogRec]
              /\ \A p \in Pairs \ {Pair(w)} : log'[p] = log[p]
              /\ log'[Pair(w)] = [log[Pair(w)] EXCEPT !.status = "PENDING", !.attempts = 1]
          BY <1>3, <4>1, <4>3
        <4>5. log'[Pair(w)].status = "PENDING" /\ log'[Pair(w)].replied = log[Pair(w)].replied
          BY <4>2, <4>4 DEF LogRec
        <4> QED BY <4>4, <4>5 DEF OnlyStatus
      <3>2. CASE ReopenLog(w)
        <4>0. log[Pair(w)].attempts \in 0..MAX_TOTAL_SEND_ATTEMPTS
          BY <1>3 DEF LogRec
        <4>1. PICK n \in 0..MAX_TOTAL_SEND_ATTEMPTS :
                  n = IF log[Pair(w)].attempts < MAX_TOTAL_SEND_ATTEMPTS
                      THEN log[Pair(w)].attempts + 1 ELSE log[Pair(w)].attempts
          BY <4>0, DeliveryAssumption
        <4>2. log' = [log EXCEPT ![Pair(w)] =
                         [log[Pair(w)] EXCEPT !.status = "PENDING", !.attempts = n]]
          BY <3>2, <4>1 DEF ReopenLog
        <4>3. log[Pair(w)] \in LogRec /\ "PENDING" \in Statuses
          BY <1>3 DEF Statuses
        <4>4. [log[Pair(w)] EXCEPT !.status = "PENDING", !.attempts = n] \in LogRec
          BY <4>3 DEF LogRec
        <4>5. /\ log' \in [Pairs -> LogRec]
              /\ \A p \in Pairs \ {Pair(w)} : log'[p] = log[p]
              /\ log'[Pair(w)] = [log[Pair(w)] EXCEPT !.status = "PENDING", !.attempts = n]
          BY <1>3, <4>2, <4>4
        <4>6. log'[Pair(w)].status = "PENDING" /\ log'[Pair(w)].replied = log[Pair(w)].replied
          BY <4>3, <4>5 DEF LogRec
        <4> QED BY <4>5, <4>6 DEF OnlyStatus
      <3> QED BY <1>5, <3>1, <3>2
    <2>2. log' \in [Pairs -> LogRec] /\ SentHasDm' /\ RepliedIsTrue'
      BY <1>2, <2>1, StatusIsBacked DEF OnlyStatus, Statuses
    <2>3. /\ Moves(w) /\ wk'[w].id = wk[w].id /\ wk'[w].at \in {"read", "reply", "reserve"}
          /\ wk'[w].at # "read" => wk'[w].pos \in Campaigns
      BY <1>1, <1>5, AfterMarkMoves DEF CreateLog, ReopenLog
    <2> QED BY <1>1, <1>2, <2>2, <2>3, StatusStep
  <1>6. QED BY <1>4, <1>5

-----------------------------------------------------------------------------

\* The call that posts the public reply, and the update that records it.
LEMMA ReplySteps ==
    ASSUME IInv, NEW w \in Workers, PostReply(w) \/ RecordReply(w)
    PROVE  IInv'
  <1>1. /\ wk[w].at \in {"reply", "replied"} /\ wk[w].pos \in Campaigns
        /\ UNCHANGED <<job, used, sweep, dms, manual, rejects, age, webhooks>>
    BY DEF PostReply, RecordReply, At, IInv, InLoop, meta
  <1>2. JobsOnlyAdded /\ faults' \in [Faults -> Nat] /\ rejects' \in [Pairs -> 0..MaxRejects]
    BY <1>1, NoAddIsSafe, FaultBound DEF PostReply, RecordReply, Faults, IInv, TypeOK
  <1>3. Pair(w) \in Pairs /\ Pair(w)[2] = Comment(w) /\ log \in [Pairs -> LogRec]
        /\ replies \in [Pairs -> Nat] /\ dms \in [Pairs -> Nat] /\ manual \in [Comments -> BOOLEAN]
    BY <1>1, PairInLoop DEF IInv, TypeOK, LogRec
  <1>4. CASE PostReply(w)
    <2>1. replies' = [replies EXCEPT ![Pair(w)] = replies[Pair(w)] + 1] /\ UNCHANGED log
      BY <1>4 DEF PostReply
    <2>2. MetaOnlyGrows /\ replies'[Pair(w)] > 0
      BY <1>1, <1>3, <2>1 DEF MetaOnlyGrows
    <2>3. SentHasDm' /\ RepliedIsTrue' /\ log' \in [Pairs -> LogRec]
      BY <2>1, <2>2, UnchangedIsBacked
    <2>4. /\ Moves(w) /\ wk'[w].id = wk[w].id /\ wk'[w].at \in {"read", "reserve", "replied"}
          /\ wk'[w].at # "read" => wk'[w].pos \in Campaigns
          /\ wk'[w].at = "replied" => Pair(w)' = Pair(w)
      <3>1. CASE Goto(w, "replied")
        BY <1>1, <3>1, GotoMoves DEF Steps
      <3>2. CASE AfterReply(w)
        BY <1>1, <3>2, AfterReplyMoves
      <3> QED BY <1>4, <3>1, <3>2 DEF PostReply
    <2>5. used' \in 0..DmLimit /\ Cardinality(Holding') <= used'
      BY <1>1, <2>4, ReservationsSame DEF Holding
    <2> QED BY <1>1, <1>2, <2>2, <2>3, <2>4, <2>5, GoesOn
  <1>5. CASE RecordReply(w)
    <2>1. UNCHANGED meta /\ MetaOnlyGrows
      BY <1>5, MetaUnchanged DEF RecordReply
    <2>2. log' \in [Pairs -> LogRec] /\ SentHasDm' /\ RepliedIsTrue'
      <3>1. CASE UNCHANGED log
        BY <2>1, <3>1, UnchangedIsBacked
      <3>2. CASE log' = [log EXCEPT ![Pair(w)].replied = TRUE]
        <4>1. /\ log' \in [Pairs -> LogRec]
              /\ \A p \in Pairs : log'[p].status = log[p].status
              /\ \A p \in Pairs \ {Pair(w)} : log'[p].replied = log[p].replied
          BY <1>3, <3>2 DEF LogRec
        <4>2. replies[Pair(w)] > 0
          BY <1>5 DEF RecordReply, At, IInv, AnswerSeen
        <4>3. OwnerReplied(Pair(w)[2])
          BY <1>3, <4>2 DEF OwnerReplied
        <4>4. \A p \in Pairs : log'[p].replied => log[p].replied \/ OwnerReplied(p[2])
          BY <4>1, <4>3
        <4> QED BY <2>1, <4>1, <4>4, RowsKept
      <3> QED BY <1>5, <3>1, <3>2 DEF RecordReply
    <2>3. /\ Moves(w) /\ wk'[w].id = wk[w].id /\ wk'[w].at \in {"read", "reserve"}
          /\ wk'[w].at # "read" => wk'[w].pos \in Campaigns
      BY <1>1, <1>5, AfterReplyMoves DEF RecordReply
    <2> QED BY <1>1, <1>2, <2>1, <2>2, <2>3, StatusStep
  <1>6. QED BY <1>4, <1>5

\* The reservation, or the plan's cap.
LEMMA ReserveSteps ==
    ASSUME IInv, NEW w \in Workers, ReserveUsage(w) \/ OverPlanLimit(w)
    PROVE  IInv'
  <1>1. /\ wk[w].at = "reserve" /\ wk[w].pos \in Campaigns
        /\ UNCHANGED <<job, sweep, meta, bounds>>
    BY DEF ReserveUsage, OverPlanLimit, At, IInv, InLoop
  <1>2. /\ JobsOnlyAdded /\ MetaOnlyGrows
        /\ faults' \in [Faults -> Nat] /\ rejects' \in [Pairs -> 0..MaxRejects]
        /\ UNCHANGED <<age, webhooks>>
    BY <1>1, NoAddIsSafe, MetaUnchanged DEF IInv, TypeOK, bounds
  <1>3. CASE ReserveUsage(w)
    <2>1. Moves(w) /\ wk'[w].at = "slot" /\ wk'[w].id = wk[w].id /\ wk'[w].pos = wk[w].pos
      BY <1>3, GotoMoves DEF ReserveUsage, Steps
    <2>2. SentHasDm' /\ RepliedIsTrue' /\ log' \in [Pairs -> LogRec]
      BY <1>2, <1>3, UnchangedIsBacked DEF ReserveUsage
    <2>3. used' \in 0..DmLimit /\ Cardinality(Holding') <= used'
      <3>1. wk \in [Workers -> SlotRec] /\ used \in 0..DmLimit
            /\ used' = used + 1 /\ used < DmLimit /\ Cardinality(Holding) <= used
        BY <1>3 DEF ReserveUsage, IInv, TypeOK, SlotRec
      <3>2. w \notin Holding /\ w \in Holding'
        BY <1>1, <2>1 DEF Holding
      <3>3. Cardinality(Holding') = Cardinality(Holding) + 1 /\ Cardinality(Holding) \in Nat
        BY <2>1, <3>1, <3>2, HoldingCount
      <3> QED BY <3>1, <3>3, DeliveryAssumption
    <2> QED BY <1>1, <1>2, <2>1, <2>2, <2>3, GoesOn
  <1>4. CASE OverPlanLimit(w)
    <2>1. OnlyStatus(w, "SKIPPED_PLAN_LIMIT")
      BY <1>1, <1>4, SetStatusEffect DEF OverPlanLimit, Statuses
    <2>2. log' \in [Pairs -> LogRec] /\ SentHasDm' /\ RepliedIsTrue'
      BY <1>2, <2>1, StatusIsBacked DEF OnlyStatus, Statuses
    <2>3. Moves(w) /\ wk'[w].at = "read" /\ wk'[w].id = wk[w].id /\ UNCHANGED used
      BY <1>1, <1>4, ContinueMoves DEF OverPlanLimit
    <2> QED BY <1>1, <1>2, <2>2, <2>3, StatusStep
  <1>5. QED BY <1>3, <1>4

\* The rate limiter: granted, blocked, dropped or out of reach.
LEMMA SlotSteps ==
    ASSUME IInv, NEW w \in Workers,
           \/ SlotGranted(w) \/ SlotSkipped(w) \/ SlotFails(w)
           \/ \E window \in Blocks : SlotBlocked(w, window)
    PROVE  IInv'
  <1>1. wk[w].at = "slot" /\ wk[w].pos \in Campaigns /\ UNCHANGED <<sweep, meta, age, webhooks>>
    BY DEF SlotGranted, SlotSkipped, SlotFails, SlotBlocked, At, IInv, InLoop, bounds
  <1>2. MetaOnlyGrows /\ rejects' \in [Pairs -> 0..MaxRejects]
    BY <1>1, MetaUnchanged DEF IInv, TypeOK
  <1>3. CASE SlotGranted(w)
    <2>1. Moves(w) /\ wk'[w].at = "send" /\ wk'[w].id = wk[w].id /\ wk'[w].pos = wk[w].pos
      BY <1>3, GotoMoves DEF SlotGranted, Steps
    <2>2. UNCHANGED <<job, log, used, faults>> /\ faults' \in [Faults -> Nat]
      BY <1>3 DEF SlotGranted, bounds, IInv, TypeOK
    <2>3. JobsOnlyAdded /\ SentHasDm' /\ RepliedIsTrue' /\ log' \in [Pairs -> LogRec]
      BY <1>2, <2>2, NoAddIsSafe, UnchangedIsBacked
    <2>4. used' \in 0..DmLimit /\ Cardinality(Holding') <= used'
      BY <1>1, <2>1, <2>2, ReservationsSame DEF Holding
    <2> QED BY <1>1, <1>2, <2>1, <2>2, <2>3, <2>4, GoesOn
  <1>4. CASE SlotSkipped(w) \/ \E window \in Blocks : SlotBlocked(w, window)
    <2>1. /\ used' = used - 1 /\ Continue(w) /\ faults' \in [Faults -> Nat]
          /\ SetStatus(w, "PENDING") \/ SetStatus(w, "SKIPPED_RATE_LIMIT")
      BY <1>4 DEF SlotSkipped, SlotBlocked, bounds, IInv, TypeOK
    <2>2. OnlyStatus(w, "PENDING") \/ OnlyStatus(w, "SKIPPED_RATE_LIMIT")
      BY <1>1, <2>1, SetStatusEffect DEF Statuses
    <2>3. log' \in [Pairs -> LogRec] /\ SentHasDm' /\ RepliedIsTrue'
      BY <1>2, <2>2, StatusIsBacked DEF OnlyStatus, Statuses
    <2>4. Moves(w) /\ wk'[w].at = "read" /\ wk'[w].id = wk[w].id
      BY <1>1, <2>1, ContinueMoves
    <2>5. JobsOnlyAdded
      <3>1. CASE SlotSkipped(w)
        BY <3>1, NoAddIsSafe DEF SlotSkipped
      <3>2. CASE \E window \in Blocks : SlotBlocked(w, window)
        <4>1. PICK id \in JobIds : job' = Added(id)
          BY <3>2 DEF SlotBlocked
        <4> QED BY <4>1, AddIsSafe
      <3> QED BY <1>4, <3>1, <3>2
    <2>6. used' \in 0..DmLimit /\ Cardinality(Holding') <= used'
      BY <1>1, <2>1, <2>4, ReservationReleased DEF Holding
    <2> QED BY <1>1, <1>2, <2>1, <2>3, <2>4, <2>5, <2>6, GoesOn
  <1>5. CASE SlotFails(w)
    BY <1>1, <1>2, <1>5, FaultBound, SendFailsEffect DEF SlotFails, Faults
  <1>6. QED BY <1>3, <1>4, <1>5

\* The send: rejected, taken, or taken without the worker learning of it.
LEMMA SendSteps ==
    ASSUME IInv, NEW w \in Workers, DmRejected(w) \/ SendDm(w) \/ RecordSent(w)
    PROVE  IInv'
  <1>1. /\ wk[w].at \in {"send", "sent"} /\ wk[w].pos \in Campaigns
        /\ UNCHANGED <<sweep, replies, manual, age, webhooks>>
    BY DEF DmRejected, SendDm, RecordSent, At, IInv, InLoop, meta, bounds
  <1>2. /\ Pair(w) \in Pairs /\ log \in [Pairs -> LogRec] /\ dms \in [Pairs -> Nat]
        /\ rejects \in [Pairs -> 0..MaxRejects]
        /\ replies \in [Pairs -> Nat] /\ manual \in [Comments -> BOOLEAN]
    BY <1>1, PairInLoop DEF IInv, TypeOK, LogRec
  <1>3. faults' \in [Faults -> Nat]
    BY FaultBound DEF DmRejected, SendDm, RecordSent, bounds, Faults
  <1>4. CASE DmRejected(w)
    <2>1. rejects' \in [Pairs -> 0..MaxRejects] /\ MetaOnlyGrows
      BY <1>1, <1>2, <1>4, DeliveryAssumption DEF DmRejected, MetaOnlyGrows
    <2> QED BY <1>1, <1>3, <1>4, <2>1, SendFailsEffect DEF DmRejected
  <1>5. CASE SendDm(w)
    <2>1. /\ MetaOnlyGrows /\ dms'[Pair(w)] > 0 /\ rejects' \in [Pairs -> 0..MaxRejects]
      BY <1>1, <1>2, <1>5 DEF SendDm, MetaOnlyGrows
    <2>2. CASE Goto(w, "sent") /\ UNCHANGED <<job, log, used, faults>>
      <3>1. /\ Moves(w) /\ wk'[w].at = "sent" /\ wk'[w].id = wk[w].id
            /\ wk'[w].pos = wk[w].pos /\ Pair(w)' = Pair(w)
        BY <2>2, GotoMoves DEF Steps
      <3>2. JobsOnlyAdded /\ SentHasDm' /\ RepliedIsTrue' /\ log' \in [Pairs -> LogRec]
        BY <2>1, <2>2, NoAddIsSafe, UnchangedIsBacked
      <3>3. used' \in 0..DmLimit /\ Cardinality(Holding') <= used'
        BY <1>1, <2>2, <3>1, ReservationsSame DEF Holding
      <3> QED BY <1>1, <1>3, <2>1, <3>1, <3>2, <3>3, GoesOn
    <2>3. CASE SendFails(w)
      BY <1>1, <1>3, <2>1, <2>3, SendFailsEffect
    <2> QED BY <1>5, <2>2, <2>3 DEF SendDm
  <1>6. CASE RecordSent(w)
    <2>1. UNCHANGED meta /\ MetaOnlyGrows /\ rejects' \in [Pairs -> 0..MaxRejects]
      BY <1>6, MetaUnchanged DEF RecordSent, IInv, TypeOK
    <2>2. CASE SetStatus(w, "SENT") /\ Continue(w) /\ UNCHANGED <<job, used, faults>>
      <3>1. OnlyStatus(w, "SENT") /\ dms[Pair(w)] > 0
        BY <1>1, <1>6, <2>2, SetStatusEffect DEF Statuses, RecordSent, At, IInv, AnswerSeen
      <3>2. log' \in [Pairs -> LogRec] /\ SentHasDm' /\ RepliedIsTrue'
        BY <2>1, <3>1, RowsKept DEF OnlyStatus
      <3>3. Moves(w) /\ wk'[w].at = "read" /\ wk'[w].id = wk[w].id
        BY <1>1, <2>2, ContinueMoves
      <3>4. used' \in 0..DmLimit /\ Cardinality(Holding') <= used'
        BY <1>1, <2>2, <3>3, ReservationReleased DEF Holding
      <3> QED BY <1>1, <1>3, <2>1, <2>2, <3>2, <3>3, <3>4, NoAddIsSafe, GoesOn
    <2>3. CASE SendFails(w)
      BY <1>1, <1>3, <2>1, <2>3, SendFailsEffect
    <2> QED BY <1>6, <2>2, <2>3 DEF RecordSent
  <1>7. QED BY <1>4, <1>5, <1>6

-----------------------------------------------------------------------------

\* The slots, the counter and Meta stand still: only jobs and rows are left to
\* look at.
LEMMA SlotsStill ==
    ASSUME IInv, UNCHANGED <<wk, used, dms, replies, rejects, faults>>,
           JobsOnlyAdded,
           manual' \in [Comments -> BOOLEAN], \A c \in Comments : manual[c] => manual'[c],
           log' \in [Pairs -> LogRec], SentHasDm', RepliedIsTrue',
           sweep' \in [left : SUBSET Campaigns, todo : SUBSET Comments],
           age' \in [Comments -> 0..2], webhooks' \in [Comments -> 0..MaxWebhooks]
    PROVE  IInv'
  <1>1. JobsOwned'
    BY DEF IInv, TypeOK, JobsOwned, JobsOnlyAdded
  <1>2. TriesLeft' /\ InLoop'
    BY DEF IInv, TriesLeft, InLoop, JobsOnlyAdded
  <1>3. Holding' = Holding
    BY DEF Holding
  <1>4. AnswerSeen'
    BY DEF IInv, AnswerSeen, Pair, Comment
  <1>5. TypeOK'
    BY DEF IInv, TypeOK, JobsOnlyAdded, JobRec, LogRec
  <1>6. QED BY <1>1, <1>2, <1>3, <1>4, <1>5 DEF IInv

\* The queue's own steps and the enqueuing by webhook and poller.
LEMMA QueueSteps ==
    ASSUME IInv,
           \/ \E c \in Comments : Webhook(c) \/ SweepAdd(c)
           \/ \E id \in JobIds : EvictCompleted(id) \/ EvictFailed(id)
           \/ \E w \in Workers, id \in JobIds : TakeExpired(w, id)
    PROVE  IInv'
  <1>0. /\ job \in [JobIds -> JobRec]
        /\ \A i \in JobIds : job[i].state \in {"none", "waiting", "active"} => job[i].tries < JOB_ATTEMPTS
    BY DEF IInv, TypeOK, TriesLeft, JobRec
  <1>1. /\ UNCHANGED <<wk, log, used, dms, replies, manual, rejects, age, faults>>
        /\ UNCHANGED meta
    BY DEF Webhook, SweepAdd, EvictCompleted, EvictFailed, TakeExpired, meta, bounds
  <1>2. MetaOnlyGrows
    BY <1>1, MetaUnchanged
  <1>3. SentHasDm' /\ RepliedIsTrue' /\ log' \in [Pairs -> LogRec]
    BY <1>1, <1>2, UnchangedIsBacked
  <1>4. /\ sweep' \in [left : SUBSET Campaigns, todo : SUBSET Comments]
        /\ webhooks' \in [Comments -> 0..MaxWebhooks]
    <2>1. CASE \E c \in Comments : Webhook(c)
      BY <2>1, DeliveryAssumption DEF Webhook, IInv, TypeOK
    <2>2. CASE \E c \in Comments : SweepAdd(c)
      <3>1. PICK c \in Comments : SweepAdd(c)
        BY <2>2
      <3>2. sweep \in [left : SUBSET Campaigns, todo : SUBSET Comments]
        BY DEF IInv, TypeOK
      <3>3. sweep' = [sweep EXCEPT !.todo = sweep.todo \ {c}] /\ UNCHANGED webhooks
        BY <3>1 DEF SweepAdd, bounds
      <3> QED BY <3>2, <3>3 DEF IInv, TypeOK
    <2>3. CASE UNCHANGED <<sweep, webhooks>>
      BY <2>3 DEF IInv, TypeOK
    <2> QED BY <2>1, <2>2, <2>3 DEF EvictCompleted, EvictFailed, TakeExpired, bounds
  <1>5. JobsOnlyAdded
    <2>1. CASE \E c \in Comments : Webhook(c) \/ SweepAdd(c)
      <3>1. PICK c \in Comments : job' = Added(BaseId(c))
        BY <2>1 DEF Webhook, SweepAdd
      <3>2. BaseId(c) \in JobIds
        BY DeliveryAssumption DEF BaseId, JobIds
      <3> QED BY <3>1, <3>2, AddIsSafe
    <2>2. CASE \E id \in JobIds : EvictCompleted(id) \/ EvictFailed(id)
      <3>1. PICK id \in JobIds : job' = [job EXCEPT ![id] = NoJob] /\ job[id].state # "active"
        BY <2>2 DEF EvictCompleted, EvictFailed
      <3>2. NoJob \in JobRec /\ NoJob.tries < JOB_ATTEMPTS
        BY DeliveryAssumption DEF NoJob, JobRec
      <3> QED BY <1>0, <3>1, <3>2 DEF JobsOnlyAdded
    <2>3. CASE \E w \in Workers, id \in JobIds : TakeExpired(w, id)
      <3>1. PICK id \in JobIds :
                /\ job' = [job EXCEPT ![id] = [job[id] EXCEPT !.state = "completed"]]
                /\ job[id].state # "active"
        BY <2>3 DEF TakeExpired
      <3>2. [job[id] EXCEPT !.state = "completed"] \in JobRec
            /\ [job[id] EXCEPT !.state = "completed"].state = "completed"
        BY <1>0 DEF JobRec
      <3> QED BY <1>0, <3>1, <3>2 DEF JobsOnlyAdded
    <2> QED BY <2>1, <2>2, <2>3
  <1>6. QED
    BY <1>1, <1>2, <1>3, <1>4, <1>5, SlotsStill DEF MetaOnlyGrows, IInv, TypeOK

\* The poller reads the rows and notes the replies it sees.
LEMMA SweepStep ==
    ASSUME IInv, NEW a \in Campaigns, SweepCampaign(a)
    PROVE  IInv'
  <1>1. UNCHANGED <<job, wk, used, dms, replies, manual, rejects, age, webhooks, faults>> /\ UNCHANGED meta
    BY DEF SweepCampaign, meta, bounds
  <1>2. JobsOnlyAdded /\ MetaOnlyGrows
    BY <1>1, NoAddIsSafe, MetaUnchanged
  <1>3. log \in [Pairs -> LogRec]
    BY DEF IInv, TypeOK, LogRec
  <1>4. \A p \in Pairs : \/ log'[p] = log[p]
                         \/ /\ log'[p] = [log[p] EXCEPT !.replied = TRUE]
                            /\ OwnerReplied(p[2])
    BY DEF SweepCampaign, ReplyObserved
  <1>5. log' \in [Pairs -> LogRec]
    <2>1. \A p \in Pairs : log'[p] \in LogRec
      BY <1>3, <1>4 DEF LogRec
    <2>2. PICK f \in [Pairs -> LogRec] : f = [p \in Pairs |-> log'[p]]
      BY <2>1
    <2>3. log' = [p \in Pairs |-> log'[p]]
      BY DEF SweepCampaign
    <2> QED BY <2>2, <2>3
  <1>6. /\ \A p \in Pairs : log'[p].status = log[p].status
        /\ \A p \in Pairs : log'[p].replied => log[p].replied \/ OwnerReplied(p[2])
    BY <1>3, <1>4 DEF LogRec
  <1>7. SentHasDm' /\ RepliedIsTrue'
    BY <1>2, <1>6, RowsKept
  <1>8. sweep' \in [left : SUBSET Campaigns, todo : SUBSET Comments]
    <2>1. /\ (IF sweep.left = {a} THEN Campaigns ELSE sweep.left \ {a}) \in SUBSET Campaigns
          /\ Oldest({c \in {c \in Comments : age[c] = 0} : NeedsAction(a, c)}) \in SUBSET Comments
      BY DEF IInv, TypeOK, Oldest
    <2> QED BY <2>1 DEF SweepCampaign
  <1>9. QED
    BY <1>1, <1>2, <1>5, <1>7, <1>8, SlotsStill DEF MetaOnlyGrows, IInv, TypeOK

\* A crash empties the slots and returns their jobs.
LEMMA CrashStep ==
    ASSUME IInv, Crash
    PROVE  IInv'
  <1>0. Idle \in SlotRec
    BY DeliveryAssumption DEF SlotRec, Idle, Steps, Statuses, JobIds, Comments
  <1>1. /\ UNCHANGED <<log, used, dms, replies, manual, rejects, age, webhooks>> /\ UNCHANGED meta
        /\ faults' \in [Faults -> Nat]
    BY FaultBound DEF Crash, meta, Faults
  <1>2. wk' \in [Workers -> SlotRec] /\ \A w \in Workers : wk'[w].at = "idle"
    BY <1>0 DEF Crash, Idle
  <1>3. JobsOwned' /\ InLoop' /\ AnswerSeen'
    BY <1>2 DEF JobsOwned, InLoop, AnswerSeen
  <1>4. job \in [JobIds -> JobRec]
    BY DEF IInv, TypeOK, JobRec
  <1>5. \A id \in JobIds :
            /\ job'[id] \in JobRec
            /\ job'[id].state \in {"none", "waiting", "active"} => job'[id].tries < JOB_ATTEMPTS
    <2> SUFFICES ASSUME NEW id \in JobIds
                 PROVE  /\ job'[id] \in JobRec
                        /\ job'[id].state \in {"none", "waiting", "active"} => job'[id].tries < JOB_ATTEMPTS
      OBVIOUS
    <2>1. CASE job[id].state # "active"
      <3>1. job'[id] = job[id]
        BY <2>1 DEF Crash
      <3> QED BY <1>4, <3>1 DEF IInv, TriesLeft
    <2>2. CASE job[id].state = "active" /\ job[id].stalls = 0
      <3>1. job'[id] = [job[id] EXCEPT !.state = "waiting", !.stalls = 1]
        BY <2>2 DEF Crash, Stalled
      <3>2. job[id] \in JobRec /\ job[id].tries < JOB_ATTEMPTS
        BY <1>4, <2>2 DEF IInv, TriesLeft
      <3>3. 1 \in 0..1
        OBVIOUS
      <3>4. job'[id] \in JobRec
        BY <3>1, <3>2, <3>3 DEF JobRec
      <3>5. job'[id].tries = job[id].tries
        BY <3>1, <3>2 DEF JobRec
      <3> QED BY <3>2, <3>4, <3>5
    <2>3. CASE job[id].state = "active" /\ job[id].stalls # 0
      <3>1. job'[id] = [job[id] EXCEPT !.state = "failed"]
        BY <2>3 DEF Crash, Stalled
      <3>2. job[id] \in JobRec
        BY <1>4
      <3> QED BY <3>1, <3>2 DEF JobRec
    <2> QED BY <2>1, <2>2, <2>3
  <1>6. job' \in [JobIds -> JobRec]
    <2>1. job' = [id \in JobIds |-> job'[id]]
      BY DEF Crash
    <2> QED BY <1>5, <2>1
  <1>7. TriesLeft'
    BY <1>5 DEF TriesLeft
  <1>8. MetaOnlyGrows
    BY <1>1, MetaUnchanged
  <1>9. SentHasDm' /\ RepliedIsTrue'
    BY <1>1, <1>8, UnchangedIsBacked
  <1>10. Cardinality(Holding') <= used'
    <2>1. Holding' = {}
      BY <1>2 DEF Holding
    <2> QED BY <1>1, <2>1, FS_EmptySet DEF IInv, TypeOK
  <1>11. sweep' \in [left : SUBSET Campaigns, todo : SUBSET Comments]
    BY DEF Crash
  <1>12. TypeOK'
    BY <1>1, <1>2, <1>6, <1>11 DEF IInv, TypeOK, SlotRec, JobRec
  <1>13. QED
    BY <1>3, <1>7, <1>9, <1>10, <1>12 DEF IInv

\* Time, and the owner's own replies.
LEMMA OutsideSteps ==
    ASSUME IInv, NEW c \in Comments, Aging(c) \/ ManualReply(c)
    PROVE  IInv'
  <1>1. /\ UNCHANGED <<job, wk, log, used, sweep, dms, replies, rejects, webhooks, faults>>
        /\ age' \in [Comments -> 0..2]
        /\ manual' \in [Comments -> BOOLEAN] /\ \A d \in Comments : manual[d] => manual'[d]
    <2>1. CASE Aging(c)
      <3>1. /\ age' = [age EXCEPT ![c] = age[c] + 1] /\ age[c] < 2
            /\ UNCHANGED <<job, wk, log, used, sweep, meta, webhooks, faults>>
        BY <2>1 DEF Aging
      <3> QED BY <3>1 DEF meta, IInv, TypeOK
    <2>2. CASE ManualReply(c)
      <3>1. /\ manual' = [manual EXCEPT ![c] = TRUE]
            /\ UNCHANGED <<job, wk, log, used, sweep, dms, replies, rejects, bounds>>
        BY <2>2 DEF ManualReply
      <3> QED BY <3>1 DEF bounds, IInv, TypeOK
    <2> QED BY <2>1, <2>2
  <1>2. JobsOnlyAdded /\ MetaOnlyGrows
    BY <1>1, NoAddIsSafe DEF MetaOnlyGrows, IInv, TypeOK
  <1>3. SentHasDm' /\ RepliedIsTrue' /\ log' \in [Pairs -> LogRec]
    BY <1>1, <1>2, UnchangedIsBacked
  <1>4. QED
    BY <1>1, <1>2, <1>3, SlotsStill DEF IInv, TypeOK

\* The inductive step.
LEMMA NextIInv == IInv /\ [Next]_vars => IInv'
  <1> SUFFICES ASSUME IInv, [Next]_vars PROVE IInv'
    OBVIOUS
  <1>1. ASSUME NEW w \in Workers, Campaign(w) PROVE IInv'
    BY <1>1, ReadingSteps, FinishStep, ThrowStep, MarkSteps, ReplySteps, ReserveSteps,
       SlotSteps, SendSteps DEF Campaign
  <1>2. ASSUME NEW id \in JobIds, Start(id) PROVE IInv'
    BY <1>2, TakeStep, QueueSteps DEF Start
  <1>3. ASSUME NEW id \in JobIds, EvictCompleted(id) \/ EvictFailed(id) PROVE IInv'
    BY <1>3, QueueSteps
  <1>4. CASE Poll
    BY <1>4, SweepStep, QueueSteps DEF Poll
  <1>5. CASE Crash
    BY <1>5, CrashStep
  <1>6. ASSUME NEW c \in Comments, Webhook(c) \/ Aging(c) \/ ManualReply(c) PROVE IInv'
    BY <1>6, QueueSteps, OutsideSteps
  <1>7. CASE UNCHANGED vars
    <2>1. UNCHANGED <<job, wk, log, used, sweep, dms, replies, manual, rejects, age, webhooks, faults>>
          /\ UNCHANGED meta
      BY <1>7 DEF vars, meta, bounds
    <2>2. JobsOnlyAdded /\ MetaOnlyGrows
      BY <2>1, NoAddIsSafe, MetaUnchanged
    <2> QED BY <2>1, <2>2, UnchangedIsBacked, SlotsStill DEF MetaOnlyGrows, IInv, TypeOK
  <1>8. QED
    BY <1>1, <1>2, <1>3, <1>4, <1>5, <1>6, <1>7 DEF Next

\* The inductive invariant holds in every reachable state.
LEMMA Invariance == Spec => []IInv
  <1>1. QED BY InitIInv, NextIInv, PTL DEF Spec

-----------------------------------------------------------------------------

\* Type correctness; in particular the counter never leaves 0..DmLimit, however
\* often a crash or a failing call interrupts a reservation.
THEOREM TypeCorrect == Spec => []TypeOK
  <1>1. IInv => TypeOK
    BY DEF IInv
  <1>2. QED BY <1>1, Invariance, PTL

\* DmLog says SENT only of a message Meta took.
THEOREM SentIsBacked == Spec => []SentHasDm
  <1>1. IInv => SentHasDm
    BY DEF IInv
  <1>2. QED BY <1>1, Invariance, PTL

\* publicReplySentAt stands only below a comment the account did answer.
THEOREM RepliesAreTrue == Spec => []RepliedIsTrue
  <1>1. IInv => RepliedIsTrue
    BY DEF IInv
  <1>2. QED BY <1>1, Invariance, PTL

-----------------------------------------------------------------------------
(* What the month's counter is worth: with no fault between Meta and the   *)
(* row it is exactly what was delivered and is about to be; whatever       *)
(* fails, it misses at most the messages whose answer or whose SENT update *)
(* was lost.                                                               *)

\* The slots with a reservation whose message has not gone out.
Reserving == {w \in Workers : wk[w].at \in {"slot", "send"}}

\* What a step does to the messages delivered, the reservations, the counter and
\* the effects the worker forgot.
Quiet    == /\ Delivered' = Delivered /\ Reserved' = Reserved /\ used' = used
            /\ Forgotten' \in Nat /\ Forgotten' >= Forgotten
Takes    == /\ Delivered' = Delivered /\ Reserved' = Reserved + 1 /\ used' = used + 1
            /\ Forgotten' = Forgotten
Returns  == /\ Delivered' = Delivered /\ Reserved' = Reserved - 1 /\ Forgotten' = Forgotten
            /\ used' = used - 1 \/ ("cleanup" \in Events /\ used' = used)
GoesOut  == /\ Delivered' = Delivered + 1 /\ Reserved' = Reserved - 1 /\ used' = used
            /\ Forgotten' = Forgotten
Loses    == /\ {"timeout", "writeFails"} \cap Events # {}
            /\ \/ Delivered' = Delivered + 1 /\ Reserved' = Reserved - 1
               \/ Delivered' = Delivered /\ Reserved' = Reserved
            /\ used' \in {used - 1, used}
            /\ Forgotten' = Forgotten + 1
Dies     == /\ "crash" \in Events
            /\ Delivered' = Delivered /\ Reserved' = 0 /\ used' = used
            /\ Forgotten' = Forgotten

UsageShape == Quiet \/ Takes \/ Returns \/ GoesOut \/ Loses \/ Dies

-----------------------------------------------------------------------------

\* The reservations before and after a step of one slot.
LEMMA ReservedCount ==
    ASSUME IInv, NEW w \in Workers, Moves(w)
    PROVE  /\ Reserved \in Nat
           /\ (w \in Reserving <=> w \in Reserving') => Reserved' = Reserved
           /\ w \notin Reserving /\ w \in Reserving' => Reserved' = Reserved + 1
           /\ w \in Reserving /\ w \notin Reserving' => Reserved' = Reserved - 1
  <1>1. IsFiniteSet(Reserving) /\ Cardinality(Reserving) \in Nat
    BY DeliveryAssumption, FS_Subset, FS_CardinalityType DEF Reserving
  <1>2. /\ \A v \in Workers \ {w} : v \in Reserving <=> v \in Reserving'
        /\ Reserving \subseteq Workers /\ Reserving' \subseteq Workers
    BY DEF Moves, Reserving
  <1>3. Reserved = Cardinality(Reserving) /\ Reserved' = Cardinality(Reserving')
    BY DEF Reserved, Reserving
  <1>4. CASE w \in Reserving <=> w \in Reserving'
    <2>1. Reserving' = Reserving
      BY <1>2, <1>4
    <2> QED BY <1>1, <1>3, <1>4, <2>1
  <1>5. CASE w \notin Reserving /\ w \in Reserving'
    <2>1. Reserving' = Reserving \cup {w}
      BY <1>2, <1>5
    <2>2. Cardinality(Reserving') = Cardinality(Reserving) + 1
      BY <1>1, <1>5, <2>1, FS_AddElement
    <2> QED BY <1>1, <1>3, <1>5, <2>2
  <1>6. CASE w \in Reserving /\ w \notin Reserving'
    <2>1. Reserving' = Reserving \ {w}
      BY <1>2, <1>6
    <2>2. Cardinality(Reserving') = Cardinality(Reserving) - 1
      BY <1>1, <1>6, <2>1, FS_RemoveElement
    <2> QED BY <1>1, <1>3, <1>6, <2>2
  <1>7. QED BY <1>4, <1>5, <1>6

\* The pairs are finitely many.
LEMMA PairsFinite == IsFiniteSet(Pairs)
  <1>1. NumComments \in Int /\ NumCampaigns \in Int
    BY DeliveryAssumption
  <1>2. IsFiniteSet(Campaigns) /\ IsFiniteSet(Comments)
    BY <1>1, FS_Interval DEF Campaigns, Comments
  <1>3. QED BY <1>2, FS_Product DEF Pairs

\* The messages delivered are a sum over the pairs, now and in the next state.
LEMMA DeliveredIsSum == Delivered = SumOver(dms, Pairs) /\ Delivered' = SumOver(dms', Pairs)
  BY DEF Delivered, SumOver, MapThenSumSet, MapThenFoldSet

\* One more message is one more delivered.
LEMMA DeliveredCount ==
    ASSUME IInv
    PROVE  /\ Delivered \in Nat
           /\ UNCHANGED dms => Delivered' = Delivered
           /\ \A p \in Pairs : dms' = [dms EXCEPT ![p] = @ + 1] => Delivered' = Delivered + 1
  <1>1. dms \in [Pairs -> Nat]
    BY DEF IInv, TypeOK
  <1>2. Delivered \in Nat
    BY <1>1, PairsFinite, DeliveredIsSum, SumIsNat
  <1>3. ASSUME NEW p \in Pairs, dms' = [dms EXCEPT ![p] = @ + 1]
        PROVE  Delivered' = Delivered + 1
    BY <1>1, <1>3, PairsFinite, DeliveredIsSum, SumGrows
  <1>4. UNCHANGED dms => Delivered' = Delivered
    BY DeliveredIsSum
  <1>5. QED BY <1>2, <1>3, <1>4

-----------------------------------------------------------------------------
(* The shape of every step                                                 *)

\* A failed send gives the reservation back, or fails to.
LEMMA SendFailsReleases ==
    ASSUME IInv, NEW w \in Workers, wk[w].at \in {"slot", "send", "sent"}, SendFails(w)
    PROVE  /\ Moves(w) /\ w \notin Reserving'
           /\ used' = used - 1 \/ ("cleanup" \in Events /\ used' = used)
  <1>1. Moves(w) /\ wk'[w] = Idle
    BY ThrowMoves DEF SendFails
  <1>2. w \notin Reserving'
    BY <1>1 DEF Reserving, Idle
  <1>3. QED BY <1>1, <1>2 DEF SendFails

\* Only a fault of its own kind makes a count of faults grow.
LEMMA ForgottenCount ==
    ASSUME IInv
    PROVE  /\ Forgotten \in Nat
           /\ UNCHANGED faults => Forgotten' = Forgotten
           /\ \A f \in Faults \ {"timeout", "writeFails"} : Fault(f) => Forgotten' = Forgotten
           /\ \A f \in {"timeout", "writeFails"} : Fault(f) => f \in Events /\ Forgotten' = Forgotten + 1
  <1>1. faults \in [Faults -> Nat] /\ "timeout" \in Faults /\ "writeFails" \in Faults
    BY DEF IInv, TypeOK, Faults
  <1>2. QED BY <1>1 DEF Fault, Forgotten

\* A step of a slot that leaves the messages, the counter and its own
\* reservation alone.
LEMMA QuietStep ==
    ASSUME IInv, NEW w \in Workers, Moves(w), w \in Reserving <=> w \in Reserving',
           UNCHANGED <<used, dms>>, faults' = faults \/ \E f \in Faults : Fault(f)
    PROVE  Quiet
  <1>1. Delivered' = Delivered /\ Reserved' = Reserved
    BY DeliveredCount, ReservedCount
  <1>2. Forgotten' \in Nat /\ Forgotten' >= Forgotten
    BY ForgottenCount
  <1>3. QED BY <1>1, <1>2 DEF Quiet

\* Up to the reservation a slot neither has one nor takes one.
LEMMA EarlySteps ==
    ASSUME IInv, NEW w \in Workers,
           \/ ReadLog(w) \/ NoToken(w) \/ CreateLog(w) \/ ReopenLog(w) \/ KeepSent(w)
           \/ PostReply(w) \/ ReplyRejected(w) \/ RecordReply(w)
           \/ OverPlanLimit(w) \/ ClashOnCreate(w) \/ DatabaseFails(w) \/ FinishJob(w)
    PROVE  Quiet
  <1>1. /\ wk[w].at \notin {"idle", "slot", "send", "sent"}
        /\ UNCHANGED <<used, dms>>
        /\ faults' = faults \/ \E f \in Faults : Fault(f)
    BY DEF ReadLog, NoToken, CreateLog, ReopenLog, KeepSent, PostReply, ReplyRejected, RecordReply,
           OverPlanLimit, ClashOnCreate, DatabaseFails, FinishJob, At, meta, bounds, Faults
  <1>2. Moves(w) /\ wk'[w].at \in {"read", "mark", "reply", "replied", "reserve", "idle"}
    <2>1. CASE ReadLog(w)
      <3>1. wk[w].pos \in Campaigns
        BY <2>1 DEF ReadLog
      <3>2. CASE Continue(w)
        BY <3>1, <3>2, ContinueMoves
      <3>3. CASE wk' = [wk EXCEPT ![w].at = "mark", ![w].status = log[Pair(w)].status,
                                  ![w].replied = log[Pair(w)].replied]
        <4>1. wk \in [Workers -> SlotRec] /\ log[Pair(w)].status \in Statuses
              /\ log[Pair(w)].replied \in BOOLEAN
          BY <3>1, PairInLoop DEF IInv, TypeOK, SlotRec
        <4> QED BY <3>3, <4>1 DEF Moves, SlotRec, Steps
      <3> QED BY <2>1, <3>2, <3>3 DEF ReadLog
    <2>2. CASE CreateLog(w) \/ ReopenLog(w) \/ KeepSent(w)
      <3>1. AfterMark(w) /\ wk[w].pos \in Campaigns
        BY <2>2 DEF CreateLog, ReopenLog, KeepSent, At, IInv, InLoop
      <3> QED BY <3>1, AfterMarkMoves
    <2>3. CASE PostReply(w) \/ ReplyRejected(w) \/ RecordReply(w)
      <3>1. wk[w].pos \in Campaigns /\ (AfterReply(w) \/ Goto(w, "replied")) /\ "replied" \in Steps
        BY <2>3 DEF PostReply, ReplyRejected, RecordReply, At, IInv, InLoop, Steps
      <3> QED BY <3>1, AfterReplyMoves, GotoMoves
    <2>4. CASE NoToken(w) \/ OverPlanLimit(w)
      <3>1. Continue(w) /\ wk[w].pos \in Campaigns
        BY <2>4 DEF NoToken, OverPlanLimit, At, IInv, InLoop
      <3> QED BY <3>1, ContinueMoves
    <2>5. CASE ClashOnCreate(w) \/ DatabaseFails(w)
      BY <1>1, <2>5, ThrowMoves DEF ClashOnCreate, DatabaseFails, Idle
    <2>6. CASE FinishJob(w)
      <3>1. Idle \in SlotRec
        BY DeliveryAssumption DEF SlotRec, Idle, Steps, Statuses, JobIds, Comments
      <3>2. wk \in [Workers -> SlotRec]
        BY DEF IInv, TypeOK, SlotRec
      <3>3. wk' = [wk EXCEPT ![w] = Idle]
        BY <2>6 DEF FinishJob
      <3> QED BY <3>1, <3>2, <3>3 DEF Moves, Idle
    <2> QED BY <2>1, <2>2, <2>3, <2>4, <2>5, <2>6
  <1>3. QED BY <1>1, <1>2, QuietStep DEF Reserving

\* The reservation, the limiter and the send.
LEMMA LateSteps ==
    ASSUME IInv, NEW w \in Workers,
           \/ ReserveUsage(w) \/ SlotGranted(w) \/ SlotSkipped(w) \/ SlotFails(w)
           \/ \E window \in Blocks : SlotBlocked(w, window)
           \/ DmRejected(w) \/ SendDm(w) \/ RecordSent(w)
    PROVE  UsageShape
  <1>1. wk[w].pos \in Campaigns /\ Pair(w) \in Pairs
    BY PairInLoop DEF ReserveUsage, SlotGranted, SlotSkipped, SlotFails, SlotBlocked, DmRejected,
                      SendDm, RecordSent, At, IInv, InLoop
  <1>2. CASE ReserveUsage(w)
    <2>1. /\ used' = used + 1 /\ UNCHANGED <<dms, faults>> /\ w \notin Reserving
          /\ Goto(w, "slot") /\ "slot" \in Steps
      BY <1>2 DEF ReserveUsage, At, meta, bounds, Reserving, Steps
    <2>2. Moves(w) /\ w \in Reserving'
      BY <2>1, GotoMoves DEF Reserving
    <2>3. Takes
      BY <2>1, <2>2, DeliveredCount, ReservedCount, ForgottenCount DEF Takes
    <2> QED BY <2>3 DEF UsageShape
  <1>3. CASE SlotGranted(w)
    <2>1. /\ UNCHANGED <<used, dms, faults>> /\ w \in Reserving /\ Goto(w, "send") /\ "send" \in Steps
      BY <1>3 DEF SlotGranted, At, meta, bounds, Reserving, Steps
    <2>2. Moves(w) /\ w \in Reserving'
      BY <2>1, GotoMoves DEF Reserving
    <2> QED BY <2>1, <2>2, QuietStep DEF UsageShape
  <1>4. CASE SlotSkipped(w) \/ \E window \in Blocks : SlotBlocked(w, window)
    <2>1. /\ used' = used - 1 /\ UNCHANGED <<dms, faults>> /\ w \in Reserving /\ Continue(w)
      BY <1>4 DEF SlotSkipped, SlotBlocked, At, meta, bounds, Reserving
    <2>2. Moves(w) /\ w \notin Reserving'
      BY <1>1, <2>1, ContinueMoves DEF Reserving
    <2>3. Returns
      BY <2>1, <2>2, DeliveredCount, ReservedCount, ForgottenCount DEF Returns
    <2> QED BY <2>3 DEF UsageShape
  <1>5. CASE SlotFails(w) \/ DmRejected(w)
    <2>1. /\ SendFails(w) /\ w \in Reserving /\ wk[w].at \in {"slot", "send", "sent"} /\ UNCHANGED dms
          /\ UNCHANGED faults \/ Fault("redis")
      BY <1>5 DEF SlotFails, DmRejected, At, Reserving, meta, bounds
    <2>2. Forgotten' = Forgotten
      BY <2>1, ForgottenCount DEF Faults
    <2>3. Returns
      BY <2>1, <2>2, DeliveredCount, ReservedCount, SendFailsReleases DEF Returns
    <2> QED BY <2>3 DEF UsageShape
  <1>6. CASE SendDm(w)
    <2>1. /\ w \in Reserving /\ wk[w].at \in {"slot", "send", "sent"}
          /\ dms' = [dms EXCEPT ![Pair(w)] = @ + 1]
      BY <1>6 DEF SendDm, At, Reserving
    <2>2. Delivered' = Delivered + 1
      BY <1>1, <2>1, DeliveredCount
    <2>3. CASE Goto(w, "sent") /\ UNCHANGED <<job, log, used, faults>>
      <3>1. Moves(w) /\ w \notin Reserving'
        BY <2>3, GotoMoves DEF Reserving, Steps
      <3>2. GoesOut
        BY <2>1, <2>2, <2>3, <3>1, ReservedCount, ForgottenCount DEF GoesOut
      <3> QED BY <3>2 DEF UsageShape
    <2>4. CASE Fault("timeout") /\ SendFails(w)
      <3>1. Moves(w) /\ w \notin Reserving' /\ used' \in {used - 1, used}
        BY <2>1, <2>4, SendFailsReleases
      <3>2. "timeout" \in Events /\ Forgotten' = Forgotten + 1
        BY <2>4, ForgottenCount
      <3>3. Loses
        BY <2>1, <2>2, <3>1, <3>2, ReservedCount DEF Loses
      <3> QED BY <3>3 DEF UsageShape
    <2> QED BY <1>6, <2>3, <2>4 DEF SendDm
  <1>7. CASE RecordSent(w)
    <2>1. /\ w \notin Reserving /\ wk[w].at \in {"slot", "send", "sent"} /\ UNCHANGED dms
      BY <1>7 DEF RecordSent, At, Reserving, meta
    <2>2. CASE Continue(w) /\ UNCHANGED <<job, used, faults>>
      <3>1. Moves(w) /\ w \notin Reserving'
        BY <1>1, <2>2, ContinueMoves DEF Reserving
      <3> QED BY <2>1, <2>2, <3>1, QuietStep DEF UsageShape
    <2>3. CASE Fault("writeFails") /\ SendFails(w)
      <3>1. Moves(w) /\ w \notin Reserving' /\ used' \in {used - 1, used}
        BY <2>1, <2>3, SendFailsReleases
      <3>2. "writeFails" \in Events /\ Forgotten' = Forgotten + 1
        BY <2>3, ForgottenCount
      <3>3. Loses
        BY <2>1, <3>1, <3>2, ReservedCount, DeliveredCount DEF Loses
      <3> QED BY <3>3 DEF UsageShape
    <2> QED BY <1>7, <2>2, <2>3 DEF RecordSent
  <1>8. QED BY <1>2, <1>3, <1>4, <1>5, <1>6, <1>7

\* Everything else leaves the slots, the counter and Meta alone, but for an idle
\* slot that takes a job and the crash.
LEMMA StepShape ==
    ASSUME IInv, [Next]_vars
    PROVE  UsageShape
  <1>1. ASSUME NEW w \in Workers, Campaign(w) PROVE UsageShape
    BY <1>1, EarlySteps, LateSteps DEF Campaign, UsageShape
  <1>2. ASSUME NEW w \in Workers, NEW id \in JobIds, Take(w, id) PROVE UsageShape
    <2>1. /\ wk' = [wk EXCEPT ![w] = Before(id, 1)] /\ wk[w].at = "idle"
          /\ UNCHANGED <<used, dms, faults>>
      BY <1>2 DEF Take, At, meta, bounds
    <2>2. wk \in [Workers -> SlotRec] /\ Before(id, 1) \in SlotRec
      BY DeliveryAssumption DEF IInv, TypeOK, SlotRec, Before, Steps, Statuses
    <2>3. Moves(w) /\ w \notin Reserving /\ w \notin Reserving'
      BY <2>1, <2>2 DEF Moves, Reserving, Before
    <2> QED BY <2>1, <2>3, QuietStep DEF UsageShape
  <1>3. ASSUME UNCHANGED <<wk, used, dms, faults>> PROVE UsageShape
    <2>1. Reserved' = Reserved
      BY <1>3 DEF Reserved
    <2> QED BY <1>3, <2>1, DeliveredCount, ForgottenCount DEF UsageShape, Quiet
  <1>4. CASE Crash
    <2>1. /\ \A w \in Workers : wk'[w].at = "idle"
          /\ UNCHANGED <<used, dms>> /\ Fault("crash")
      BY <1>4 DEF Crash, meta, Idle
    <2>2. Reserved' = 0
      <3>1. {w \in Workers : wk'[w].at \in {"slot", "send"}} = {}
        BY <2>1
      <3> QED BY <3>1, FS_EmptySet DEF Reserved
    <2>3. Forgotten' = Forgotten /\ "crash" \in Events
      BY <2>1, ForgottenCount DEF Faults, Fault
    <2> QED BY <2>1, <2>2, <2>3, DeliveredCount DEF UsageShape, Dies
  <1>5. ASSUME NEW w \in Workers, NEW id \in JobIds, TakeExpired(w, id) PROVE UsageShape
    BY <1>3, <1>5 DEF TakeExpired, meta, bounds
  <1>6. ASSUME NEW id \in JobIds, EvictCompleted(id) \/ EvictFailed(id) PROVE UsageShape
    BY <1>3, <1>6 DEF EvictCompleted, EvictFailed, meta, bounds
  <1>7. CASE Poll
    BY <1>3, <1>7 DEF Poll, SweepCampaign, SweepAdd, meta, bounds
  <1>8. ASSUME NEW c \in Comments, Webhook(c) \/ Aging(c) \/ ManualReply(c) PROVE UsageShape
    BY <1>3, <1>8 DEF Webhook, Aging, ManualReply, meta, bounds
  <1>9. CASE UNCHANGED vars
    BY <1>3, <1>9 DEF vars, meta, bounds
  <1>10. QED
    BY <1>1, <1>2, <1>4, <1>5, <1>6, <1>7, <1>8, <1>9 DEF Next, Start

\* The types of what the two invariants compare.
LEMMA Counted ==
    ASSUME IInv
    PROVE  Delivered \in Nat /\ Reserved \in Nat /\ used \in Nat /\ Forgotten \in Nat
  <1>1. Reserved \in Nat
    <2>1. IsFiniteSet({w \in Workers : wk[w].at \in {"slot", "send"}})
      BY DeliveryAssumption, FS_Subset
    <2> QED BY <2>1, FS_CardinalityType DEF Reserved
  <1>2. used \in Nat
    BY DeliveryAssumption DEF IInv, TypeOK
  <1>3. QED BY <1>1, <1>2, DeliveredCount, ForgottenCount

\* Nothing is delivered, reserved or forgotten in the beginning.
LEMMA InitCounts ==
    ASSUME Init
    PROVE  Delivered = 0 /\ Reserved = 0 /\ used = 0 /\ Forgotten = 0
  <1>1. Delivered = 0
    <2>1. \A p \in Pairs : dms[p] = 0
      BY DEF Init
    <2> QED BY <2>1, PairsFinite, DeliveredIsSum, SumOfZeros
  <1>2. Reserved = 0
    <2>1. {w \in Workers : wk[w].at \in {"slot", "send"}} = {}
      BY DEF Init, Idle
    <2> QED BY <2>1, FS_EmptySet DEF Reserved
  <1>3. QED BY <1>1, <1>2 DEF Init, Forgotten, Faults

-----------------------------------------------------------------------------

\* Whatever crashes, fails or runs twice, the month's counter misses at most the
\* messages whose answer or whose SENT update was lost.
THEOREM UsageCoversDeliveries == Spec => []NoUnchargedDm
  <1>1. Init => NoUnchargedDm
    BY InitCounts DEF NoUnchargedDm
  <1>2. IInv /\ NoUnchargedDm /\ [Next]_vars => NoUnchargedDm'
    <2> SUFFICES ASSUME IInv, NoUnchargedDm, [Next]_vars PROVE NoUnchargedDm'
      OBVIOUS
    <2>1. UsageShape
      BY StepShape
    <2>2. /\ Delivered \in Nat /\ Reserved \in Nat /\ used \in Nat /\ Forgotten \in Nat
          /\ Delivered + Reserved <= used + Forgotten
      BY Counted DEF NoUnchargedDm
    <2>3. Delivered' + Reserved' <= used' + Forgotten'
      <3>1. CASE Quiet
        <4>1. \A d, r, u, f, g \in Nat : d + r <= u + f /\ g >= f => d + r <= u + g
          OBVIOUS
        <4>2. Delivered + Reserved <= used + Forgotten'
          BY <2>2, <3>1, <4>1 DEF Quiet
        <4> QED BY <3>1, <4>2 DEF Quiet
      <3>2. CASE Takes \/ Returns \/ GoesOut
        BY <2>2, <3>2 DEF Takes, Returns, GoesOut
      <3>3. CASE Loses \/ Dies
        BY <2>2, <3>3 DEF Loses, Dies
      <3> QED BY <2>1, <3>1, <3>2, <3>3 DEF UsageShape
    <2> QED BY <2>3 DEF NoUnchargedDm
  <1>3. QED BY <1>1, <1>2, Invariance, PTL DEF Spec

\* Where no crash, no timeout and no failing write or cleanup comes between a call
\* to Meta and the database, the month's counter is exactly what was delivered and
\* what is about to be, under every other fault and every interleaving.
THEOREM UsageIsExact ==
    Events \cap {"crash", "timeout", "writeFails", "cleanup"} = {}
        => (Spec => []UsageMatchesDeliveries)
  <1> SUFFICES ASSUME Events \cap {"crash", "timeout", "writeFails", "cleanup"} = {}
               PROVE  Spec => []UsageMatchesDeliveries
    OBVIOUS
  <1>1. Init => UsageMatchesDeliveries
    BY InitCounts DEF UsageMatchesDeliveries
  <1>2. IInv /\ UsageMatchesDeliveries /\ [Next]_vars => UsageMatchesDeliveries'
    <2> SUFFICES ASSUME IInv, UsageMatchesDeliveries, [Next]_vars PROVE UsageMatchesDeliveries'
      OBVIOUS
    <2>1. Quiet \/ Takes \/ Returns \/ GoesOut
      BY StepShape DEF UsageShape, Loses, Dies
    <2>2. "cleanup" \notin Events
      OBVIOUS
    <2>3. /\ Delivered \in Nat /\ Reserved \in Nat /\ used \in Nat
          /\ used = Delivered + Reserved
      BY Counted DEF UsageMatchesDeliveries
    <2>4. used' = Delivered' + Reserved'
      BY <2>1, <2>2, <2>3 DEF Quiet, Takes, Returns, GoesOut
    <2> QED BY <2>4 DEF UsageMatchesDeliveries
  <1>3. QED BY <1>1, <1>2, Invariance, PTL DEF Spec

=============================================================================
