-------------------------- MODULE CommentLinesProofs --------------------------
(***************************************************************************)
(* Why one comment is not answered twice.  A comment starts with one line  *)
(* of work, its base job; a job that is blocked ends its own line when it  *)
(* starts that of its _retry_ job.  For one campaign, and as long as       *)
(* BullMQ remembers its completed jobs, the lines that may still send a    *)
(* message and the messages sent make one together, plus what a lost       *)
(* answer, a failing write or a crash forgot; the same holds of the public *)
(* replies.  From this: no overlap, no unexplained repeat, and             *)
(* ReplyLifecycle where nothing is forgotten.                              *)
(***************************************************************************)
EXTENDS CommentDeliveryProofs

\* One campaign, and a queue that remembers what it completed.
OneCampaign == NumCampaigns = 1 /\ "evictCompleted" \notin Events

\* Slot w runs job id inside the loop.
Works(w, id) == wk[w].at # "idle" /\ wk[w].id = id /\ wk[w].pos \in Campaigns

\* The job waits, or is one that webhook and poller would add.
Runnable(id) ==
    \/ job[id].state = "waiting"
    \/ id = BaseId(id[1]) /\ job[id].state \in {"none", "failed"}

\* The jobs of comment c that may still reach step s.
LineOpen(id, s) == Runnable(id) \/ \E w \in Workers : Works(w, id) /\ wk[w].at # s
Lines(c, s)     == {id \in JobIds : id[1] = c /\ LineOpen(id, s)}

\* The jobs that may still post a reply below a comment whose row says it has one.
Posting(c) ==
    {id \in JobIds : /\ id[1] = c
                     /\ \E w \in Workers : /\ Works(w, id) /\ ~wk[w].replied
                                           /\ wk[w].at \in {"mark", "reply"}}

\* Every active job has its slot.
ActiveHasSlot ==
    \A id \in JobIds : job[id].state = "active" =>
        \E w \in Workers : wk[w].at # "idle" /\ wk[w].id = id

\* A reply is only posted by a slot that read a row without one.
PostsUnanswered == \A w \in Workers : wk[w].at = "reply" => ~wk[w].replied

-----------------------------------------------------------------------------
(* Counting                                                                *)

\* There are finitely many jobs, so every comment has finitely many lines.
LEMMA JobsFinite == IsFiniteSet(JobIds)
  <1>1. /\ IsFiniteSet(1..NumComments)
        /\ IsFiniteSet(0..MaxHourlyRequeues) /\ IsFiniteSet(0..MAX_BURST_REQUEUE_ATTEMPTS)
    BY DeliveryAssumption, FS_Interval
  <1> DEFINE H == 0..MaxHourlyRequeues
             B == 0..MAX_BURST_REQUEUE_ATTEMPTS
  <1>2. IsFiniteSet(Comments) /\ IsFiniteSet(H) /\ IsFiniteSet(B)
    BY <1>1 DEF Comments
  <1> HIDE DEF H, B
  <1>3. IsFiniteSet(H \X B)
    BY <1>2, FS_Product
  <1>4. IsFiniteSet(Comments \X (H \X B))
    BY <1>2, <1>3, FS_Product
  <1> DEFINE f == [t \in Comments \X (H \X B) |-> <<t[1], t[2][1], t[2][2]>>]
  <1>5. f \in Surjection(Comments \X (H \X B), JobIds)
    <2>1. f \in [Comments \X (H \X B) -> JobIds]
      BY DEF JobIds, H, B
    <2>2. ASSUME NEW id \in JobIds PROVE \E t \in Comments \X (H \X B) : f[t] = id
      <3>1. /\ id = <<id[1], id[2], id[3]>>
            /\ id[1] \in Comments /\ id[2] \in H /\ id[3] \in B
        BY DEF JobIds, H, B
      <3>2. <<id[1], <<id[2], id[3]>>>> \in Comments \X (H \X B)
        BY <3>1
      <3>3. f[<<id[1], <<id[2], id[3]>>>>] = id
        BY <3>1, <3>2
      <3> QED BY <3>2, <3>3
    <2> QED BY <2>1, <2>2 DEF Surjection
  <1> HIDE DEF f
  <1>6. QED BY <1>4, <1>5, FS_Surjection

\* What an inclusion says of the numbers of lines.
LEMMA CountLines ==
    ASSUME NEW S \in SUBSET JobIds, NEW T \in SUBSET JobIds
    PROVE  /\ Cardinality(S) \in Nat /\ Cardinality(T) \in Nat
           /\ T \subseteq S => Cardinality(T) <= Cardinality(S)
           /\ \A x : T \subseteq S \cup {x} => Cardinality(T) <= Cardinality(S) + 1
           /\ \A x \in S : T \subseteq S \ {x} => Cardinality(T) + 1 <= Cardinality(S)
           /\ \A x \in S : \A y : T \subseteq (S \ {x}) \cup {y} => Cardinality(T) <= Cardinality(S)
  <1>1. IsFiniteSet(S) /\ IsFiniteSet(T)
    BY JobsFinite, FS_Subset
  <1>2. Cardinality(S) \in Nat /\ Cardinality(T) \in Nat
    BY <1>1, FS_CardinalityType
  <1>3. T \subseteq S => Cardinality(T) <= Cardinality(S)
    BY <1>1, FS_Subset
  <1>4. ASSUME NEW U \in SUBSET S, NEW y, T \subseteq U \cup {y}
        PROVE  Cardinality(T) <= Cardinality(U) + 1
    <2>1. IsFiniteSet(U) /\ Cardinality(U) \in Nat
      BY <1>1, FS_Subset, FS_CardinalityType
    <2>2. /\ IsFiniteSet(U \cup {y})
          /\ Cardinality(U \cup {y}) = Cardinality(U) \/ Cardinality(U \cup {y}) = Cardinality(U) + 1
      BY <2>1, FS_AddElement
    <2>3. Cardinality(T) <= Cardinality(U \cup {y})
      BY <1>4, <2>2, FS_Subset
    <2> QED BY <1>2, <2>1, <2>2, <2>3
  <1>5. ASSUME NEW x \in S
        PROVE  IsFiniteSet(S \ {x}) /\ Cardinality(S \ {x}) = Cardinality(S) - 1
    BY <1>1, FS_RemoveElement
  <1>6. ASSUME NEW x \in S, T \subseteq S \ {x} PROVE Cardinality(T) + 1 <= Cardinality(S)
    <2>1. Cardinality(T) <= Cardinality(S \ {x})
      BY <1>5, <1>6, FS_Subset
    <2>2. Cardinality(S \ {x}) = Cardinality(S) - 1
      BY <1>5
    <2> QED BY <1>2, <2>1, <2>2
  <1>7. ASSUME NEW x \in S, NEW y, T \subseteq (S \ {x}) \cup {y}
        PROVE  Cardinality(T) <= Cardinality(S)
    <2>1. Cardinality(T) <= Cardinality(S \ {x}) + 1
      BY <1>4, <1>7
    <2> QED BY <1>2, <1>5, <2>1
  <1>8. QED BY <1>2, <1>3, <1>4, <1>6, <1>7

\* Forgotten effects and crashes only accumulate.
LEMMA ForgottenGrows ==
    ASSUME IInv, faults' = faults \/ \E f \in Faults : Fault(f)
    PROVE  /\ ForgottenOrCrashed \in Nat /\ ForgottenOrCrashed' \in Nat
           /\ ForgottenOrCrashed' >= ForgottenOrCrashed
           /\ Fault("timeout") \/ Fault("writeFails")
                  => ForgottenOrCrashed' = ForgottenOrCrashed + 1
           /\ Fault("crash")
                  => ForgottenOrCrashed' = ForgottenOrCrashed + Cardinality(Workers)
  <1>1. /\ faults \in [Faults -> Nat]
        /\ "timeout" \in Faults /\ "writeFails" \in Faults /\ "crash" \in Faults
    BY DEF IInv, TypeOK, Faults
  <1>2. Cardinality(Workers) \in Nat
    BY DeliveryAssumption, FS_CardinalityType
  <1>3. PICK W \in Nat : W = Cardinality(Workers)
    BY <1>2
  <1>4. \A n \in Nat : W * n \in Nat /\ W * (n + 1) = W * n + W
    BY SMT
  <1>5. ASSUME NEW t \in Nat, NEW k \in Nat, NEW n \in Nat, t = faults["timeout"],
               k = faults["writeFails"], n = faults["crash"]
        PROVE  ForgottenOrCrashed = t + k + W * n
    BY <1>3, <1>5 DEF ForgottenOrCrashed, Forgotten
  <1>6. ForgottenOrCrashed \in Nat
    BY <1>1, <1>4, <1>5
  <1>7. CASE UNCHANGED faults
    <2>1. ForgottenOrCrashed' = ForgottenOrCrashed
      BY <1>7 DEF ForgottenOrCrashed, Forgotten
    <2>2. \A f \in Faults : ~Fault(f)
      BY <1>1, <1>7 DEF Fault
    <2> QED BY <1>1, <1>6, <2>1, <2>2
  <1>8. ASSUME NEW f \in Faults, Fault(f)
        PROVE  /\ ForgottenOrCrashed' \in Nat
               /\ ForgottenOrCrashed' >= ForgottenOrCrashed
               /\ f \in {"timeout", "writeFails"} => ForgottenOrCrashed' = ForgottenOrCrashed + 1
               /\ f = "crash" => ForgottenOrCrashed' = ForgottenOrCrashed + W
    <2>1. faults' = [faults EXCEPT ![f] = faults[f] + 1]
      BY <1>8 DEF Fault
    <2>2. ForgottenOrCrashed' = faults'["timeout"] + faults'["writeFails"] + W * faults'["crash"]
      BY <1>3 DEF ForgottenOrCrashed, Forgotten
    <2>3. ForgottenOrCrashed = faults["timeout"] + faults["writeFails"] + W * faults["crash"]
      BY <1>3 DEF ForgottenOrCrashed, Forgotten
    <2>4. W * faults["crash"] \in Nat /\ W * (faults["crash"] + 1) = W * faults["crash"] + W
      BY <1>1, <1>4
    <2>5. PICK m \in Nat : m = W * faults["crash"]
      BY <2>4
    <2>6. f = "crash" => W * faults'["crash"] = m + W
      BY <1>1, <2>1, <2>4, <2>5
    <2>7. f # "crash" => W * faults'["crash"] = m
      BY <1>1, <2>1, <2>5
    <2>8. faults["timeout"] \in Nat /\ faults["writeFails"] \in Nat
      BY <1>1
    <2>9. CASE f = "crash"
      <3>1. faults'["timeout"] = faults["timeout"] /\ faults'["writeFails"] = faults["writeFails"]
        BY <1>1, <2>1, <2>9
      <3> QED BY <2>2, <2>3, <2>5, <2>6, <2>8, <2>9, <3>1
    <2>10. CASE f = "timeout"
      <3>1. faults'["timeout"] = faults["timeout"] + 1 /\ faults'["writeFails"] = faults["writeFails"]
        BY <1>1, <2>1, <2>10
      <3> QED BY <2>2, <2>3, <2>5, <2>7, <2>8, <2>10, <3>1
    <2>11. CASE f = "writeFails"
      <3>1. faults'["timeout"] = faults["timeout"] /\ faults'["writeFails"] = faults["writeFails"] + 1
        BY <1>1, <2>1, <2>11
      <3> QED BY <2>2, <2>3, <2>5, <2>7, <2>8, <2>11, <3>1
    <2>12. CASE f \notin {"crash", "timeout", "writeFails"}
      <3>1. faults'["timeout"] = faults["timeout"] /\ faults'["writeFails"] = faults["writeFails"]
        BY <1>1, <2>1, <2>12
      <3> QED BY <2>2, <2>3, <2>5, <2>7, <2>8, <2>12, <3>1
    <2> QED BY <2>9, <2>10, <2>11, <2>12
  <1>9. QED BY <1>1, <1>3, <1>6, <1>7, <1>8

-----------------------------------------------------------------------------
(* What the step of a slot does to the lines                               *)

\* Slot w goes on with its job and leaves the queue alone.
Goes(w) ==
    /\ Moves(w) /\ UNCHANGED job
    /\ wk'[w].at # "idle" /\ wk'[w].id = wk[w].id

\* Slot w is done with its campaign and has queued the _retry_ job.
Defers(w) ==
    /\ Moves(w) /\ wk[w].at = "slot"
    /\ wk'[w].at = "read" /\ wk'[w].id = wk[w].id /\ wk'[w].pos \notin Campaigns
    /\ \E window \in Blocks : /\ RetryId(wk[w].id, window) \in JobIds
                             /\ job' = Added(RetryId(wk[w].id, window))

\* With one campaign, to continue is to leave the loop.
LEMMA ContinueEnds ==
    ASSUME IInv, OneCampaign, NEW w \in Workers, Continue(w), wk[w].pos \in Campaigns
    PROVE  /\ Moves(w) /\ wk'[w].at = "read" /\ wk'[w].id = wk[w].id
           /\ wk'[w].pos \notin Campaigns
  <1>1. Moves(w) /\ wk'[w].at = "read" /\ wk'[w].id = wk[w].id
    BY ContinueMoves
  <1>2. wk'[w] = Before(wk[w].id, wk[w].pos + 1)
    BY DEF Continue, IInv, TypeOK
  <1>3. wk'[w].pos = wk[w].pos + 1 /\ wk[w].pos = 1 /\ Campaigns = {1}
    BY <1>2 DEF Before, Campaigns, OneCampaign
  <1>4. QED BY <1>1, <1>3

\* Every step of a slot in the loop goes on, defers or throws.
LEMMA SlotStepKinds ==
    ASSUME IInv, OneCampaign, NEW w \in Workers, Campaign(w), ~FinishJob(w)
    PROVE  /\ wk[w].at # "idle" /\ wk[w].pos \in Campaigns
           /\ Goes(w) \/ Defers(w) \/ Throw(w)
  <1>0. wk[w].at # "idle" /\ wk[w].pos \in Campaigns
    BY DEF Campaign, ReadLog, NoToken, CreateLog, ClashOnCreate, ReopenLog, KeepSent, PostReply,
           ReplyRejected, RecordReply, ReserveUsage, OverPlanLimit, SlotGranted, SlotBlocked,
           SlotSkipped, SlotFails, DmRejected, SendDm, RecordSent, DatabaseFails, FinishJob,
           At, IInv, InLoop
  <1>1. ASSUME Continue(w), UNCHANGED job PROVE Goes(w)
    BY <1>0, <1>1, ContinueEnds DEF Goes
  <1>2. ASSUME AfterReply(w) \/ AfterMark(w), UNCHANGED job PROVE Goes(w)
    BY <1>0, <1>2, AfterReplyMoves, AfterMarkMoves DEF Goes
  <1>3. ASSUME NEW s \in Steps \ {"idle"}, Goto(w, s), UNCHANGED job PROVE Goes(w)
    BY <1>3, GotoMoves DEF Goes
  <1>4. CASE ReadLog(w)
    <2>1. CASE Continue(w)
      BY <1>0, <1>1, <1>4, <2>1 DEF ReadLog
    <2>2. CASE wk' = [wk EXCEPT ![w].at = "mark", ![w].status = log[Pair(w)].status,
                                ![w].replied = log[Pair(w)].replied]
      <3>1. wk \in [Workers -> SlotRec] /\ log[Pair(w)].status \in Statuses
            /\ log[Pair(w)].replied \in BOOLEAN
        BY <1>0, PairInLoop DEF IInv, TypeOK, SlotRec
      <3>2. Moves(w) /\ wk'[w].at = "mark" /\ wk'[w].id = wk[w].id
        BY <2>2, <3>1 DEF Moves, SlotRec, Steps
      <3> QED BY <1>0, <1>4, <3>2 DEF Goes, ReadLog
    <2> QED BY <1>0, <1>4, <2>1, <2>2 DEF ReadLog
  <1>5. CASE CreateLog(w) \/ ReopenLog(w) \/ KeepSent(w)
    BY <1>0, <1>2, <1>5 DEF CreateLog, ReopenLog, KeepSent
  <1>6. CASE PostReply(w) \/ ReplyRejected(w) \/ RecordReply(w)
    BY <1>0, <1>2, <1>3, <1>6 DEF PostReply, ReplyRejected, RecordReply, Steps
  <1>7. CASE NoToken(w) \/ OverPlanLimit(w) \/ SlotSkipped(w)
    BY <1>0, <1>1, <1>7 DEF NoToken, OverPlanLimit, SlotSkipped
  <1>8. CASE ReserveUsage(w) \/ SlotGranted(w)
    BY <1>0, <1>3, <1>8 DEF ReserveUsage, SlotGranted, Steps
  <1>9. CASE SendDm(w) \/ RecordSent(w)
    BY <1>0, <1>1, <1>3, <1>9 DEF SendDm, RecordSent, SendFails, Steps
  <1>10. CASE ClashOnCreate(w) \/ DatabaseFails(w) \/ SlotFails(w) \/ DmRejected(w)
    BY <1>0, <1>10 DEF ClashOnCreate, DatabaseFails, SlotFails, DmRejected, SendFails
  <1>11. CASE \E window \in Blocks : SlotBlocked(w, window)
    <2>1. PICK window \in Blocks : SlotBlocked(w, window)
      BY <1>11
    <2>2. Defers(w)
      BY <1>0, <2>1, ContinueEnds DEF SlotBlocked, Defers, At
    <2> QED BY <1>0, <2>2
  <1>12. QED
    BY <1>4, <1>5, <1>6, <1>7, <1>8, <1>9, <1>10, <1>11 DEF Campaign

\* A job nobody else touched is open after the step of a slot only if it was
\* before.
LEMMA OtherLines ==
    ASSUME IInv, NEW w \in Workers, Moves(w), wk[w].at # "idle",
           wk'[w].at # "idle" => wk'[w].id = wk[w].id,
           NEW id \in JobIds \ {wk[w].id}, Runnable(id)' => Runnable(id),
           NEW s, LineOpen(id, s)'
    PROVE  LineOpen(id, s)
  <1>1. CASE Runnable(id)'
    BY <1>1 DEF LineOpen
  <1>2. CASE \E v \in Workers : Works(v, id)' /\ wk'[v].at # s
    <2>1. PICK v \in Workers : Works(v, id)' /\ wk'[v].at # s
      BY <1>2
    <2>2. v # w
      BY <2>1 DEF Works
    <2>3. wk'[v] = wk[v]
      BY <2>2 DEF Moves
    <2> QED BY <2>1, <2>3 DEF Works, LineOpen
  <1>3. QED BY <1>1, <1>2 DEF LineOpen

\* The line of a job whose slot has passed step s, or the loop, is closed.
LEMMA OwnLineCloses ==
    ASSUME IInv, NEW w \in Workers, Moves(w), wk[w].at # "idle",
           NEW own, own = wk[w].id, job'[own].state \in {"active", "completed"},
           NEW s, wk'[w].at \in {"idle", s} \/ wk'[w].pos \notin Campaigns
    PROVE  ~LineOpen(own, s)'
  <1>1. ~Runnable(own)'
    BY DEF Runnable
  <1>2. ASSUME NEW v \in Workers, Works(v, own)', wk'[v].at # s PROVE FALSE
    <2>1. CASE v = w
      BY <1>2, <2>1 DEF Works
    <2>2. CASE v # w
      <3>1. wk[v].at # "idle" /\ wk[v].id = own
        BY <1>2, <2>2 DEF Works, Moves
      <3> QED BY <2>2, <3>1 DEF IInv, JobsOwned
    <2> QED BY <2>1, <2>2
  <1>3. QED BY <1>1, <1>2 DEF LineOpen

\* An add opens no line but its own, and that of a base job is open already.
LEMMA AddOpens ==
    ASSUME IInv, NEW rid \in JobIds, job' = Added(rid)
    PROVE  /\ \A id \in JobIds \ {rid} : job'[id] = job[id]
           /\ \A id \in JobIds \ {rid} : Runnable(id)' => Runnable(id)
           /\ rid = BaseId(rid[1]) => (Runnable(rid)' => Runnable(rid))
           /\ \A id \in JobIds : job'[id].state = "active" <=> job[id].state = "active"
  <1>0. job \in [JobIds -> JobRec]
    BY DEF IInv, TypeOK, JobRec
  <1>1. CASE job[rid].state = "none"
    <2>1. /\ \A id \in JobIds \ {rid} : job'[id] = job[id]
          /\ job'[rid].state = "waiting"
      BY <1>0, <1>1 DEF Added, JobRec
    <2> QED BY <1>1, <2>1 DEF Runnable
  <1>2. CASE job[rid].state # "none"
    <2>1. job' = job
      BY <1>2 DEF Added
    <2> QED BY <2>1 DEF Runnable
  <1>3. QED BY <1>1, <1>2

\* A _retry_ id belongs to the same comment and is a new one.
LEMMA RetryIsNew ==
    ASSUME NEW id \in JobIds, NEW window, RetryId(id, window) \in JobIds
    PROVE  RetryId(id, window)[1] = id[1] /\ RetryId(id, window) # id
  <1>1. id[2] \in Nat /\ id[3] \in Nat
    BY DeliveryAssumption DEF JobIds
  <1>2. QED BY <1>1 DEF RetryId

\* The lines of a comment never grow by the step of a slot, but for that of a
\* slot that had passed step s and throws; a slot that comes to s closes its own.
LEMMA SlotLines ==
    ASSUME IInv, OneCampaign, NEW w \in Workers, Campaign(w), NEW c \in Comments, NEW s
    PROVE  /\ Cardinality(Lines(c, s)) \in Nat /\ Cardinality(Lines(c, s)') \in Nat
           /\ Cardinality(Lines(c, s)') <= Cardinality(Lines(c, s)) + 1
           /\ \/ wk[w].at # s \/ Comment(w) # c
              \/ UNCHANGED job /\ wk'[w].pos \notin Campaigns
              => Cardinality(Lines(c, s)') <= Cardinality(Lines(c, s))
           /\ /\ wk[w].at \notin {"read", s} /\ wk'[w].at = s /\ UNCHANGED job
              /\ Comment(w) = c
              => Cardinality(Lines(c, s)') + 1 <= Cardinality(Lines(c, s))
  <1> DEFINE L == Lines(c, s)
             M == Lines(c, s)'
  <1>0. wk[w].id \in JobIds /\ L \in SUBSET JobIds /\ M \in SUBSET JobIds
    BY DEF Lines, IInv, TypeOK
  <1>. PICK own \in JobIds : own = wk[w].id
    BY <1>0
  <1>1. CASE FinishJob(w)
    <2>0. wk[w].at = "read"
      BY <1>1 DEF FinishJob, At
    <2>1. Moves(w) /\ wk'[w].at = "idle"
      <3>1. Idle \in SlotRec
        BY DeliveryAssumption DEF SlotRec, Idle, Steps, Statuses, JobIds, Comments
      <3>2. wk \in [Workers -> SlotRec] /\ wk' = [wk EXCEPT ![w] = Idle]
        BY <1>1 DEF IInv, TypeOK, SlotRec, FinishJob
      <3> QED BY <3>1, <3>2 DEF Moves, Idle
    <2>2. job'[own].state = "completed" /\ \A id \in JobIds \ {own} : job'[id] = job[id]
      <3>1. job \in [JobIds -> JobRec]
        BY DEF IInv, TypeOK, JobRec
      <3> QED BY <1>0, <1>1, <3>1 DEF FinishJob, JobRec
    <2>3. ~LineOpen(own, s)'
      BY <2>0, <2>1, <2>2, OwnLineCloses
    <2>4. \A id \in JobIds \ {own} : Runnable(id)' => Runnable(id)
      BY <2>2 DEF Runnable
    <2>5. M \subseteq L
      <3>1. \A id \in JobIds \ {own} : LineOpen(id, s)' => LineOpen(id, s)
        BY <2>0, <2>1, <2>4, OtherLines
      <3> QED BY <2>3, <3>1 DEF Lines
    <2> HIDE DEF L, M
    <2>6. Cardinality(L) \in Nat /\ Cardinality(M) \in Nat /\ Cardinality(M) <= Cardinality(L)
      BY <1>0, <2>5, CountLines
    <2> QED BY <2>0, <2>6 DEF L, M
  <1>2. CASE ~FinishJob(w)
    <2>1. /\ wk[w].at # "idle" /\ wk[w].pos \in Campaigns
          /\ Goes(w) \/ Defers(w) \/ Throw(w)
      BY <1>2, SlotStepKinds
    <2>2. Moves(w) /\ (wk'[w].at # "idle" => wk'[w].id = own)
      BY <2>1, ThrowMoves DEF Goes, Defers, Idle
    <2>3. wk[w].at # s /\ Comment(w) = c => own \in L
      BY <1>0, <2>1 DEF Lines, LineOpen, Works, Comment
    <2>4. Comment(w) # c => own \notin M
      BY DEF Lines, Comment
    <2>5. job[own].state = "active"
      BY <2>1 DEF IInv, JobsOwned
    <2>6. CASE Goes(w) \/ Throw(w)
      <3>1. \A id \in JobIds \ {own} : Runnable(id)' => Runnable(id)
        BY <2>6 DEF Goes, Throw, Runnable, IInv, TypeOK
      <3>2. M \subseteq L \cup {own}
        BY <2>1, <2>2, <3>1, OtherLines DEF Lines
      <3>3. ASSUME UNCHANGED job, wk'[w].pos \notin Campaigns \/ wk'[w].at = s,
                   wk'[w].at # "idle"
            PROVE  own \notin M
        BY <2>1, <2>2, <2>5, <3>3, OwnLineCloses DEF Lines
      <3>4. ~UNCHANGED job \/ wk'[w].at # "idle"
        <4>1. CASE Throw(w)
          <5>1. job'[own].state \in {"waiting", "failed"}
            <6>1. job \in [JobIds -> JobRec]
              BY DEF IInv, TypeOK, JobRec
            <6> QED BY <1>0, <4>1, <6>1 DEF Throw, JobRec
          <5> QED BY <2>5, <5>1
        <4> QED BY <2>6, <4>1 DEF Goes
      <3> HIDE DEF L, M
      <3>5. /\ Cardinality(L) \in Nat /\ Cardinality(M) \in Nat
            /\ Cardinality(M) <= Cardinality(L) + 1
        BY <1>0, <3>2, CountLines
      <3>6. ASSUME wk[w].at # s \/ Comment(w) # c \/ (UNCHANGED job /\ wk'[w].pos \notin Campaigns)
            PROVE  Cardinality(M) <= Cardinality(L)
        <4>1. M \subseteq L
          BY <2>3, <2>4, <3>2, <3>3, <3>4, <3>6
        <4> QED BY <1>0, <4>1, CountLines
      <3>7. ASSUME wk[w].at # s, wk'[w].at = s, UNCHANGED job, Comment(w) = c
            PROVE  Cardinality(M) + 1 <= Cardinality(L)
        <4>1. own \in L /\ M \subseteq L \ {own}
          BY <2>3, <3>2, <3>3, <3>4, <3>7
        <4> QED BY <1>0, <4>1, CountLines
      <3> QED BY <3>5, <3>6, <3>7 DEF L, M
    <2>7. CASE Defers(w)
      <3>1. PICK window \in Blocks : /\ RetryId(own, window) \in JobIds
                                    /\ job' = Added(RetryId(own, window))
        BY <2>7 DEF Defers
      <3> DEFINE rid == RetryId(own, window)
      <3>2. rid \in JobIds /\ rid # own /\ rid[1] = own[1]
        BY <1>0, <3>1, RetryIsNew
      <3>3. /\ \A id \in JobIds \ {rid} : Runnable(id)' => Runnable(id)
            /\ job'[own].state = "active"
        BY <1>0, <2>5, <3>1, <3>2, AddOpens
      <3>4. own \notin M
        BY <2>1, <2>2, <2>7, <3>3, OwnLineCloses DEF Lines, Defers
      <3>5. M \subseteq L \cup {own, rid}
        BY <2>1, <2>2, <3>3, OtherLines DEF Lines
      <3>6. Comment(w) # c => rid \notin M
        BY <3>2 DEF Lines, Comment
      <3>7. wk'[w].at = "read"
        BY <2>7 DEF Defers
      <3>8. UNCHANGED job => M \subseteq L
        <4>1. ASSUME UNCHANGED job PROVE \A id \in JobIds \ {own} : Runnable(id)' => Runnable(id)
          BY <4>1 DEF Runnable
        <4> QED BY <2>1, <2>2, <3>4, <4>1, OtherLines DEF Lines
      <3> HIDE DEF L, M, rid
      <3>9. /\ Cardinality(L) \in Nat /\ Cardinality(M) \in Nat
            /\ Cardinality(M) <= Cardinality(L) + 1
        <4>1. M \subseteq L \cup {rid}
          BY <3>4, <3>5
        <4> QED BY <1>0, <4>1, CountLines
      <3>10. ASSUME wk[w].at # s \/ Comment(w) # c \/ UNCHANGED job
             PROVE  Cardinality(M) <= Cardinality(L)
        <4>1. CASE wk[w].at # s /\ Comment(w) = c
          <5>1. own \in L /\ M \subseteq (L \ {own}) \cup {rid}
            BY <2>3, <3>4, <3>5, <4>1
          <5> QED BY <1>0, <5>1, CountLines
        <4>2. CASE Comment(w) # c \/ UNCHANGED job
          <5>1. M \subseteq L
            BY <3>4, <3>5, <3>6, <3>8, <4>2
          <5> QED BY <1>0, <5>1, CountLines
        <4> QED BY <3>10, <4>1, <4>2
      <3>11. ASSUME wk[w].at # s, wk'[w].at = s, UNCHANGED job, Comment(w) = c
             PROVE  Cardinality(M) + 1 <= Cardinality(L)
        <4>1. own \in L /\ M \subseteq L \ {own}
          BY <2>3, <3>4, <3>8, <3>11
        <4> QED BY <1>0, <4>1, CountLines
      <3> QED BY <3>9, <3>10, <3>11 DEF L, M
    <2> QED BY <2>1, <2>6, <2>7
  <1>3. QED BY <1>1, <1>2

-----------------------------------------------------------------------------
(* The other steps                                                         *)

\* A job is active only in the slot that took it, step after step.
LEMMA SlotKeepsActive ==
    ASSUME IInv, OneCampaign, ActiveHasSlot, NEW w \in Workers, Campaign(w)
    PROVE  ActiveHasSlot'
  <1>0. wk[w].id \in JobIds /\ job \in [JobIds -> JobRec]
    BY DEF IInv, TypeOK, JobRec
  <1>1. CASE FinishJob(w) \/ Throw(w)
    <2>1. Moves(w) /\ wk[w].at # "idle"
      <3>1. CASE FinishJob(w)
        <4>1. Idle \in SlotRec
          BY DeliveryAssumption DEF SlotRec, Idle, Steps, Statuses, JobIds, Comments
        <4>2. wk \in [Workers -> SlotRec] /\ wk' = [wk EXCEPT ![w] = Idle] /\ wk[w].at = "read"
          BY <3>1 DEF IInv, TypeOK, SlotRec, FinishJob, At
        <4> QED BY <4>1, <4>2 DEF Moves
      <3>2. CASE Throw(w) /\ ~FinishJob(w)
        <4>1. wk[w].at # "idle"
          BY <3>2, SlotStepKinds
        <4> QED BY <3>2, <4>1, ThrowMoves
      <3> QED BY <1>1, <3>1, <3>2
    <2>2. PICK own \in JobIds : own = wk[w].id
      BY <1>0
    <2>3. job'[own].state # "active" /\ \A id \in JobIds \ {own} : job'[id] = job[id]
      <3>1. CASE FinishJob(w)
        BY <1>0, <2>2, <3>1 DEF FinishJob, JobRec
      <3>2. CASE Throw(w)
        BY <1>0, <2>2, <3>2 DEF Throw, JobRec
      <3> QED BY <1>1, <3>1, <3>2
    <2> SUFFICES ASSUME NEW id \in JobIds \ {own}, job[id].state = "active"
                 PROVE  \E v \in Workers : wk'[v].at # "idle" /\ wk'[v].id = id
      BY <2>3 DEF ActiveHasSlot
    <2>4. PICK v \in Workers : wk[v].at # "idle" /\ wk[v].id = id
      BY DEF ActiveHasSlot
    <2>5. wk'[v] = wk[v]
      BY <2>1, <2>2, <2>4 DEF Moves
    <2> QED BY <2>4, <2>5
  <1>2. CASE ~FinishJob(w) /\ ~Throw(w)
    <2>1. (wk[w].at # "idle" /\ Goes(w)) \/ Defers(w)
      BY <1>2, SlotStepKinds
    <2>2. \A id \in JobIds : job'[id].state = "active" => job[id].state = "active"
      <3>1. CASE Goes(w)
        BY <3>1 DEF Goes
      <3>2. CASE Defers(w)
        BY <3>2, AddOpens DEF Defers
      <3> QED BY <2>1, <3>1, <3>2
    <2>3. Moves(w) /\ wk'[w].at # "idle" /\ wk'[w].id = wk[w].id
      BY <2>1 DEF Goes, Defers
    <2> QED BY <2>2, <2>3 DEF ActiveHasSlot, Moves
  <1>3. QED BY <1>1, <1>2

\* What a Goto leaves as it was read.
LEMMA GotoKeeps ==
    ASSUME IInv, NEW w \in Workers, NEW s \in Steps, Goto(w, s)
    PROVE  wk'[w].replied = wk[w].replied /\ wk'[w].status = wk[w].status
  <1>1. wk \in [Workers -> SlotRec]
    BY DEF IInv, TypeOK, SlotRec
  <1>2. wk'[w] = [wk[w] EXCEPT !.at = s]
    BY <1>1 DEF Goto
  <1>3. QED BY <1>1, <1>2 DEF SlotRec

\* How a slot comes to the row and to the public reply.
LEMMA WayToReply ==
    ASSUME IInv, NEW w \in Workers, Campaign(w)
    PROVE  \/ wk'[w].at \notin {"mark", "reply"}
           \/ ReadLog(w) /\ wk'[w].at = "mark" /\ wk'[w].replied = log[Pair(w)].replied
           \/ wk[w].at = "mark" /\ wk'[w].at = "reply" /\ ~wk[w].replied /\ ~wk'[w].replied
  <1>0. wk \in [Workers -> SlotRec]
    BY DEF IInv, TypeOK, SlotRec
  <1>1. ASSUME Continue(w) \/ Throw(w) PROVE wk'[w].at \in {"read", "idle"}
    BY <1>0, <1>1 DEF Continue, Throw, Before, Idle
  <1>2. ASSUME AfterReply(w) PROVE wk'[w].at \in {"read", "reserve"}
    BY <1>0, <1>1, <1>2 DEF AfterReply, Goto, SlotRec, Continue, Before
  <1>3. ASSUME NEW s \in {"replied", "slot", "send", "sent"}, Goto(w, s)
        PROVE  wk'[w].at \notin {"mark", "reply"}
    BY <1>3, GotoMoves DEF Steps
  <1>4. CASE ReadLog(w)
    <2>1. CASE Continue(w)
      BY <1>1, <2>1
    <2>2. CASE wk' = [wk EXCEPT ![w].at = "mark", ![w].status = log[Pair(w)].status,
                                ![w].replied = log[Pair(w)].replied]
      <3>1. wk'[w].at = "mark" /\ wk'[w].replied = log[Pair(w)].replied
        BY <1>0, <2>2 DEF SlotRec
      <3> QED BY <1>4, <3>1
    <2> QED BY <1>4, <2>1, <2>2 DEF ReadLog
  <1>5. CASE CreateLog(w) \/ ReopenLog(w) \/ KeepSent(w)
    <2>1. wk[w].at = "mark" /\ AfterMark(w)
      BY <1>5 DEF CreateLog, ReopenLog, KeepSent, At
    <2>2. CASE wk[w].pos \in PublicReply /\ ~wk[w].replied
      <3>1. Goto(w, "reply") /\ "reply" \in Steps
        BY <2>1, <2>2 DEF AfterMark, Steps
      <3> QED BY <2>1, <2>2, <3>1, GotoMoves, GotoKeeps
    <2>3. CASE ~(wk[w].pos \in PublicReply /\ ~wk[w].replied)
      BY <1>2, <2>1, <2>3 DEF AfterMark
    <2> QED BY <2>2, <2>3
  <1>6. CASE PostReply(w) \/ ReplyRejected(w) \/ RecordReply(w)
    BY <1>2, <1>3, <1>6 DEF PostReply, ReplyRejected, RecordReply
  <1>7. CASE NoToken(w) \/ OverPlanLimit(w) \/ SlotSkipped(w) \/ \E window \in Blocks : SlotBlocked(w, window)
    BY <1>1, <1>7 DEF NoToken, OverPlanLimit, SlotSkipped, SlotBlocked
  <1>8. CASE ReserveUsage(w) \/ SlotGranted(w)
    BY <1>3, <1>8 DEF ReserveUsage, SlotGranted
  <1>9. CASE SendDm(w) \/ RecordSent(w) \/ SlotFails(w) \/ DmRejected(w)
    BY <1>1, <1>3, <1>9 DEF SendDm, RecordSent, SlotFails, DmRejected, SendFails
  <1>10. CASE ClashOnCreate(w) \/ DatabaseFails(w)
    BY <1>1, <1>10 DEF ClashOnCreate, DatabaseFails
  <1>11. CASE FinishJob(w)
    BY <1>0, <1>11 DEF FinishJob, Idle
  <1>12. QED
    BY <1>4, <1>5, <1>6, <1>7, <1>8, <1>9, <1>10, <1>11 DEF Campaign

\* Every other step but a crash opens no line and touches neither Meta nor the
\* faults.
LEMMA RestLines ==
    ASSUME IInv, OneCampaign,
           \/ \E id \in JobIds : Start(id) \/ EvictCompleted(id) \/ EvictFailed(id)
           \/ Poll
           \/ \E c \in Comments : Webhook(c) \/ Aging(c) \/ ManualReply(c)
           \/ UNCHANGED vars
    PROVE  /\ UNCHANGED <<dms, replies, faults>>
           /\ \A p \in Pairs : log[p].replied => log'[p].replied
           /\ \A c \in Comments : \A s : Lines(c, s)' \subseteq Lines(c, s)
           /\ \A c \in Comments : Posting(c)' \subseteq Posting(c)
           /\ ActiveHasSlot => ActiveHasSlot'
           /\ PostsUnanswered => PostsUnanswered'
  <1>0. job \in [JobIds -> JobRec] /\ log \in [Pairs -> LogRec] /\ wk \in [Workers -> SlotRec]
    BY DEF IInv, TypeOK, JobRec, LogRec, SlotRec
  <1>1. UNCHANGED <<dms, replies, faults>>
    BY DEF Start, Take, TakeExpired, EvictCompleted, EvictFailed, Poll, SweepCampaign, SweepAdd,
           Webhook, Aging, ManualReply, vars, meta, bounds
  <1>2. \A p \in Pairs : log[p].replied => log'[p].replied
    <2>1. CASE UNCHANGED log
      BY <2>1
    <2>2. CASE \E a \in Campaigns : SweepCampaign(a)
      <3>1. \A p \in Pairs : log'[p] \in {log[p], [log[p] EXCEPT !.replied = TRUE]}
        BY <2>2 DEF SweepCampaign
      <3> QED BY <1>0, <3>1 DEF LogRec
    <2> QED BY <2>1, <2>2 DEF Start, Take, TakeExpired, EvictCompleted, EvictFailed, Poll, SweepAdd,
                              Webhook, Aging, ManualReply, vars
  <1>3. CASE UNCHANGED wk
    <2>1. /\ \A id \in JobIds : Runnable(id)' => Runnable(id)
          /\ \A id \in JobIds : job'[id].state = "active" => job[id].state = "active"
      <3>1. CASE UNCHANGED job
        BY <3>1 DEF Runnable
      <3>2. CASE \E c \in Comments : Webhook(c) \/ SweepAdd(c)
        <4>1. PICK c \in Comments : job' = Added(BaseId(c))
          BY <3>2 DEF Webhook, SweepAdd
        <4>2. BaseId(c) \in JobIds /\ BaseId(c) = BaseId(BaseId(c)[1])
          BY DeliveryAssumption DEF BaseId, JobIds
        <4> QED BY <4>1, <4>2, AddOpens
      <3>3. CASE \E id \in JobIds : EvictFailed(id)
        BY <1>0, <3>3 DEF EvictFailed, NoJob, Runnable
      <3>4. CASE \E w \in Workers, id \in JobIds : TakeExpired(w, id)
        <4>1. PICK id \in JobIds :
                job' = [job EXCEPT ![id] = [job[id] EXCEPT !.state = "completed"]]
          BY <3>4 DEF TakeExpired
        <4>2. /\ \A i \in JobIds \ {id} : job'[i] = job[i]
              /\ job'[id].state = "completed"
          BY <1>0, <4>1 DEF JobRec
        <4> QED BY <4>2 DEF Runnable
      <3>5. ASSUME NEW w \in Workers, NEW id \in JobIds, Take(w, id) PROVE FALSE
        <4>1. wk'[w] = Before(id, 1) /\ wk[w].at = "idle"
          BY <1>0, <3>5 DEF Take, At
        <4> QED BY <1>3, <4>1 DEF Before
      <3> QED BY <3>1, <3>2, <3>3, <3>4, <3>5 DEF Start, EvictCompleted, Poll, SweepCampaign,
                 Aging, ManualReply, vars, OneCampaign
    <2> QED BY <1>1, <1>2, <1>3, <2>1 DEF Lines, LineOpen, Works, Posting, ActiveHasSlot, PostsUnanswered
  <1>4. CASE \E w \in Workers, id \in JobIds : Take(w, id)
    <2>1. PICK w \in Workers, id \in JobIds : Take(w, id)
      BY <1>4
    <2>2. /\ wk' = [wk EXCEPT ![w] = Before(id, 1)] /\ job[id].state = "waiting"
          /\ job' = [job EXCEPT ![id] = [job[id] EXCEPT !.state = "active"]]
      BY <2>1 DEF Take
    <2>3. /\ wk'[w].at = "read" /\ wk'[w].id = id
          /\ \A v \in Workers \ {w} : wk'[v] = wk[v]
      BY <1>0, <2>2 DEF Before
    <2>4. /\ \A i \in JobIds \ {id} : job'[i] = job[i]
          /\ job'[id].state = "active"
      BY <1>0, <2>2 DEF JobRec
    <2>5. wk[w].at = "idle"
      BY <2>1 DEF Take, At
    <2>6. \A i \in JobIds : \A s : LineOpen(i, s)' => LineOpen(i, s)
      <3> SUFFICES ASSUME NEW i \in JobIds, NEW s, LineOpen(i, s)', i # id PROVE LineOpen(i, s)
        BY <2>2 DEF LineOpen, Runnable
      <3>1. Runnable(i)' => Runnable(i)
        BY <2>4 DEF Runnable
      <3>2. ASSUME NEW v \in Workers, Works(v, i)', wk'[v].at # s
            PROVE  Works(v, i) /\ wk[v].at # s
        BY <2>3, <3>2 DEF Works
      <3> QED BY <3>1, <3>2 DEF LineOpen
    <2>7. \A c \in Comments : Posting(c)' \subseteq Posting(c)
      BY <2>3 DEF Posting, Works
    <2>8. ActiveHasSlot => ActiveHasSlot'
      <3> SUFFICES ASSUME ActiveHasSlot, NEW i \in JobIds, job'[i].state = "active"
                   PROVE  \E v \in Workers : wk'[v].at # "idle" /\ wk'[v].id = i
        BY DEF ActiveHasSlot
      <3>1. CASE i = id
        BY <2>3, <3>1
      <3>2. CASE i # id
        <4>1. PICK v \in Workers : wk[v].at # "idle" /\ wk[v].id = i
          BY <2>4, <3>2 DEF ActiveHasSlot
        <4> QED BY <2>3, <2>5, <4>1
      <3> QED BY <3>1, <3>2
    <2>9. PostsUnanswered => PostsUnanswered'
      BY <2>3 DEF PostsUnanswered
    <2>10. \A c \in Comments : \A s : Lines(c, s)' \subseteq Lines(c, s)
      BY <2>6 DEF Lines
    <2> QED BY <1>1, <1>2, <2>7, <2>8, <2>9, <2>10
  <1>5. UNCHANGED wk \/ \E w \in Workers, id \in JobIds : Take(w, id)
    BY DEF Start, TakeExpired, EvictCompleted, EvictFailed, Poll, SweepCampaign, SweepAdd,
           Webhook, Aging, ManualReply, vars
  <1>6. QED BY <1>3, <1>4, <1>5

\* A crash frees every slot and queues its job again, if it queues it at all.
LEMMA CrashLines ==
    ASSUME IInv, ActiveHasSlot, Crash, NEW c \in Comments, NEW s
    PROVE  /\ Cardinality(Lines(c, s)) \in Nat /\ Cardinality(Lines(c, s)') \in Nat
           /\ Cardinality(Lines(c, s)') <= Cardinality(Lines(c, s)) + Cardinality(Workers)
           /\ Posting(c)' = {}
           /\ ActiveHasSlot' /\ PostsUnanswered'
           /\ UNCHANGED <<dms, replies, log>> /\ Fault("crash")
  <1>0. \A w \in Workers : wk'[w].at = "idle"
    BY DEF Crash, Idle
  <1>1. \A id \in JobIds :
            /\ job[id].state # "active" => job'[id] = job[id]
            /\ job'[id].state # "active"
    <2>1. job \in [JobIds -> JobRec]
      BY DEF IInv, TypeOK, JobRec
    <2> QED BY <2>1 DEF Crash, Stalled, JobRec
  <1>2. Posting(c)' = {} /\ ActiveHasSlot' /\ PostsUnanswered'
    BY <1>0, <1>1 DEF Posting, Works, ActiveHasSlot, PostsUnanswered
  <1>3. UNCHANGED <<dms, replies, log>> /\ Fault("crash")
    BY DEF Crash, meta
  <1> DEFINE f == [w \in Workers |-> wk[w].id]
             T == {f[w] : w \in Workers}
             L == Lines(c, s)
             M == Lines(c, s)'
  <1>4. M \subseteq L \cup T
    <2> SUFFICES ASSUME NEW id \in JobIds, id \in M PROVE id \in L \cup T
      BY DEF Lines
    <2>1. id[1] = c /\ Runnable(id)'
      BY <1>0 DEF Lines, LineOpen, Works
    <2>2. CASE job[id].state = "active"
      BY <2>2 DEF ActiveHasSlot
    <2>3. CASE job[id].state # "active"
      BY <1>1, <2>1, <2>3 DEF Lines, LineOpen, Runnable
    <2> QED BY <2>2, <2>3
  <1>5. IsFiniteSet(T) /\ Cardinality(T) <= Cardinality(Workers)
    <2>1. f \in Surjection(Workers, T)
      BY DEF Surjection
    <2> QED BY <2>1, DeliveryAssumption, FS_Surjection
  <1>6. IsFiniteSet(L) /\ IsFiniteSet(M)
    BY JobsFinite, FS_Subset DEF Lines
  <1> HIDE DEF L, M, T
  <1>7. /\ Cardinality(L) \in Nat /\ Cardinality(M) \in Nat /\ Cardinality(T) \in Nat
        /\ Cardinality(L \cap T) \in Nat /\ Cardinality(Workers) \in Nat
    <2>1. IsFiniteSet(L \cap T)
      BY <1>5, FS_Subset
    <2> QED BY <1>5, <1>6, <2>1, DeliveryAssumption, FS_CardinalityType
  <1>8. /\ IsFiniteSet(L \cup T)
        /\ Cardinality(L \cup T) = Cardinality(L) + Cardinality(T) - Cardinality(L \cap T)
    BY <1>5, <1>6, FS_Union
  <1>9. Cardinality(M) <= Cardinality(L \cup T)
    BY <1>4, <1>8, FS_Subset
  <1>10. Cardinality(M) <= Cardinality(L) + Cardinality(Workers)
    BY <1>5, <1>7, <1>8, <1>9
  <1>11. QED BY <1>2, <1>3, <1>7, <1>10 DEF L, M

-----------------------------------------------------------------------------
(* The messages and the replies                                            *)

\* The messages sent, and the lines that may still send one.
DmsExplained ==
    \A c \in Comments : dms[<<1, c>>] + Cardinality(Lines(c, "sent")) <= 1 + ForgottenOrCrashed

\* The lines that may still post: once the row says replied, only those that
\* read it before.
ReplyLines(c) == IF log[<<1, c>>].replied THEN Posting(c) ELSE Lines(c, "replied")

RepliesExplained ==
    \A c \in Comments : replies[<<1, c>>] + Cardinality(ReplyLines(c)) <= 1 + ForgottenOrCrashed

LInv == ActiveHasSlot /\ PostsUnanswered /\ DmsExplained /\ RepliesExplained

\* The one pair of a comment.
LEMMA OnePair ==
    ASSUME OneCampaign
    PROVE  /\ \A c \in Comments : <<1, c>> \in Pairs
           /\ \A p \in Pairs : p = <<1, p[2]>> /\ p[2] \in Comments
           /\ \A w \in Workers : wk[w].pos \in Campaigns => Pair(w) = <<1, Comment(w)>>
  BY DEF OneCampaign, Pairs, Campaigns, Pair

\* What a step of a slot adds to the faults.
LEMMA SlotFaults ==
    ASSUME NEW w \in Workers, Campaign(w)
    PROVE  faults' = faults \/ \E f \in Faults : Fault(f)
  BY DEF Campaign, ReadLog, NoToken, CreateLog, ClashOnCreate, ReopenLog, KeepSent, PostReply,
         ReplyRejected, RecordReply, ReserveUsage, OverPlanLimit, SlotGranted, SlotBlocked,
         SlotSkipped, SlotFails, DmRejected, SendDm, RecordSent, DatabaseFails, FinishJob,
         bounds, Faults

\* A slot closes its line when it sends, and opens it again only if the answer or
\* the update of the row is lost.
LEMMA SlotDms ==
    ASSUME IInv, OneCampaign, DmsExplained, NEW w \in Workers, Campaign(w)
    PROVE  DmsExplained'
  <1>1. /\ ForgottenOrCrashed \in Nat /\ ForgottenOrCrashed' \in Nat
        /\ ForgottenOrCrashed' >= ForgottenOrCrashed
    BY SlotFaults, ForgottenGrows
  <1> SUFFICES ASSUME NEW c \in Comments
               PROVE  dms'[<<1, c>>] + Cardinality(Lines(c, "sent")') <= 1 + ForgottenOrCrashed'
    BY DEF DmsExplained
  <1> DEFINE l == Cardinality(Lines(c, "sent"))
             m == Cardinality(Lines(c, "sent")')
  <1>2. /\ l \in Nat /\ m \in Nat /\ m <= l + 1
        /\ \/ wk[w].at # "sent" \/ Comment(w) # c
           \/ UNCHANGED job /\ wk'[w].pos \notin Campaigns
           => m <= l
        /\ wk[w].at \notin {"read", "sent"} /\ wk'[w].at = "sent" /\ UNCHANGED job /\ Comment(w) = c
           => m + 1 <= l
    BY SlotLines
  <1>3. dms[<<1, c>>] \in Nat /\ dms[<<1, c>>] + l <= 1 + ForgottenOrCrashed /\ <<1, c>> \in Pairs
    BY OnePair DEF IInv, TypeOK, DmsExplained
  <1> HIDE DEF l, m
  <1>4. CASE SendDm(w)
    <2>1. wk[w].at = "send" /\ wk[w].pos \in Campaigns
      BY <1>4 DEF SendDm, At, IInv, InLoop
    <2>2. Pair(w) = <<1, Comment(w)>> /\ Pair(w) \in Pairs
      BY <2>1, OnePair, PairInLoop
    <2>3. dms' = [dms EXCEPT ![Pair(w)] = dms[Pair(w)] + 1] /\ dms \in [Pairs -> Nat]
      BY <1>4 DEF SendDm, IInv, TypeOK
    <2>4. CASE Comment(w) # c
      <3>1. dms'[<<1, c>>] = dms[<<1, c>>]
        BY <1>3, <2>2, <2>3, <2>4
      <3> QED BY <1>1, <1>2, <1>3, <2>4, <3>1 DEF l, m
    <2>5. CASE Comment(w) = c
      <3>1. dms'[<<1, c>>] = dms[<<1, c>>] + 1
        BY <1>3, <2>2, <2>3, <2>5
      <3>2. CASE Goto(w, "sent") /\ UNCHANGED <<job, log, used, faults>>
        <4>1. wk'[w].at = "sent"
          BY <3>2, GotoMoves DEF Steps
        <4>2. m + 1 <= l
          BY <1>2, <2>1, <2>5, <3>2, <4>1
        <4> QED BY <1>1, <1>2, <1>3, <3>1, <4>2 DEF l, m
      <3>3. CASE Fault("timeout") /\ SendFails(w)
        <4>1. ForgottenOrCrashed' = ForgottenOrCrashed + 1
          BY <3>3, ForgottenGrows DEF Faults
        <4>2. m <= l
          BY <1>2, <2>1
        <4> QED BY <1>1, <1>2, <1>3, <3>1, <4>1, <4>2 DEF l, m
      <3> QED BY <1>4, <3>2, <3>3 DEF SendDm
    <2> QED BY <2>4, <2>5
  <1>5. CASE RecordSent(w)
    <2>1. wk[w].pos \in Campaigns /\ UNCHANGED dms
      BY <1>5 DEF RecordSent, At, IInv, InLoop, meta
    <2>2. CASE Continue(w) /\ UNCHANGED <<job, used, faults>>
      <3>1. m <= l
        BY <1>2, <2>1, <2>2, ContinueEnds
      <3> QED BY <1>1, <1>2, <1>3, <2>1, <3>1 DEF l, m
    <2>3. CASE Fault("writeFails") /\ SendFails(w)
      <3>1. ForgottenOrCrashed' = ForgottenOrCrashed + 1
        BY <2>3, ForgottenGrows DEF Faults
      <3> QED BY <1>1, <1>2, <1>3, <2>1, <3>1 DEF l, m
    <2> QED BY <1>5, <2>2, <2>3 DEF RecordSent
  <1>6. CASE ~SendDm(w) /\ ~RecordSent(w)
    <2>1. wk[w].at # "sent" /\ UNCHANGED dms
      BY <1>6 DEF Campaign, ReadLog, NoToken, CreateLog, ClashOnCreate, ReopenLog, KeepSent, PostReply,
         ReplyRejected, RecordReply, ReserveUsage, OverPlanLimit, SlotGranted, SlotBlocked,
         SlotSkipped, SlotFails, DmRejected, DatabaseFails, FinishJob, At, meta
    <2>2. m <= l
      BY <1>2, <2>1
    <2> QED BY <1>1, <1>2, <1>3, <2>1, <2>2 DEF l, m
  <1>7. QED BY <1>4, <1>5, <1>6

\* The rows a step of a slot marks as replied.
LEMMA SlotMarksReplied ==
    ASSUME IInv, NEW w \in Workers, Campaign(w), ~RecordReply(w)
    PROVE  \A p \in Pairs : log'[p].replied = log[p].replied
  <1>0. log \in [Pairs -> LogRec]
    BY DEF IInv, TypeOK, LogRec
  <1>1. CASE UNCHANGED log
    BY <1>1
  <1>2. ASSUME NEW s \in Statuses, SetStatus(w, s) PROVE \A p \in Pairs : log'[p].replied = log[p].replied
    BY <1>0, <1>2 DEF SetStatus, LogRec
  <1>3. CASE CreateLog(w)
    <2>1. \A p \in Pairs : \/ log'[p] = log[p]
                           \/ log'[p] = [log[p] EXCEPT !.status = "PENDING", !.attempts = 1]
      BY <1>0, <1>3 DEF CreateLog
    <2> QED BY <1>0, <2>1 DEF LogRec
  <1>4. CASE ReopenLog(w)
    <2>1. \A p \in Pairs : \/ log'[p] = log[p]
                           \/ \E n : log'[p] = [log[p] EXCEPT !.status = "PENDING", !.attempts = n]
      BY <1>0, <1>4 DEF ReopenLog
    <2> QED BY <1>0, <2>1 DEF LogRec
  <1>5. QED
    BY <1>1, <1>2, <1>3, <1>4
       DEF Campaign, ReadLog, NoToken, ClashOnCreate, KeepSent, PostReply,
         ReplyRejected, ReserveUsage, OverPlanLimit, SlotGranted, SlotBlocked,
         SlotSkipped, SlotFails, DmRejected, SendDm, RecordSent, SendFails, DatabaseFails, FinishJob,
         Statuses

\* The slots that may still post below a row that says replied only leave.
LEMMA PostingShrinks ==
    ASSUME IInv, OneCampaign, NEW w \in Workers, Campaign(w), NEW c \in Comments,
           ReadLog(w) /\ Comment(w) = c => log[<<1, c>>].replied
    PROVE  /\ Posting(c)' \subseteq Posting(c)
           /\ wk[w].at = "reply" => wk[w].id \notin Posting(c)'
  <1>1. wk[w].at # "idle" /\ Moves(w)
    <2>1. CASE FinishJob(w)
      <3>1. Idle \in SlotRec
        BY DeliveryAssumption DEF SlotRec, Idle, Steps, Statuses, JobIds, Comments
      <3>2. wk \in [Workers -> SlotRec] /\ wk' = [wk EXCEPT ![w] = Idle] /\ wk[w].at = "read"
        BY <2>1 DEF IInv, TypeOK, SlotRec, FinishJob, At
      <3> QED BY <3>1, <3>2 DEF Moves
    <2>2. CASE ~FinishJob(w)
      BY <2>2, SlotStepKinds, ThrowMoves DEF Goes, Defers
    <2> QED BY <2>1, <2>2
  <1>2. wk'[w].at # "idle" => wk'[w].id = wk[w].id /\ wk[w].pos \in Campaigns
    <2>1. CASE FinishJob(w) \/ Throw(w)
      BY <2>1 DEF FinishJob, Throw, Idle, IInv, TypeOK
    <2>2. CASE ~FinishJob(w) /\ ~Throw(w)
      BY <2>2, SlotStepKinds DEF Goes, Defers
    <2> QED BY <2>1, <2>2
  <1>3. PICK own \in JobIds : own = wk[w].id
    BY DEF IInv, TypeOK
  <1>4. \A v \in Workers \ {w} : wk'[v] = wk[v]
    BY <1>1 DEF Moves
  <1>5. \A id \in JobIds \ {own} : id \in Posting(c)' => id \in Posting(c)
    BY <1>2, <1>3, <1>4 DEF Posting, Works
  <1>6. own \in Posting(c)' => own \in Posting(c) /\ wk[w].at = "mark"
    <2> SUFFICES ASSUME own \in Posting(c)' PROVE own \in Posting(c) /\ wk[w].at = "mark"
      OBVIOUS
    <2>1. PICK v \in Workers : Works(v, own)' /\ ~wk'[v].replied /\ wk'[v].at \in {"mark", "reply"}
      BY DEF Posting
    <2>2. v = w
      BY <1>1, <1>3, <1>4, <2>1 DEF Works, IInv, JobsOwned
    <2>3. Comment(w) = c
      BY <1>3 DEF Posting, Comment
    <2>4. Pair(w) = <<1, c>>
      BY <1>2, <2>1, <2>2, <2>3, OnePair
    <2>5. wk[w].at = "mark" /\ ~wk[w].replied
      BY <2>1, <2>2, <2>3, <2>4, WayToReply
    <2> QED BY <1>2, <1>3, <2>1, <2>2, <2>3, <2>5 DEF Posting, Works, Comment
  <1>7. QED
    <2>1. Posting(c)' \subseteq JobIds
      BY DEF Posting
    <2>2. wk[w].at = "reply" => own \notin Posting(c)'
      BY <1>6
    <2> QED BY <1>3, <1>5, <1>6, <2>1, <2>2

\* A slot that may post below a row has a line that may.
LEMMA PostingAreLines ==
    ASSUME NEW c \in Comments
    PROVE  /\ Posting(c) \subseteq Lines(c, "replied")
           /\ Posting(c)' \subseteq Lines(c, "replied")'
  BY DEF Posting, Lines, LineOpen

\* The same of the public replies, where the row closes all lines but those that
\* read it before.
LEMMA SlotReplies ==
    ASSUME IInv, OneCampaign, PostsUnanswered, RepliesExplained, NEW w \in Workers, Campaign(w)
    PROVE  RepliesExplained'
  <1>1. /\ ForgottenOrCrashed \in Nat /\ ForgottenOrCrashed' \in Nat
        /\ ForgottenOrCrashed' >= ForgottenOrCrashed
    BY SlotFaults, ForgottenGrows
  <1> SUFFICES ASSUME NEW c \in Comments
               PROVE  replies'[<<1, c>>] + Cardinality(ReplyLines(c)') <= 1 + ForgottenOrCrashed'
    BY DEF RepliesExplained
  <1> DEFINE L == Lines(c, "replied")
             M == Lines(c, "replied")'
             P == Posting(c)
             Q == Posting(c)'
             row == log[<<1, c>>].replied
             row2 == log'[<<1, c>>].replied
  <1>2. /\ ReplyLines(c) = IF row THEN P ELSE L
        /\ ReplyLines(c)' = IF row2 THEN Q ELSE M
    BY DEF ReplyLines
  <1>3. /\ Cardinality(L) \in Nat /\ Cardinality(M) \in Nat /\ Cardinality(M) <= Cardinality(L) + 1
        /\ \/ wk[w].at # "replied" \/ Comment(w) # c
           \/ UNCHANGED job /\ wk'[w].pos \notin Campaigns
           => Cardinality(M) <= Cardinality(L)
        /\ /\ wk[w].at \notin {"read", "replied"} /\ wk'[w].at = "replied" /\ UNCHANGED job
           /\ Comment(w) = c
           => Cardinality(M) + 1 <= Cardinality(L)
    BY SlotLines
  <1>4. P \subseteq L /\ Q \subseteq M
    BY PostingAreLines
  <1>5. /\ ReadLog(w) /\ Comment(w) = c => row
        => Q \subseteq P /\ (wk[w].at = "reply" => wk[w].id \notin Q)
    BY PostingShrinks
  <1>6. P \in SUBSET JobIds /\ Q \in SUBSET JobIds /\ L \in SUBSET JobIds /\ M \in SUBSET JobIds
    BY DEF Posting, Lines
  <1>7. /\ replies[<<1, c>>] \in Nat /\ <<1, c>> \in Pairs
        /\ replies[<<1, c>>] + Cardinality(ReplyLines(c)) <= 1 + ForgottenOrCrashed
    BY OnePair DEF IInv, TypeOK, RepliesExplained
  <1>8. wk[w].at = "reply" /\ Comment(w) = c => wk[w].id \in P
    BY DEF PostsUnanswered, Posting, Works, Comment, IInv, InLoop, TypeOK
  <1> HIDE DEF L, M, P, Q, row, row2
  <1>9. /\ Cardinality(P) \in Nat /\ Cardinality(Q) \in Nat
        /\ Cardinality(P) <= Cardinality(L)
        /\ Q \subseteq P => Cardinality(Q) <= Cardinality(P)
        /\ \A x \in P : Q \subseteq P \ {x} => Cardinality(Q) + 1 <= Cardinality(P)
    BY <1>4, <1>6, CountLines
  <1>10. CASE PostReply(w)
    <2>1. wk[w].at = "reply" /\ wk[w].pos \in Campaigns /\ ~ReadLog(w) /\ UNCHANGED log
      BY <1>10 DEF PostReply, ReadLog, At, IInv, InLoop
    <2>2. Pair(w) = <<1, Comment(w)>> /\ Pair(w) \in Pairs /\ row2 = row
      BY <2>1, OnePair, PairInLoop DEF row, row2
    <2>3. replies' = [replies EXCEPT ![Pair(w)] = replies[Pair(w)] + 1] /\ replies \in [Pairs -> Nat]
      BY <1>10 DEF PostReply, IInv, TypeOK
    <2>4. /\ Cardinality(ReplyLines(c)) \in Nat /\ Cardinality(ReplyLines(c)') \in Nat
          /\ Cardinality(ReplyLines(c)') <= Cardinality(ReplyLines(c))
      BY <1>2, <1>3, <1>5, <1>9, <2>1, <2>2
    <2>5. CASE Comment(w) # c
      <3>1. replies'[<<1, c>>] = replies[<<1, c>>]
        BY <1>7, <2>2, <2>3, <2>5
      <3> QED BY <1>1, <1>7, <2>4, <3>1
    <2>6. CASE Comment(w) = c
      <3>1. replies'[<<1, c>>] = replies[<<1, c>>] + 1
        BY <1>7, <2>2, <2>3, <2>6
      <3>2. CASE Goto(w, "replied") /\ UNCHANGED faults
        <4>1. wk'[w].at = "replied" /\ UNCHANGED job
          BY <1>10, <3>2, GotoMoves DEF Steps, PostReply
        <4>2. Cardinality(M) + 1 <= Cardinality(L)
          BY <1>3, <2>1, <2>6, <4>1
        <4>3. Cardinality(Q) + 1 <= Cardinality(P)
          <5>1. wk[w].id \in P /\ Q \subseteq P \ {wk[w].id}
            BY <1>5, <1>8, <2>1, <2>6
          <5> QED BY <1>9, <5>1
        <4>4. Cardinality(ReplyLines(c)') + 1 <= Cardinality(ReplyLines(c))
          BY <1>2, <2>2, <4>2, <4>3
        <4> QED BY <1>1, <1>7, <2>4, <3>1, <4>4
      <3>3. CASE Fault("timeout")
        <4>1. ForgottenOrCrashed' = ForgottenOrCrashed + 1
          BY <3>3, ForgottenGrows DEF Faults
        <4> QED BY <1>1, <1>7, <2>4, <3>1, <4>1
      <3> QED BY <1>10, <3>2, <3>3 DEF PostReply
    <2> QED BY <2>5, <2>6
  <1>11. CASE RecordReply(w)
    <2>1. /\ wk[w].pos \in Campaigns /\ ~ReadLog(w) /\ UNCHANGED replies
          /\ log \in [Pairs -> LogRec]
      BY <1>11 DEF RecordReply, ReadLog, At, IInv, InLoop, meta, TypeOK, LogRec
    <2>2. Pair(w) = <<1, Comment(w)>> /\ Pair(w) \in Pairs
      BY <2>1, OnePair, PairInLoop
    <2>3. Cardinality(Q) <= Cardinality(P)
      BY <1>5, <1>9, <2>1
    <2>4. CASE log' = [log EXCEPT ![Pair(w)].replied = TRUE] /\ UNCHANGED faults
      <3>1. CASE Comment(w) = c
        <4>1. row2 = TRUE
          BY <2>1, <2>2, <2>4, <3>1 DEF row2, LogRec
        <4>2. /\ Cardinality(ReplyLines(c)) \in Nat /\ Cardinality(ReplyLines(c)') \in Nat
              /\ Cardinality(ReplyLines(c)') <= Cardinality(ReplyLines(c))
          BY <1>2, <1>3, <1>9, <2>3, <4>1
        <4> QED BY <1>1, <1>7, <2>1, <4>2
      <3>2. CASE Comment(w) # c
        <4>1. row2 = row
          <5>1. Pair(w) # <<1, c>>
            BY <2>2, <3>2
          <5>2. log'[<<1, c>>] = log[<<1, c>>]
            BY <1>7, <2>1, <2>2, <2>4, <5>1
          <5> QED BY <5>2 DEF row, row2
        <4>2. /\ Cardinality(ReplyLines(c)) \in Nat /\ Cardinality(ReplyLines(c)') \in Nat
              /\ Cardinality(ReplyLines(c)') <= Cardinality(ReplyLines(c))
          BY <1>2, <1>3, <1>9, <2>3, <3>2, <4>1
        <4> QED BY <1>1, <1>7, <2>1, <4>2
      <3> QED BY <3>1, <3>2
    <2>5. CASE Fault("writeFails") /\ UNCHANGED log
      <3>1. ForgottenOrCrashed' = ForgottenOrCrashed + 1
        BY <2>5, ForgottenGrows DEF Faults
      <3>2. row2 = row
        BY <2>5 DEF row, row2
      <3>3. /\ Cardinality(ReplyLines(c)) \in Nat /\ Cardinality(ReplyLines(c)') \in Nat
            /\ Cardinality(ReplyLines(c)') <= Cardinality(ReplyLines(c)) + 1
        BY <1>2, <1>3, <1>9, <2>3, <3>2
      <3> QED BY <1>1, <1>7, <2>1, <3>1, <3>3
    <2> QED BY <1>11, <2>4, <2>5 DEF RecordReply
  <1>12. CASE ~PostReply(w) /\ ~RecordReply(w)
    <2>1. wk[w].at # "replied" /\ UNCHANGED replies
      BY <1>12 DEF Campaign, ReadLog, NoToken, CreateLog, ClashOnCreate, ReopenLog, KeepSent,
         ReplyRejected, ReserveUsage, OverPlanLimit, SlotGranted, SlotBlocked,
         SlotSkipped, SlotFails, DmRejected, SendDm, RecordSent, DatabaseFails, FinishJob, At, meta
    <2>2. row2 = row
      BY <1>7, <1>12, SlotMarksReplied DEF row, row2
    <2>3. /\ Cardinality(ReplyLines(c)) \in Nat /\ Cardinality(ReplyLines(c)') \in Nat
          /\ Cardinality(ReplyLines(c)') <= Cardinality(ReplyLines(c))
      BY <1>2, <1>3, <1>5, <1>9, <2>1, <2>2
    <2> QED BY <1>1, <1>7, <2>1, <2>3
  <1>13. QED BY <1>10, <1>11, <1>12

\* In the beginning every comment has the line of its base job.
LEMMA InitLines ==
    ASSUME Init, NEW c \in Comments, NEW s
    PROVE  Lines(c, s) = {BaseId(c)}
  <1>1. BaseId(c) \in JobIds /\ BaseId(c)[1] = c
    BY DeliveryAssumption DEF BaseId, JobIds
  <1>2. \A id \in JobIds : id[1] = c => (LineOpen(id, s) <=> id = BaseId(c))
    BY DEF Init, LineOpen, Runnable, Works, Idle, NoJob
  <1>3. QED BY <1>1, <1>2 DEF Lines

\* The two sums start at one.
LEMMA InitLInv == ASSUME Init, OneCampaign PROVE LInv
  <1>1. ActiveHasSlot /\ PostsUnanswered
    BY DEF Init, ActiveHasSlot, PostsUnanswered, NoJob, Idle
  <1>2. ForgottenOrCrashed = 0
    <2>1. Cardinality(Workers) \in Nat
      BY DeliveryAssumption, FS_CardinalityType
    <2> QED BY <2>1 DEF Init, ForgottenOrCrashed, Forgotten, Faults
  <1>3. \A c \in Comments : /\ dms[<<1, c>>] = 0 /\ replies[<<1, c>>] = 0 /\ ~log[<<1, c>>].replied
    BY OnePair DEF Init, NoLog
  <1>4. \A c \in Comments : \A s : Cardinality(Lines(c, s)) = 1
    BY InitLines, FS_Singleton
  <1>5. \A c \in Comments : ReplyLines(c) = Lines(c, "replied")
    BY <1>3 DEF ReplyLines
  <1>6. QED BY <1>1, <1>2, <1>3, <1>4, <1>5 DEF LInv, DmsExplained, RepliesExplained

\* The steps that send nothing: lines only close, rows are only marked.
LEMMA RestKeeps ==
    ASSUME IInv, OneCampaign, LInv,
           \/ \E id \in JobIds : Start(id) \/ EvictCompleted(id) \/ EvictFailed(id)
           \/ Poll
           \/ \E c \in Comments : Webhook(c) \/ Aging(c) \/ ManualReply(c)
           \/ UNCHANGED vars
    PROVE  LInv'
  <1>1. /\ UNCHANGED <<dms, replies, faults>>
        /\ \A p \in Pairs : log[p].replied => log'[p].replied
        /\ \A c \in Comments : \A s : Lines(c, s)' \subseteq Lines(c, s)
        /\ \A c \in Comments : Posting(c)' \subseteq Posting(c)
        /\ ActiveHasSlot' /\ PostsUnanswered'
    BY RestLines DEF LInv
  <1>2. ForgottenOrCrashed' = ForgottenOrCrashed /\ ForgottenOrCrashed \in Nat
    BY <1>1, ForgottenGrows DEF ForgottenOrCrashed, Forgotten
  <1>3. ASSUME NEW c \in Comments, NEW S \in SUBSET JobIds, NEW T \in SUBSET JobIds, T \subseteq S
        PROVE  Cardinality(S) \in Nat /\ Cardinality(T) \in Nat /\ Cardinality(T) <= Cardinality(S)
    BY <1>3, CountLines
  <1>4. \A c \in Comments : /\ dms[<<1, c>>] \in Nat /\ replies[<<1, c>>] \in Nat
    BY OnePair DEF IInv, TypeOK
  <1>5. DmsExplained'
    <2> SUFFICES ASSUME NEW c \in Comments
                 PROVE  dms'[<<1, c>>] + Cardinality(Lines(c, "sent")') <= 1 + ForgottenOrCrashed'
      BY DEF DmsExplained
    <2>1. /\ Cardinality(Lines(c, "sent")) \in Nat /\ Cardinality(Lines(c, "sent")') \in Nat
          /\ Cardinality(Lines(c, "sent")') <= Cardinality(Lines(c, "sent"))
      <3>1. Lines(c, "sent") \in SUBSET JobIds /\ Lines(c, "sent")' \in SUBSET JobIds
        BY DEF Lines
      <3> QED BY <1>1, <1>3, <3>1
    <2>2. dms[<<1, c>>] + Cardinality(Lines(c, "sent")) <= 1 + ForgottenOrCrashed
      BY DEF LInv, DmsExplained
    <2> QED BY <1>1, <1>2, <1>4, <2>1, <2>2
  <1>6. RepliesExplained'
    <2> SUFFICES ASSUME NEW c \in Comments
                 PROVE  replies'[<<1, c>>] + Cardinality(ReplyLines(c)') <= 1 + ForgottenOrCrashed'
      BY DEF RepliesExplained
    <2>1. ReplyLines(c)' \subseteq ReplyLines(c)
      <3>1. <<1, c>> \in Pairs
        BY OnePair
      <3>2. CASE log[<<1, c>>].replied
        BY <1>1, <3>1, <3>2 DEF ReplyLines
      <3>3. CASE ~log[<<1, c>>].replied
        <4>1. Posting(c)' \subseteq Lines(c, "replied")
          BY <1>1, PostingAreLines
        <4> QED BY <1>1, <3>3, <4>1 DEF ReplyLines
      <3> QED BY <3>2, <3>3
    <2>2. ReplyLines(c) \in SUBSET JobIds /\ ReplyLines(c)' \in SUBSET JobIds
      BY DEF ReplyLines, Lines, Posting
    <2>3. /\ Cardinality(ReplyLines(c)) \in Nat /\ Cardinality(ReplyLines(c)') \in Nat
          /\ Cardinality(ReplyLines(c)') <= Cardinality(ReplyLines(c))
      BY <1>3, <2>1, <2>2
    <2>4. replies[<<1, c>>] + Cardinality(ReplyLines(c)) <= 1 + ForgottenOrCrashed
      BY DEF LInv, RepliesExplained
    <2> QED BY <1>1, <1>2, <1>4, <2>3, <2>4
  <1>7. QED BY <1>1, <1>5, <1>6 DEF LInv

\* A crash opens at most one line per slot, and counts them all.
LEMMA CrashKeeps ==
    ASSUME IInv, OneCampaign, LInv, Crash
    PROVE  LInv'
  <1>1. /\ ActiveHasSlot /\ UNCHANGED <<dms, replies, log>> /\ Fault("crash")
        /\ \A c \in Comments : Posting(c)' = {}
    BY CrashLines DEF LInv, Crash, meta
  <1>2. ActiveHasSlot' /\ PostsUnanswered'
    <2>1. Comments # {}
      BY DeliveryAssumption DEF Comments
    <2> QED BY <1>1, <2>1, CrashLines
  <1>3. /\ ForgottenOrCrashed \in Nat /\ Cardinality(Workers) \in Nat
        /\ ForgottenOrCrashed' = ForgottenOrCrashed + Cardinality(Workers)
    BY <1>1, ForgottenGrows, DeliveryAssumption, FS_CardinalityType DEF Faults
  <1>4. \A c \in Comments : /\ dms[<<1, c>>] \in Nat /\ replies[<<1, c>>] \in Nat
    BY OnePair DEF IInv, TypeOK
  <1>5. \A c \in Comments : \A s :
            /\ Cardinality(Lines(c, s)) \in Nat /\ Cardinality(Lines(c, s)') \in Nat
            /\ Cardinality(Lines(c, s)') <= Cardinality(Lines(c, s)) + Cardinality(Workers)
    BY <1>1, CrashLines
  <1>6. DmsExplained'
    <2> SUFFICES ASSUME NEW c \in Comments
                 PROVE  dms'[<<1, c>>] + Cardinality(Lines(c, "sent")') <= 1 + ForgottenOrCrashed'
      BY DEF DmsExplained
    <2>1. dms[<<1, c>>] + Cardinality(Lines(c, "sent")) <= 1 + ForgottenOrCrashed
      BY DEF LInv, DmsExplained
    <2> QED BY <1>1, <1>3, <1>4, <1>5, <2>1
  <1>7. RepliesExplained'
    <2> SUFFICES ASSUME NEW c \in Comments
                 PROVE  replies'[<<1, c>>] + Cardinality(ReplyLines(c)') <= 1 + ForgottenOrCrashed'
      BY DEF RepliesExplained
    <2>1. /\ Cardinality(ReplyLines(c)) \in Nat /\ Cardinality(ReplyLines(c)') \in Nat
          /\ Cardinality(ReplyLines(c)') <= Cardinality(ReplyLines(c)) + Cardinality(Workers)
      <3>1. CASE log[<<1, c>>].replied
        <4>1. Cardinality(ReplyLines(c)') = 0
          BY <1>1, <3>1, FS_EmptySet DEF ReplyLines
        <4>2. Posting(c) \in SUBSET JobIds /\ ReplyLines(c) = Posting(c)
          BY <3>1 DEF Posting, ReplyLines
        <4>3. Cardinality(ReplyLines(c)) \in Nat
          BY <4>2, CountLines
        <4> QED BY <1>3, <4>1, <4>3
      <3>2. CASE ~log[<<1, c>>].replied
        BY <1>1, <1>5, <3>2 DEF ReplyLines
      <3> QED BY <3>1, <3>2
    <2>2. replies[<<1, c>>] + Cardinality(ReplyLines(c)) <= 1 + ForgottenOrCrashed
      BY DEF LInv, RepliesExplained
    <2> QED BY <1>1, <1>3, <1>4, <2>1, <2>2
  <1>8. QED BY <1>2, <1>6, <1>7 DEF LInv

\* The inductive step.
LEMMA NextLInv ==
    ASSUME OneCampaign
    PROVE  IInv /\ LInv /\ [Next]_vars => LInv'
  <1> SUFFICES ASSUME IInv, LInv, [Next]_vars PROVE LInv'
    OBVIOUS
  <1>1. ASSUME NEW w \in Workers, Campaign(w) PROVE LInv'
    <2>1. PostsUnanswered'
      <3> SUFFICES ASSUME NEW v \in Workers, wk'[v].at = "reply" PROVE ~wk'[v].replied
        BY DEF PostsUnanswered
      <3>1. CASE v = w
        BY <1>1, <3>1, WayToReply
      <3>2. CASE v # w
        <4>1. Moves(w)
          <5>1. CASE FinishJob(w)
            <6>1. Idle \in SlotRec
              BY DeliveryAssumption DEF SlotRec, Idle, Steps, Statuses, JobIds, Comments
            <6>2. wk \in [Workers -> SlotRec] /\ wk' = [wk EXCEPT ![w] = Idle]
              BY <5>1 DEF IInv, TypeOK, SlotRec, FinishJob
            <6> QED BY <6>1, <6>2 DEF Moves
          <5>2. CASE ~FinishJob(w)
            BY <1>1, <5>2, SlotStepKinds, ThrowMoves DEF Goes, Defers
          <5> QED BY <5>1, <5>2
        <4> QED BY <3>2, <4>1 DEF Moves, LInv, PostsUnanswered
      <3> QED BY <3>1, <3>2
    <2> QED BY <1>1, <2>1, SlotKeepsActive, SlotDms, SlotReplies DEF LInv
  <1>2. CASE Crash
    BY <1>2, CrashKeeps
  <1>3. QED BY <1>1, <1>2, RestKeeps DEF Next

-----------------------------------------------------------------------------

\* A message, or a public reply, goes out twice only where an answer was lost, the
\* update of a row failed or the process died, and then at most once more for
\* each of them (for each slot of a process that died): under every interleaving
\* of jobs, redeliveries, retries and requeues.
THEOREM RepeatsExplained == OneCampaign => (Spec => []RepeatsAreExplained)
  <1> SUFFICES ASSUME OneCampaign PROVE Spec => []RepeatsAreExplained
    OBVIOUS
  <1>1. Init => LInv
    BY InitLInv
  <1>2. IInv /\ LInv /\ [Next]_vars => LInv'
    BY NextLInv
  <1>3. IInv /\ LInv => RepeatsAreExplained
    <2> SUFFICES ASSUME IInv, LInv, NEW p \in Pairs
                 PROVE  dms[p] <= 1 + ForgottenOrCrashed /\ replies[p] <= 1 + ForgottenOrCrashed
      BY DEF RepeatsAreExplained
    <2>1. PICK c \in Comments : p = <<1, c>>
      BY OnePair
    <2>2. dms[p] \in Nat /\ replies[p] \in Nat /\ ForgottenOrCrashed \in Nat
      <3>2. faults \in [Faults -> Nat]
        BY DEF IInv, TypeOK
      <3>3. Cardinality(Workers) \in Nat
        BY DeliveryAssumption, FS_CardinalityType
      <3>4. \A m, n \in Nat : m * n \in Nat
        BY SMT
      <3>5. /\ faults["timeout"] \in Nat /\ faults["writeFails"] \in Nat
            /\ Cardinality(Workers) * faults["crash"] \in Nat
        BY <3>2, <3>3, <3>4 DEF Faults
      <3>6. ForgottenOrCrashed \in Nat
        BY <3>5 DEF ForgottenOrCrashed, Forgotten
      <3> QED BY <3>6 DEF IInv, TypeOK
    <2>3. Cardinality(Lines(c, "sent")) \in Nat /\ Cardinality(ReplyLines(c)) \in Nat
      <3>1. Lines(c, "sent") \in SUBSET JobIds /\ ReplyLines(c) \in SUBSET JobIds
        BY DEF Lines, Posting, ReplyLines
      <3> QED BY <3>1, CountLines
    <2>4. /\ dms[p] + Cardinality(Lines(c, "sent")) <= 1 + ForgottenOrCrashed
          /\ replies[p] + Cardinality(ReplyLines(c)) <= 1 + ForgottenOrCrashed
      BY <2>1 DEF LInv, DmsExplained, RepliesExplained
    <2> QED BY <2>2, <2>3, <2>4
  <1>4. QED BY <1>1, <1>2, <1>3, Invariance, PTL DEF Spec

\* One line of work per comment.
OneLine == \A c \in Comments : Cardinality(Lines(c, "none")) <= 1

\* In the beginning, after every step but a crash, and what follows from it.
LEMMA InitOneLine == Init => OneLine
  <1> SUFFICES ASSUME Init, NEW c \in Comments PROVE Cardinality(Lines(c, "none")) <= 1
    BY DEF OneLine
  <1>1. Lines(c, "none") = {BaseId(c)}
    BY InitLines
  <1>2. QED BY <1>1, FS_Singleton

\* No step starts a second line of work for a comment.
LEMMA NextOneLine ==
    ASSUME IInv, OneCampaign, "crash" \notin Events, OneLine, [Next]_vars
    PROVE  OneLine'
  <1> SUFFICES ASSUME NEW c \in Comments
               PROVE  Cardinality(Lines(c, "none")') <= 1
    BY DEF OneLine
  <1>0. Cardinality(Lines(c, "none")) <= 1
    BY DEF OneLine
  <1>1. ASSUME NEW w \in Workers, Campaign(w) PROVE Cardinality(Lines(c, "none")') <= 1
    <2>1. wk[w].at # "none"
      BY DEF IInv, TypeOK, Steps
    <2>2. /\ Cardinality(Lines(c, "none")) \in Nat /\ Cardinality(Lines(c, "none")') \in Nat
          /\ Cardinality(Lines(c, "none")') <= Cardinality(Lines(c, "none"))
      BY <1>1, <2>1, SlotLines
    <2> QED BY <1>0, <2>2
  <1>2. ~Crash
    BY DEF Crash, Fault
  <1>3. ASSUME Lines(c, "none")' \subseteq Lines(c, "none")
        PROVE  Cardinality(Lines(c, "none")') <= 1
    <2>1. Lines(c, "none") \in SUBSET JobIds /\ Lines(c, "none")' \in SUBSET JobIds
      BY DEF Lines
    <2>2. /\ Cardinality(Lines(c, "none")) \in Nat /\ Cardinality(Lines(c, "none")') \in Nat
          /\ Cardinality(Lines(c, "none")') <= Cardinality(Lines(c, "none"))
      BY <1>3, <2>1, CountLines
    <2> QED BY <1>0, <2>2
  <1>4. QED BY <1>1, <1>2, <1>3, RestLines DEF Next

\* Two slots in the loop are two lines.
LEMMA OneLineNoOverlap ==
    ASSUME IInv, OneLine
    PROVE  NoOverlap
  <1> SUFFICES ASSUME NEW v \in Workers, NEW w \in Workers, v # w,
                      wk[v].at # "idle", wk[w].at # "idle", Comment(v) = Comment(w),
                      wk[v].pos \in Campaigns, wk[w].pos \in Campaigns
               PROVE  FALSE
    BY DEF NoOverlap
  <1>1. PICK c \in Comments : c = Comment(w)
    BY PairInLoop
  <1>2. wk[v].id # wk[w].id /\ wk[v].id \in JobIds /\ wk[w].id \in JobIds
    BY DEF IInv, JobsOwned, TypeOK
  <1>3. wk[v].at # "none" /\ wk[w].at # "none"
    BY DEF IInv, TypeOK, Steps
  <1>4. wk[v].id \in Lines(c, "none") /\ wk[w].id \in Lines(c, "none")
    BY <1>1, <1>2, <1>3 DEF Lines, LineOpen, Works, Comment
  <1>5. {wk[v].id} \subseteq Lines(c, "none") \ {wk[w].id}
    BY <1>2, <1>4
  <1>6. Lines(c, "none") \in SUBSET JobIds /\ {wk[v].id} \in SUBSET JobIds
    BY <1>2 DEF Lines
  <1>7. /\ Cardinality(Lines(c, "none")) \in Nat
        /\ Cardinality({wk[v].id}) + 1 <= Cardinality(Lines(c, "none"))
    BY <1>4, <1>5, <1>6, CountLines
  <1>8. Cardinality({wk[v].id}) = 1
    BY FS_Singleton
  <1>9. QED BY <1>7, <1>8 DEF OneLine

\* No two slots work on the campaigns of one comment at once, as long as the
\* process does not die.
THEOREM SlotsDoNotOverlap ==
    OneCampaign /\ "crash" \notin Events => (Spec => []NoOverlap)
  <1> SUFFICES ASSUME OneCampaign, "crash" \notin Events PROVE Spec => []NoOverlap
    OBVIOUS
  <1>1. IInv /\ OneLine /\ [Next]_vars => OneLine'
    BY NextOneLine
  <1>2. IInv /\ OneLine => NoOverlap
    BY OneLineNoOverlap
  <1>3. QED BY InitOneLine, <1>1, <1>2, Invariance, PTL DEF Spec

-----------------------------------------------------------------------------
(* ReplyLifecycle                                                          *)

\* Nothing is forgotten: no crash, no lost answer, no failing write, and no
\* missing token that overwrites a row.
NothingForgotten ==
    OneCampaign /\ Events \cap {"crash", "timeout", "writeFails", "token"} = {}

\* What a slot knows of its row: nobody else changes it.
RowKnown(w) ==
    /\ wk[w].at = "mark" => /\ wk[w].status = log[Pair(w)].status
                           /\ wk[w].status # "SKIPPED_PLAN_LIMIT"
    /\ wk[w].at \in {"reply", "replied", "reserve", "slot", "send", "sent"}
           => log[Pair(w)].status = "PENDING"

\* What the refinement rests on.
RInv ==
    /\ IInv /\ LInv /\ OneLine /\ NoOverlap
    /\ ForgottenOrCrashed = 0
    /\ \A w \in Workers : RowKnown(w)

\* Where there is a line, there is at least one.
LEMMA SomeLine ==
    ASSUME NEW S \in SUBSET JobIds, NEW x \in S
    PROVE  Cardinality(S) \in Nat /\ Cardinality(S) >= 1
  <1>1. IsFiniteSet(S)
    BY JobsFinite, FS_Subset
  <1>2. QED BY <1>1, FS_CardinalityType, FS_EmptySet

\* A slot in the loop has not sent its message, or has just sent the only one;
\* one about to reply has not replied.
LEMMA NotYetSent ==
    ASSUME RInv, OneCampaign, NEW w \in Workers, wk[w].at # "idle", wk[w].pos \in Campaigns
    PROVE  /\ Pair(w) \in Pairs
           /\ wk[w].at # "sent" => dms[Pair(w)] = 0 /\ log[Pair(w)].status # "SENT"
           /\ wk[w].at = "sent" => dms[Pair(w)] = 1
           /\ wk[w].at = "reply" => replies[Pair(w)] = 0
  <1>1. PICK c \in Comments : c = Comment(w)
    BY PairInLoop DEF RInv
  <1>2. Pair(w) = <<1, c>> /\ Pair(w) \in Pairs
    BY <1>1, OnePair, PairInLoop DEF RInv
  <1>3. dms[<<1, c>>] \in Nat /\ replies[<<1, c>>] \in Nat
    BY <1>2 DEF RInv, IInv, TypeOK
  <1>4. /\ Lines(c, "sent") \in SUBSET JobIds /\ Lines(c, "replied") \in SUBSET JobIds
        /\ Posting(c) \in SUBSET JobIds
        /\ wk[w].id \in JobIds /\ wk[w].id[1] = c /\ Works(w, wk[w].id)
    BY <1>1 DEF Lines, Posting, RInv, IInv, TypeOK, Works, Comment
  <1>6. dms[<<1, c>>] + Cardinality(Lines(c, "sent")) <= 1
    <2>1. ForgottenOrCrashed = 0 /\ DmsExplained
      BY DEF RInv, LInv
    <2> QED BY <2>1 DEF DmsExplained
  <1>7. replies[<<1, c>>] + Cardinality(ReplyLines(c)) <= 1
    <2>1. ForgottenOrCrashed = 0 /\ RepliesExplained
      BY DEF RInv, LInv
    <2> QED BY <2>1 DEF RepliesExplained
  <1>8. CASE wk[w].at # "sent"
    <2>1. wk[w].id \in Lines(c, "sent")
      BY <1>4, <1>8 DEF Lines, LineOpen
    <2>2. dms[Pair(w)] = 0
      <3>1. Cardinality(Lines(c, "sent")) \in Nat /\ Cardinality(Lines(c, "sent")) >= 1
        BY <1>4, <2>1, SomeLine
      <3> QED BY <1>2, <1>3, <1>6, <3>1
    <2>3. log[Pair(w)].status # "SENT"
      BY <1>2, <2>2 DEF RInv, IInv, SentHasDm
    <2>4. wk[w].at = "reply" => replies[Pair(w)] = 0
      <3> SUFFICES ASSUME wk[w].at = "reply" PROVE replies[Pair(w)] = 0
        OBVIOUS
      <3>1. wk[w].id \in Posting(c)
        BY <1>4 DEF Posting, RInv, LInv, PostsUnanswered
      <3>2. wk[w].id \in ReplyLines(c) /\ ReplyLines(c) \in SUBSET JobIds
        BY <1>4, <3>1, PostingAreLines DEF ReplyLines
      <3>3. Cardinality(ReplyLines(c)) \in Nat /\ Cardinality(ReplyLines(c)) >= 1
        BY <3>2, SomeLine
      <3> QED BY <1>2, <1>3, <1>7, <3>3
    <2> QED BY <1>2, <1>8, <2>2, <2>3, <2>4
  <1>9. CASE wk[w].at = "sent"
    <2>1. dms[Pair(w)] > 0
      BY <1>9 DEF RInv, IInv, AnswerSeen
    <2>2. dms[Pair(w)] <= 1
      <3>1. Cardinality(Lines(c, "sent")) \in Nat
        BY <1>4, CountLines
      <3> QED BY <1>2, <1>3, <1>6, <3>1
    <2> QED BY <1>2, <1>3, <1>9, <2>1, <2>2
  <1>10. QED BY <1>8, <1>9

\* The others' rows are theirs: what a slot does to its own does not disturb them.
LEMMA RowsStayKnown ==
    ASSUME RInv, NEW w \in Workers, Moves(w),
           (wk[w].at # "idle" /\ wk[w].pos \in Campaigns) \/ UNCHANGED log,
           \A p \in Pairs \ {Pair(w)} : log'[p].status = log[p].status,
           RowKnown(w)'
    PROVE  \A v \in Workers : RowKnown(v)'
  <1> SUFFICES ASSUME NEW v \in Workers \ {w} PROVE RowKnown(v)'
    OBVIOUS
  <1>1. wk'[v] = wk[v] /\ Pair(v)' = Pair(v) /\ RowKnown(v)
    BY DEF Moves, Pair, Comment, RInv
  <1>2. CASE wk[v].at \in {"idle", "read"}
    BY <1>1, <1>2 DEF RowKnown
  <1>3. CASE wk[v].at \notin {"idle", "read"}
    <2>1. wk[v].pos \in Campaigns /\ Pair(v) \in Pairs
      BY <1>3, PairInLoop DEF RInv, IInv, InLoop
    <2>2. CASE UNCHANGED log
      BY <1>1, <2>2 DEF RowKnown
    <2>3. CASE wk[w].at # "idle" /\ wk[w].pos \in Campaigns
      <3>1. Comment(v) # Comment(w)
        BY <1>3, <2>1, <2>3 DEF RInv, NoOverlap
      <3>2. Pair(v) # Pair(w)
        BY <3>1 DEF Pair
      <3>3. log'[Pair(v)].status = log[Pair(v)].status
        BY <2>1, <3>2
      <3> QED BY <1>1, <3>3 DEF RowKnown
    <2> QED BY <2>2, <2>3
  <1>4. QED BY <1>2, <1>3

\* The status of one row is set, the others keep theirs.
Sets(p, s) ==
    /\ log'[p].status = s
    /\ \A q \in Pairs \ {p} : log'[q].status = log[q].status

\* The effect of SetStatus on the statuses.
LEMMA StatusIsSet ==
    ASSUME IInv, NEW w \in Workers, wk[w].pos \in Campaigns, NEW s, SetStatus(w, s)
    PROVE  Sets(Pair(w), s)
  <1>1. Pair(w) \in Pairs /\ log \in [Pairs -> LogRec]
    BY PairInLoop DEF IInv, TypeOK, LogRec
  <1>2. log' = [log EXCEPT ![Pair(w)] = [log[Pair(w)] EXCEPT !.status = s]]
    BY DEF SetStatus
  <1>3. QED BY <1>1, <1>2 DEF Sets, LogRec

Step == [Lifecycle!LifecycleNext]_<<[p \in Pairs |-> log[p].status], dms, replies>>

\* Nothing the abstract specification sees.
LEMMA Stutters ==
    ASSUME \A p \in Pairs : log'[p].status = log[p].status, UNCHANGED <<dms, replies>>
    PROVE  Step
  <1>1. [p \in Pairs |-> log'[p].status] = [p \in Pairs |-> log[p].status]
    OBVIOUS
  <1>2. QED BY <1>1 DEF Step

\* The row is opened, or the pair is given up.
LEMMA OpensOrGivesUp ==
    ASSUME NEW p \in Pairs, dms[p] = 0, UNCHANGED <<dms, replies>>,
           NEW s, Sets(p, s),
           \/ log[p].status \notin {"SENT", "SKIPPED_PLAN_LIMIT"} /\ s = "PENDING"
           \/ log[p].status = "PENDING" /\ s \in {"FAILED", "SKIPPED_RATE_LIMIT", "SKIPPED_PLAN_LIMIT"}
    PROVE  Step
  <1>1. [q \in Pairs |-> log'[q].status] = [[q \in Pairs |-> log[q].status] EXCEPT ![p] = s]
    BY DEF Sets
  <1>2. Lifecycle!Open(p) \/ Lifecycle!GiveUp(p)
    BY <1>1 DEF Lifecycle!Open, Lifecycle!GiveUp, Lifecycle!Final, Lifecycle!GivenUp
  <1>3. QED BY <1>2 DEF Step, Lifecycle!LifecycleNext

\* The message is sent, recorded, and the reply posted.
LEMMA Delivers ==
    ASSUME IInv, NEW p \in Pairs, log[p].status = "PENDING",
           \/ /\ dms[p] = 0 /\ dms' = [dms EXCEPT ![p] = @ + 1] /\ UNCHANGED <<log, replies>>
           \/ /\ dms[p] = 1 /\ Sets(p, "SENT") /\ UNCHANGED <<dms, replies>>
           \/ /\ replies[p] = 0 /\ replies' = [replies EXCEPT ![p] = @ + 1] /\ UNCHANGED <<log, dms>>
    PROVE  Step
  <1>1. CASE dms[p] = 0 /\ dms' = [dms EXCEPT ![p] = @ + 1] /\ UNCHANGED <<log, replies>>
    <2>1. Lifecycle!Deliver(p)
      BY <1>1 DEF Lifecycle!Deliver
    <2> QED BY <2>1 DEF Step, Lifecycle!LifecycleNext
  <1>2. CASE dms[p] = 1 /\ Sets(p, "SENT") /\ UNCHANGED <<dms, replies>>
    <2>1. [q \in Pairs |-> log'[q].status] = [[q \in Pairs |-> log[q].status] EXCEPT ![p] = "SENT"]
      BY <1>2 DEF Sets
    <2>2. Lifecycle!Succeed(p)
      BY <1>2, <2>1 DEF Lifecycle!Succeed
    <2> QED BY <2>2 DEF Step, Lifecycle!LifecycleNext
  <1>3. CASE replies[p] = 0 /\ replies' = [replies EXCEPT ![p] = @ + 1] /\ UNCHANGED <<log, dms>>
    <2>1. Lifecycle!Post(p)
      BY <1>3 DEF Lifecycle!Post
    <2> QED BY <2>1 DEF Step, Lifecycle!LifecycleNext
  <1>4. QED BY <1>1, <1>2, <1>3

\* Neither of the faults that forget something happens.
LEMMA NoFaults ==
    ASSUME NothingForgotten
    PROVE  /\ ~Fault("crash") /\ ~Fault("timeout") /\ ~Fault("writeFails") /\ ~Fault("token")
           /\ OneCampaign
  BY DEF NothingForgotten, Fault

\* A slot between two campaigns or without a job knows nothing.
LEMMA NothingKnown ==
    ASSUME NEW w \in Workers, wk'[w].at \in {"idle", "read"}
    PROVE  RowKnown(w)'
  BY DEF RowKnown

\* The steps of a slot up to the reservation.
LEMMA EarlyRefines ==
    ASSUME RInv, NothingForgotten, NEW w \in Workers,
           \/ ReadLog(w) \/ CreateLog(w) \/ ReopenLog(w) \/ KeepSent(w)
           \/ PostReply(w) \/ ReplyRejected(w) \/ RecordReply(w)
           \/ ClashOnCreate(w) \/ DatabaseFails(w) \/ FinishJob(w)
    PROVE  /\ Step /\ RowKnown(w)'
           /\ \A p \in Pairs \ {Pair(w)} : log'[p].status = log[p].status
  <1>0. /\ IInv /\ wk \in [Workers -> SlotRec] /\ log \in [Pairs -> LogRec] /\ OneCampaign
        /\ RowKnown(w)
    BY NoFaults DEF RInv, IInv, TypeOK, SlotRec, LogRec
  <1>1. CASE ReadLog(w)
    <2>1. UNCHANGED <<log, dms, replies>>
      BY <1>1 DEF ReadLog, meta
    <2>2. RowKnown(w)'
      <3>1. CASE Continue(w)
        BY <1>0, <1>1, <3>1, ContinueMoves, NothingKnown DEF ReadLog
      <3>2. CASE ~Continue(w)
        <4>1. /\ wk' = [wk EXCEPT ![w].at = "mark", ![w].status = log[Pair(w)].status,
                                  ![w].replied = log[Pair(w)].replied]
              /\ log[Pair(w)].status # "SKIPPED_PLAN_LIMIT"
          BY <1>1, <3>2 DEF ReadLog, NothingLeft
        <4>2. /\ wk'[w].at = "mark" /\ wk'[w].status = log[Pair(w)].status
              /\ wk'[w].id = wk[w].id /\ wk'[w].pos = wk[w].pos
          BY <1>0, <4>1 DEF SlotRec
        <4>3. Pair(w)' = Pair(w)
          BY <4>2 DEF Pair, Comment
        <4> QED BY <2>1, <4>1, <4>2, <4>3 DEF RowKnown
      <3> QED BY <3>1, <3>2
    <2> QED BY <2>1, <2>2, Stutters
  <1>2. CASE CreateLog(w) \/ ReopenLog(w)
    <2>1. /\ wk[w].at = "mark" /\ wk[w].pos \in Campaigns /\ AfterMark(w)
          /\ UNCHANGED <<dms, replies>>
      BY <1>0, <1>2 DEF CreateLog, ReopenLog, At, IInv, InLoop, meta
    <2>2. Pair(w) \in Pairs /\ dms[Pair(w)] = 0 /\ log[Pair(w)].status # "SENT"
      BY <1>0, <2>1, NotYetSent
    <2>3. log[Pair(w)].status # "SKIPPED_PLAN_LIMIT"
      BY <1>0, <2>1 DEF RowKnown
    <2>4. Sets(Pair(w), "PENDING")
      <3>1. CASE CreateLog(w)
        <4>1. log' = [log EXCEPT ![Pair(w)] =
                         [log[Pair(w)] EXCEPT !.status = "PENDING", !.attempts = 1]]
          BY <3>1 DEF CreateLog
        <4> QED BY <1>0, <2>2, <4>1 DEF Sets, LogRec
      <3>2. CASE ReopenLog(w)
        <4>1. log' = [log EXCEPT ![Pair(w)] =
                         [log[Pair(w)] EXCEPT !.status = "PENDING",
                                              !.attempts = IF @ < MAX_TOTAL_SEND_ATTEMPTS THEN @ + 1 ELSE @]]
          BY <3>2 DEF ReopenLog
        <4> QED BY <1>0, <2>2, <4>1 DEF Sets, LogRec
      <3> QED BY <1>2, <3>1, <3>2
    <2>5. Step
      BY <2>1, <2>2, <2>3, <2>4, OpensOrGivesUp
    <2>6. wk'[w].at \in {"read", "reply", "reserve"} /\ (wk'[w].at # "read" => Pair(w)' = Pair(w))
      <3>1. CASE Continue(w)
        BY <1>0, <2>1, <3>1, ContinueMoves
      <3>2. CASE Goto(w, "reply") \/ Goto(w, "reserve")
        BY <1>0, <3>2, GotoMoves DEF Steps
      <3> QED BY <2>1, <3>1, <3>2 DEF AfterMark, AfterReply
    <2>7. RowKnown(w)'
      BY <2>4, <2>6 DEF RowKnown, Sets
    <2> QED BY <2>4, <2>5, <2>7 DEF Sets
  <1>3. CASE KeepSent(w)
    <2>1. wk[w].at = "mark" /\ wk[w].pos \in Campaigns /\ log[Pair(w)].status = "SENT"
      BY <1>0, <1>3 DEF KeepSent, At, IInv, InLoop, RowKnown
    <2> QED BY <1>0, <2>1, NotYetSent
  <1>4. CASE PostReply(w) \/ ReplyRejected(w) \/ RecordReply(w)
    <2>1. /\ wk[w].at \in {"reply", "replied"} /\ wk[w].pos \in Campaigns
          /\ log[Pair(w)].status = "PENDING"
      BY <1>0, <1>4 DEF PostReply, ReplyRejected, RecordReply, At, IInv, InLoop, RowKnown
    <2>2. Pair(w) \in Pairs
      BY <1>0, <2>1, NotYetSent
    <2>3. \A p \in Pairs : log'[p].status = log[p].status
      <3>1. CASE UNCHANGED log
        BY <3>1
      <3>2. CASE log' = [log EXCEPT ![Pair(w)].replied = TRUE]
        BY <1>0, <3>2 DEF LogRec
      <3> QED BY <1>4, <3>1, <3>2 DEF PostReply, ReplyRejected, RecordReply
    <2>4. wk'[w].at \in {"read", "replied", "reserve"} /\ (wk'[w].at # "read" => Pair(w)' = Pair(w))
      <3>1. CASE Continue(w)
        BY <1>0, <2>1, <3>1, ContinueMoves
      <3>2. CASE Goto(w, "replied") \/ Goto(w, "reserve")
        BY <1>0, <3>2, GotoMoves DEF Steps
      <3> QED BY <1>4, <3>1, <3>2 DEF PostReply, ReplyRejected, RecordReply, AfterReply
    <2>5. RowKnown(w)'
      BY <2>1, <2>2, <2>3, <2>4 DEF RowKnown
    <2>6. Step
      <3>1. CASE PostReply(w)
        <4>1. wk[w].at = "reply" /\ replies' = [replies EXCEPT ![Pair(w)] = @ + 1]
              /\ UNCHANGED <<log, dms>>
          BY <3>1 DEF PostReply, At
        <4>2. replies[Pair(w)] = 0
          BY <1>0, <2>1, <4>1, NotYetSent
        <4> QED BY <1>0, <2>1, <2>2, <4>1, <4>2, Delivers
      <3>2. CASE ReplyRejected(w) \/ RecordReply(w)
        BY <2>3, <3>2, Stutters DEF ReplyRejected, RecordReply, meta
      <3> QED BY <1>4, <3>1, <3>2
    <2> QED BY <2>3, <2>5, <2>6
  <1>5. CASE ClashOnCreate(w) \/ DatabaseFails(w) \/ FinishJob(w)
    <2>1. UNCHANGED <<log, dms, replies>> /\ wk'[w] = Idle
      BY <1>0, <1>5 DEF ClashOnCreate, DatabaseFails, FinishJob, Throw, meta
    <2>2. RowKnown(w)'
      BY <2>1, NothingKnown DEF Idle
    <2> QED BY <2>1, <2>2, Stutters
  <1>6. QED BY <1>1, <1>2, <1>3, <1>4, <1>5

\* The reservation, the limiter and the send.
LEMMA LateRefines ==
    ASSUME RInv, NothingForgotten, NEW w \in Workers,
           \/ ReserveUsage(w) \/ OverPlanLimit(w)
           \/ SlotGranted(w) \/ SlotSkipped(w) \/ SlotFails(w)
           \/ \E window \in Blocks : SlotBlocked(w, window)
           \/ DmRejected(w) \/ SendDm(w) \/ RecordSent(w)
    PROVE  /\ Step /\ RowKnown(w)'
           /\ \A p \in Pairs \ {Pair(w)} : log'[p].status = log[p].status
  <1>0. /\ IInv /\ wk \in [Workers -> SlotRec] /\ log \in [Pairs -> LogRec] /\ OneCampaign
        /\ RowKnown(w)
        /\ ~Fault("timeout") /\ ~Fault("writeFails")
    BY NoFaults DEF RInv, IInv, TypeOK, SlotRec, LogRec
  <1>1. /\ wk[w].at \in {"reserve", "slot", "send", "sent"} /\ wk[w].pos \in Campaigns
        /\ log[Pair(w)].status = "PENDING"
    BY <1>0 DEF ReserveUsage, OverPlanLimit, SlotGranted, SlotSkipped, SlotFails, SlotBlocked,
                DmRejected, SendDm, RecordSent, At, IInv, InLoop, RowKnown
  <1>2. Pair(w) \in Pairs /\ (wk[w].at # "sent" => dms[Pair(w)] = 0)
                         /\ (wk[w].at = "sent" => dms[Pair(w)] = 1)
    BY <1>0, <1>1, NotYetSent
  <1>3. ASSUME NEW s \in {"slot", "send", "sent"}, Goto(w, s), UNCHANGED log PROVE RowKnown(w)'
    <2>1. wk'[w].at = s /\ Pair(w)' = Pair(w)
      BY <1>0, <1>3, GotoMoves DEF Steps
    <2> QED BY <1>1, <1>3, <2>1 DEF RowKnown
  <1>4. ASSUME Continue(w) \/ Throw(w) PROVE RowKnown(w)'
    <2>1. wk'[w].at \in {"idle", "read"}
      BY <1>0, <1>4 DEF Continue, Throw, Before, Idle
    <2> QED BY <2>1, NothingKnown
  <1>5. CASE ReserveUsage(w) \/ SlotGranted(w)
    BY <1>3, <1>5, Stutters DEF ReserveUsage, SlotGranted, meta
  <1>6. CASE OverPlanLimit(w) \/ SlotSkipped(w) \/ \E window \in Blocks : SlotBlocked(w, window)
    <2>1. PICK s \in {"PENDING", "SKIPPED_RATE_LIMIT", "SKIPPED_PLAN_LIMIT"} : SetStatus(w, s)
      BY <1>6 DEF OverPlanLimit, SlotSkipped, SlotBlocked
    <2>2. Continue(w) /\ UNCHANGED <<dms, replies>> /\ wk[w].at # "sent"
      BY <1>6 DEF OverPlanLimit, SlotSkipped, SlotBlocked, meta, At
    <2>3. Sets(Pair(w), s)
      BY <1>0, <1>1, <2>1, StatusIsSet
    <2>4. Step
      BY <1>1, <1>2, <2>2, <2>3, OpensOrGivesUp
    <2> QED BY <1>4, <2>2, <2>3, <2>4 DEF Sets
  <1>7. CASE SlotFails(w) \/ DmRejected(w)
    <2>1. SendFails(w) /\ UNCHANGED <<dms, replies>> /\ wk[w].at # "sent"
      BY <1>7 DEF SlotFails, DmRejected, meta, At
    <2>2. CASE UNCHANGED log
      BY <1>4, <2>1, <2>2, Stutters DEF SendFails
    <2>3. CASE SetStatus(w, "FAILED")
      <3>1. Sets(Pair(w), "FAILED")
        BY <1>0, <1>1, <2>3, StatusIsSet
      <3>2. Step
        BY <1>1, <1>2, <2>1, <3>1, OpensOrGivesUp
      <3> QED BY <1>4, <2>1, <3>1, <3>2 DEF Sets, SendFails
    <2> QED BY <2>1, <2>2, <2>3 DEF SendFails
  <1>8. CASE SendDm(w)
    <2>1. /\ Goto(w, "sent") /\ UNCHANGED <<log, replies>> /\ wk[w].at # "sent"
          /\ dms' = [dms EXCEPT ![Pair(w)] = @ + 1]
      BY <1>0, <1>8 DEF SendDm, At
    <2>2. Step
      BY <1>0, <1>1, <1>2, <2>1, Delivers
    <2> QED BY <1>3, <2>1, <2>2
  <1>9. CASE RecordSent(w)
    <2>1. /\ SetStatus(w, "SENT") /\ Continue(w) /\ wk[w].at = "sent" /\ UNCHANGED <<dms, replies>>
      BY <1>0, <1>9 DEF RecordSent, At, meta
    <2>2. Sets(Pair(w), "SENT")
      BY <1>0, <1>1, <2>1, StatusIsSet
    <2>3. Step
      BY <1>0, <1>1, <1>2, <2>1, <2>2, Delivers
    <2> QED BY <1>4, <2>1, <2>2, <2>3 DEF Sets
  <1>10. QED BY <1>5, <1>6, <1>7, <1>8, <1>9

\* Every other step is invisible, and leaves the slots and the statuses alone but
\* for an idle slot that takes a job.
LEMMA RestRefines ==
    ASSUME RInv, OneCampaign,
           \/ \E id \in JobIds : Start(id) \/ EvictCompleted(id) \/ EvictFailed(id)
           \/ Poll
           \/ \E c \in Comments : Webhook(c) \/ Aging(c) \/ ManualReply(c)
           \/ UNCHANGED vars
    PROVE  Step /\ (\A v \in Workers : RowKnown(v)') /\ UNCHANGED faults
  <1>1. UNCHANGED <<dms, replies, faults>>
    BY RestLines DEF RInv
  <1>2. \A p \in Pairs : log'[p].status = log[p].status
    <2>1. CASE UNCHANGED log
      BY <2>1
    <2>2. CASE \E a \in Campaigns : SweepCampaign(a)
      <3>1. log \in [Pairs -> LogRec]
        BY DEF RInv, IInv, TypeOK, LogRec
      <3>2. \A p \in Pairs : log'[p] \in {log[p], [log[p] EXCEPT !.replied = TRUE]}
        BY <2>2 DEF SweepCampaign
      <3> QED BY <3>1, <3>2 DEF LogRec
    <2> QED BY <2>1, <2>2 DEF Start, Take, TakeExpired, EvictCompleted, EvictFailed, Poll, SweepAdd,
                              Webhook, Aging, ManualReply, vars
  <1>3. \A v \in Workers : wk'[v] = wk[v] \/ wk'[v].at = "read"
    <2>1. CASE UNCHANGED wk
      BY <2>1
    <2>2. CASE \E w \in Workers, id \in JobIds : Take(w, id)
      <3>1. PICK w \in Workers, id \in JobIds : wk' = [wk EXCEPT ![w] = Before(id, 1)]
        BY <2>2 DEF Take
      <3>2. wk \in [Workers -> SlotRec]
        BY DEF RInv, IInv, TypeOK, SlotRec
      <3> QED BY <3>1, <3>2 DEF Before
    <2> QED BY <2>1, <2>2 DEF Start, TakeExpired, EvictCompleted, EvictFailed, Poll, SweepCampaign,
                              SweepAdd, Webhook, Aging, ManualReply, vars
  <1>4. ASSUME NEW v \in Workers PROVE RowKnown(v)'
    <2>1. CASE wk'[v].at = "read"
      BY <2>1, NothingKnown
    <2>2. CASE wk'[v] = wk[v] /\ wk[v].at \in {"idle", "read"}
      BY <2>2, NothingKnown
    <2>3. CASE wk'[v] = wk[v] /\ wk[v].at \notin {"idle", "read"}
      <3>1. Pair(v)' = Pair(v) /\ RowKnown(v)
        BY <2>3 DEF Pair, Comment, RInv
      <3>2. Pair(v) \in Pairs
        BY <2>3, PairInLoop DEF RInv, IInv, InLoop
      <3> QED BY <1>2, <2>3, <3>1, <3>2 DEF RowKnown
    <2> QED BY <1>3, <2>1, <2>2, <2>3
  <1>5. QED BY <1>1, <1>2, <1>4, Stutters

\* The count of what is forgotten stays at zero.
LEMMA NothingIsForgotten ==
    ASSUME RInv, NothingForgotten, NEW w \in Workers, Campaign(w)
    PROVE  ForgottenOrCrashed' = 0
  <1>1. faults \in [Faults -> Nat] /\ ForgottenOrCrashed = 0
    BY DEF RInv, IInv, TypeOK
  <1>2. CASE UNCHANGED faults
    BY <1>1, <1>2 DEF ForgottenOrCrashed, Forgotten
  <1>3. CASE \E f \in Faults : Fault(f)
    <2>1. PICK f \in Faults \ {"crash", "timeout", "writeFails"} : Fault(f)
      BY <1>3, NoFaults
    <2>2. /\ faults'["crash"] = faults["crash"] /\ faults'["timeout"] = faults["timeout"]
          /\ faults'["writeFails"] = faults["writeFails"]
      BY <1>1, <2>1 DEF Fault, Faults
    <2> QED BY <1>1, <2>2 DEF ForgottenOrCrashed, Forgotten
  <1>4. QED BY <1>2, <1>3, SlotFaults

\* The step and what it rests on.
LEMMA NextRInv ==
    ASSUME RInv, NothingForgotten, [Next]_vars
    PROVE  Step /\ RInv'
  <1>1. IInv /\ LInv /\ OneLine /\ OneCampaign /\ "crash" \notin Events
    BY NoFaults DEF RInv, NothingForgotten
  <1>2. IInv' /\ LInv' /\ OneLine'
    BY <1>1, NextIInv, NextLInv, NextOneLine
  <1>3. NoOverlap'
    BY <1>2, OneLineNoOverlap, PTL
  <1>4. ASSUME NEW w \in Workers, Campaign(w)
        PROVE  Step /\ (\A v \in Workers : RowKnown(v)') /\ ForgottenOrCrashed' = 0
    <2>1. /\ Step /\ RowKnown(w)'
          /\ \A p \in Pairs \ {Pair(w)} : log'[p].status = log[p].status
      <3>1. ~NoToken(w)
        BY NoFaults DEF NoToken
      <3> QED BY <1>4, <3>1, EarlyRefines, LateRefines DEF Campaign
    <2>2. Moves(w) /\ ((wk[w].at # "idle" /\ wk[w].pos \in Campaigns) \/ UNCHANGED log)
      <3>1. CASE FinishJob(w)
        <4>1. Idle \in SlotRec
          BY DeliveryAssumption DEF SlotRec, Idle, Steps, Statuses, JobIds, Comments
        <4>2. wk \in [Workers -> SlotRec] /\ wk' = [wk EXCEPT ![w] = Idle] /\ UNCHANGED log
          BY <1>1, <3>1 DEF IInv, TypeOK, SlotRec, FinishJob
        <4> QED BY <4>1, <4>2 DEF Moves
      <3>2. CASE ~FinishJob(w)
        BY <1>1, <1>4, <3>2, SlotStepKinds, ThrowMoves DEF Goes, Defers
      <3> QED BY <3>1, <3>2
    <2> QED BY <1>4, <2>1, <2>2, RowsStayKnown, NothingIsForgotten
  <1>5. ~Crash
    BY NoFaults DEF Crash
  <1>6. ForgottenOrCrashed = 0
    BY DEF RInv
  <1>7. ASSUME UNCHANGED faults PROVE ForgottenOrCrashed' = 0
    BY <1>6, <1>7 DEF ForgottenOrCrashed, Forgotten
  <1>8. Step /\ (\A v \in Workers : RowKnown(v)') /\ ForgottenOrCrashed' = 0
    BY <1>1, <1>4, <1>5, <1>7, RestRefines DEF Next
  <1>9. QED BY <1>2, <1>3, <1>8 DEF RInv

\* The initial states.
LEMMA InitRInv ==
    ASSUME Init, NothingForgotten
    PROVE  RInv /\ Lifecycle!LifecycleInit
  <1>1. IInv /\ LInv /\ OneLine
    BY InitIInv, InitLInv, InitOneLine, NoFaults
  <1>2. NoOverlap
    BY <1>1, OneLineNoOverlap
  <1>3. ForgottenOrCrashed = 0
    <2>1. Cardinality(Workers) \in Nat
      BY DeliveryAssumption, FS_CardinalityType
    <2> QED BY <2>1 DEF Init, ForgottenOrCrashed, Forgotten, Faults
  <1>4. \A w \in Workers : RowKnown(w)
    BY DEF Init, RowKnown, Idle
  <1>5. Lifecycle!LifecycleInit
    BY DEF Init, NoLog, Lifecycle!LifecycleInit
  <1>6. QED BY <1>1, <1>2, <1>3, <1>4, <1>5 DEF RInv

\* Where nothing is forgotten, jobs, slots, retries, requeues and sweeps together
\* are no more than ReplyLifecycle: at most one message and one public reply per
\* pair, a message only while the row is PENDING, SENT only of a delivered one,
\* SENT and SKIPPED_PLAN_LIMIT for good.
THEOREM DeliveryImplementsLifecycle == NothingForgotten => (Spec => ImplementsLifecycle)
  <1> SUFFICES ASSUME NothingForgotten PROVE Spec => ImplementsLifecycle
    OBVIOUS
  <1>1. Init => RInv /\ Lifecycle!LifecycleInit
    BY InitRInv
  <1>2. RInv /\ [Next]_vars => Step /\ RInv'
    BY NextRInv
  <1>3. QED
    BY <1>1, <1>2, PTL DEF Spec, Step, ImplementsLifecycle, Lifecycle!LifecycleSpec, Lifecycle!lifecycleVars

=============================================================================
