------------------------ MODULE WorkspaceUsageProofs ------------------------
(***************************************************************************)
(* The quota of WorkspaceUsage, for every finite set of attempts, every    *)
(* set of plan limits and every calendar; and what the workspace's row     *)
(* says of its subscription (Billing), for every number of checkouts,      *)
(* webhook requests, subscriptions and changes, with events repeated,      *)
(* reordered and overtaken.                                                *)
(***************************************************************************)
EXTENDS WorkspaceUsage, Billing, FiniteSetTheorems, TLAPS

\* What is known of an attempt in each phase: before it is counted it is not
\* charged; once counted, the period its reservation names was read before the
\* increment, so it is never later than the period it is counted in.
PhaseInv ==
    \A a \in Attempts :
        /\ pc[a] \in {"idle", "begun", "checked", "denied"} => charged[a] = 0
        /\ pc[a] = "checked" => periodStart[a] \in 1..usagePeriodStart
        /\ pc[a] = "reserved" => periodStart[a] \in 1..charged[a]
        /\ charged[a] <= usagePeriodStart
        /\ readLimit[a] <= topLimit

IInv ==
    /\ TypeOK
    /\ limit <= topLimit
    /\ PhaseInv
    /\ UsageIsExact
    /\ NeverPastTheCap
    /\ NoLeakWithinMonth

-----------------------------------------------------------------------------

\* The bill of a month is a finite set.
LEMMA ChargedFinite ==
    ASSUME NEW m PROVE IsFiniteSet(ChargedTo(m)) /\ Cardinality(ChargedTo(m)) \in Nat
  <1>1. ChargedTo(m) \subseteq Attempts
    BY DEF ChargedTo
  <1>2. QED
    BY <1>1, UsageAssumption, FS_Subset, FS_CardinalityType

\* A month nobody is charged to has an empty bill.
LEMMA NobodyCharged ==
    ASSUME NEW m, \A a \in Attempts : charged[a] # m
    PROVE  Cardinality(ChargedTo(m)) = 0
  <1>1. ChargedTo(m) = {}
    BY DEF ChargedTo
  <1>2. QED
    BY <1>1, FS_EmptySet

\* Charging an attempt that was on no bill adds one to one month's bill.
LEMMA ChargeOne ==
    ASSUME charged \in [Attempts -> 0..LastMonth],
           NEW a \in Attempts, NEW m \in Months,
           charged[a] = 0, charged' = [charged EXCEPT ![a] = m]
    PROVE  /\ Cardinality(ChargedTo(m)') = Cardinality(ChargedTo(m)) + 1
           /\ \A n \in Months : n # m => ChargedTo(n)' = ChargedTo(n)
  <1>1. ChargedTo(m)' = ChargedTo(m) \cup {a} /\ a \notin ChargedTo(m)
    BY DEF ChargedTo, Months
  <1>2. Cardinality(ChargedTo(m)') = Cardinality(ChargedTo(m)) + 1
    BY <1>1, ChargedFinite, FS_AddElement
  <1>3. \A n \in Months : n # m => ChargedTo(n)' = ChargedTo(n)
    BY DEF ChargedTo, Months
  <1>4. QED
    BY <1>2, <1>3

\* Refunding an attempt takes one off the bill it was on, and off no other.
LEMMA RefundOne ==
    ASSUME charged \in [Attempts -> 0..LastMonth],
           NEW a \in Attempts, NEW m \in Months,
           charged[a] = m, charged' = [charged EXCEPT ![a] = 0]
    PROVE  /\ Cardinality(ChargedTo(m)') = Cardinality(ChargedTo(m)) - 1
           /\ \A n \in Months : n # m => ChargedTo(n)' = ChargedTo(n)
  <1>1. ChargedTo(m)' = ChargedTo(m) \ {a} /\ a \in ChargedTo(m)
    BY DEF ChargedTo, Months
  <1>2. Cardinality(ChargedTo(m)') = Cardinality(ChargedTo(m)) - 1
    BY <1>1, ChargedFinite, FS_RemoveElement
  <1>3. \A n \in Months : n # m => ChargedTo(n)' = ChargedTo(n)
    BY DEF ChargedTo, Months
  <1>4. QED
    BY <1>2, <1>3

-----------------------------------------------------------------------------

\* The counter's exactness, with the open period given a name.
LEMMA ExactIn ==
    ASSUME NEW p
    PROVE  /\ usagePeriodStart = p =>
                (UsageIsExact <=> dmsSentThisPeriod = Cardinality(ChargedTo(p)))
           /\ usagePeriodStart' = p =>
                (UsageIsExact' <=> dmsSentThisPeriod' = Cardinality(ChargedTo(p)'))
  <1>1. usagePeriodStart = p => ChargedTo(usagePeriodStart) = ChargedTo(p)
    OBVIOUS
  <1>2. usagePeriodStart' = p => ChargedTo(usagePeriodStart)' = ChargedTo(p)'
    BY DEF ChargedTo
  <1>3. QED
    BY <1>1, <1>2 DEF UsageIsExact

\* The initial states satisfy the inductive invariant.
LEMMA InitIInv == Init => IInv
  <1> SUFFICES ASSUME Init PROVE IInv
    OBVIOUS
  <1>1. TypeOK /\ limit <= topLimit /\ PhaseInv /\ NoLeakWithinMonth
    BY UsageAssumption
    DEF Init, TypeOK, PhaseInv, NoLeakWithinMonth, Months, Phases
  <1>2. \A m \in Months : Cardinality(ChargedTo(m)) = 0
    BY NobodyCharged DEF Init, Months
  <1>3. UsageIsExact /\ NeverPastTheCap
    BY <1>1, <1>2, UsageAssumption DEF Init, UsageIsExact, NeverPastTheCap, TypeOK, Months
  <1>4. QED
    BY <1>1, <1>3 DEF IInv

\* A step that moves neither a charge nor the row keeps every bill.
LEMMA BillsUnchanged ==
    ASSUME IInv, UNCHANGED <<usagePeriodStart, dmsSentThisPeriod, charged>>,
           topLimit' \in Nat, topLimit' >= topLimit
    PROVE  UsageIsExact' /\ NeverPastTheCap'
  <1>1. \A m : ChargedTo(m)' = ChargedTo(m)
    BY DEF ChargedTo
  <1>2. UsageIsExact'
    BY <1>1 DEF IInv, UsageIsExact
  <1>3. NeverPastTheCap'
    <2> SUFFICES ASSUME NEW m \in Months PROVE Cardinality(ChargedTo(m)') <= topLimit'
      BY DEF NeverPastTheCap
    <2>1. Cardinality(ChargedTo(m)) <= topLimit
      BY DEF IInv, NeverPastTheCap
    <2>2. topLimit \in Nat
      BY UsageAssumption DEF IInv, TypeOK
    <2> QED
      BY <1>1, <2>1, <2>2, ChargedFinite
  <1>4. QED
    BY <1>2, <1>3

\* Opening a month finds its bill empty.
LEMMA BillsAtRollover ==
    ASSUME IInv, NEW m \in Months, m > usagePeriodStart,
           usagePeriodStart' = m, UNCHANGED <<charged, topLimit>>
    PROVE  Cardinality(ChargedTo(m)') = 0 /\ NeverPastTheCap'
  <1>1. \A n : ChargedTo(n)' = ChargedTo(n)
    BY DEF ChargedTo
  <1>2. \A a \in Attempts : charged[a] # m
    BY DEF IInv, PhaseInv, TypeOK, Months
  <1>3. QED
    BY <1>1, <1>2, NobodyCharged DEF IInv, NeverPastTheCap

\* The inductive step, one action at a time.
LEMMA NextIInv == IInv /\ [Next]_vars => IInv'
  <1> SUFFICES ASSUME IInv, [Next]_vars PROVE IInv'
    OBVIOUS
  <1> USE UsageAssumption
  <1>0. /\ Limits \subseteq Nat /\ topLimit \in Nat /\ limit \in Nat
        /\ \A a \in Attempts : readLimit[a] \in Nat
    <2>1. \A x \in Limits \cup {0} : x \in Nat
      OBVIOUS
    <2> QED BY <2>1 DEF IInv, TypeOK
  <1>1. ASSUME NEW a \in Attempts, BeginReserve(a) PROVE IInv'
    <2>1. TypeOK' /\ (limit <= topLimit)' /\ PhaseInv' /\ NoLeakWithinMonth'
      BY <1>1 DEF BeginReserve, IInv, TypeOK, PhaseInv, NoLeakWithinMonth,
                  Goto, rowVars, Months, Phases
    <2>2. UsageIsExact' /\ NeverPastTheCap'
      BY <1>0, <1>1, BillsUnchanged DEF BeginReserve, rowVars
    <2> QED BY <2>1, <2>2 DEF IInv
  <1>2. ASSUME NEW a \in Attempts, ReserveInFreshPeriod(a) PROVE IInv'
    <2>a. PICK m \in Months : m = monthStart[a] /\ m > usagePeriodStart
      BY <1>2 DEF ReserveInFreshPeriod, IInv, TypeOK, Months
    <2>0. m \in Months /\ m = monthStart[a] /\ m > usagePeriodStart /\ charged[a] = 0
      BY <1>2, <2>a DEF ReserveInFreshPeriod, IInv, PhaseInv
    <2>1. TypeOK' /\ (limit <= topLimit)'
      BY <1>0, <1>2, <2>0 DEF ReserveInFreshPeriod, IInv, TypeOK, Goto, Months, Phases
    <2>2. PhaseInv' /\ NoLeakWithinMonth'
      BY <1>0, <1>2, <2>0 DEF ReserveInFreshPeriod, IInv, TypeOK, PhaseInv,
                              NoLeakWithinMonth, Goto, Months, Phases
    <2>3. \A b \in Attempts : charged[b] # m
      BY <2>0 DEF IInv, PhaseInv, TypeOK, Months
    <2>4. Cardinality(ChargedTo(m)) = 0
      BY <2>3, NobodyCharged
    <2>5. CASE UNCHANGED charged
      <3>1. dmsSentThisPeriod' = 0
        <4>1. charged' # [charged EXCEPT ![a] = m]
          BY <2>0, <2>5 DEF IInv, TypeOK, Months
        <4>2. QED BY <1>2, <2>0, <4>1 DEF ReserveInFreshPeriod
      <3>2. Cardinality(ChargedTo(m)') = 0 /\ NeverPastTheCap'
        BY <1>2, <2>0, <2>5, BillsAtRollover DEF ReserveInFreshPeriod
      <3>3. UsageIsExact'
        BY <1>2, <2>0, <3>1, <3>2, ExactIn DEF ReserveInFreshPeriod
      <3> QED BY <2>1, <2>2, <3>2, <3>3 DEF IInv
    <2>6. CASE limit > 0 /\ dmsSentThisPeriod' = 1 /\ charged' = [charged EXCEPT ![a] = m]
      <3>1. /\ Cardinality(ChargedTo(m)') = Cardinality(ChargedTo(m)) + 1
            /\ \A n \in Months : n # m => ChargedTo(n)' = ChargedTo(n)
        BY <2>0, <2>6, ChargeOne DEF IInv, TypeOK
      <3>2. Cardinality(ChargedTo(m)') = 1
        BY <2>4, <3>1
      <3>3. UsageIsExact'
        BY <1>2, <2>0, <2>6, <3>2, ExactIn DEF ReserveInFreshPeriod
      <3>4. NeverPastTheCap'
        BY <1>0, <1>2, <2>6, <3>1, <3>2 DEF NeverPastTheCap, ReserveInFreshPeriod, IInv
      <3> QED BY <2>1, <2>2, <3>3, <3>4 DEF IInv
    <2> QED BY <1>2, <2>0, <2>5, <2>6 DEF ReserveInFreshPeriod
  <1>3. ASSUME NEW a \in Attempts, ReadUsage(a) PROVE IInv'
    <2>1. TypeOK' /\ (limit <= topLimit)' /\ PhaseInv' /\ NoLeakWithinMonth'
      BY <1>3 DEF ReadUsage, IInv, TypeOK, PhaseInv, NoLeakWithinMonth,
                  Goto, rowVars, Months, Phases
    <2>2. UsageIsExact' /\ NeverPastTheCap'
      BY <1>0, <1>3, BillsUnchanged DEF ReadUsage, rowVars
    <2> QED BY <2>1, <2>2 DEF IInv
  <1>4. ASSUME NEW a \in Attempts, Increment(a) PROVE IInv'
    <2>a. PICK p \in Months : p = usagePeriodStart
      BY DEF IInv, TypeOK
    <2>0. /\ p \in Months /\ p = usagePeriodStart
          /\ charged[a] = 0 /\ readLimit[a] <= topLimit /\ readLimit[a] \in Nat
      BY <1>0, <1>4, <2>a DEF Increment, IInv, PhaseInv
    <2>1. TypeOK' /\ (limit <= topLimit)' /\ PhaseInv' /\ NoLeakWithinMonth'
      BY <1>4, <2>0 DEF Increment, IInv, TypeOK, PhaseInv, NoLeakWithinMonth,
                        Goto, Months, Phases
    <2>2. CASE UNCHANGED <<dmsSentThisPeriod, charged>>
      <3>1. UsageIsExact' /\ NeverPastTheCap'
        BY <1>0, <1>4, <2>2, BillsUnchanged DEF Increment
      <3> QED BY <2>1, <3>1 DEF IInv
    <2>3. CASE /\ dmsSentThisPeriod < readLimit[a]
               /\ dmsSentThisPeriod' = dmsSentThisPeriod + 1
               /\ charged' = [charged EXCEPT ![a] = p]
      <3>1. /\ Cardinality(ChargedTo(p)') = Cardinality(ChargedTo(p)) + 1
            /\ \A n \in Months : n # p => ChargedTo(n)' = ChargedTo(n)
        BY <2>0, <2>3, ChargeOne DEF IInv, TypeOK
      <3>2. Cardinality(ChargedTo(p)') = dmsSentThisPeriod'
        BY <2>0, <2>3, <3>1, ExactIn DEF IInv
      <3>3. UsageIsExact'
        BY <1>4, <2>0, <3>2, ExactIn DEF Increment
      <3>4. dmsSentThisPeriod' <= topLimit
        BY <1>0, <2>0, <2>3 DEF IInv, TypeOK
      <3>5. NeverPastTheCap'
        BY <1>4, <3>1, <3>2, <3>4 DEF NeverPastTheCap, Increment, IInv
      <3> QED BY <2>1, <3>3, <3>5 DEF IInv
    <2> QED BY <1>4, <2>0, <2>2, <2>3 DEF Increment
  <1>5. ASSUME NEW a \in Attempts, Keep(a) \/ Crash(a) PROVE IInv'
    <2>1. TypeOK' /\ (limit <= topLimit)' /\ PhaseInv' /\ NoLeakWithinMonth'
      BY <1>5 DEF Keep, Crash, IInv, TypeOK, PhaseInv, NoLeakWithinMonth,
                  Goto, rowVars, Months, Phases
    <2>2. UsageIsExact' /\ NeverPastTheCap'
      BY <1>0, <1>5, BillsUnchanged DEF Keep, Crash, rowVars
    <2> QED BY <2>1, <2>2 DEF IInv
  <1>6. ASSUME NEW a \in Attempts, Release(a) PROVE IInv'
    <2>a. PICK p \in Months : p = usagePeriodStart
      BY DEF IInv, TypeOK
    <2>0. /\ p \in Months /\ p = usagePeriodStart /\ charged[a] \in 0..p
          /\ periodStart[a] \in 1..charged[a] /\ dmsSentThisPeriod \in Nat
      BY <1>6, <2>a DEF Release, IInv, TypeOK, PhaseInv, Months
    <2>1. p = periodStart[a] => dmsSentThisPeriod > 0
      <3>1. ASSUME p = periodStart[a] PROVE a \in ChargedTo(p)
        BY <2>0, <3>1 DEF ChargedTo, Months
      <3>2. \A m : Cardinality(ChargedTo(m)) = 0 => ChargedTo(m) = {}
        BY ChargedFinite, FS_EmptySet
      <3> QED BY <2>0, <3>1, <3>2 DEF IInv, UsageIsExact
    <2>2. CASE p = periodStart[a]
      <3>0. charged[a] = p /\ dmsSentThisPeriod' = dmsSentThisPeriod - 1
            /\ charged' = [charged EXCEPT ![a] = 0]
        BY <1>6, <2>0, <2>1, <2>2 DEF Release, Months
      <3>1. /\ Cardinality(ChargedTo(p)') = Cardinality(ChargedTo(p)) - 1
            /\ \A n \in Months : n # p => ChargedTo(n)' = ChargedTo(n)
        BY <2>0, <3>0, RefundOne DEF IInv, TypeOK
      <3>2. Cardinality(ChargedTo(p)') = dmsSentThisPeriod'
        BY <2>0, <3>0, <3>1, ExactIn DEF IInv
      <3>3. UsageIsExact'
        BY <1>6, <2>0, <3>2, ExactIn DEF Release
      <3>4. NeverPastTheCap'
        <4> SUFFICES ASSUME NEW m \in Months PROVE Cardinality(ChargedTo(m)') <= topLimit
          BY <1>6 DEF NeverPastTheCap, Release
        <4>1. Cardinality(ChargedTo(m)) <= topLimit
          BY DEF IInv, NeverPastTheCap
        <4> QED BY <1>0, <3>1, <4>1, ChargedFinite
      <3>5. TypeOK' /\ (limit <= topLimit)' /\ PhaseInv' /\ NoLeakWithinMonth'
        BY <1>6, <2>0, <2>1, <3>0
        DEF Release, IInv, TypeOK, PhaseInv, NoLeakWithinMonth, Goto, Months, Phases
      <3> QED BY <3>3, <3>4, <3>5 DEF IInv
    <2>3. CASE p # periodStart[a]
      <3>1. UNCHANGED <<usagePeriodStart, dmsSentThisPeriod, charged, topLimit>>
        BY <1>6, <2>0, <2>3 DEF Release
      <3>2. UsageIsExact' /\ NeverPastTheCap'
        BY <1>0, <3>1, BillsUnchanged
      <3>3. periodStart[a] < p
        BY <2>0, <2>3 DEF Months
      <3>4. TypeOK' /\ (limit <= topLimit)' /\ PhaseInv'
        BY <1>6, <3>1 DEF Release, IInv, TypeOK, PhaseInv, Goto, Months, Phases
      <3>5. NoLeakWithinMonth'
        BY <1>6, <2>0, <3>1, <3>3 DEF Release, IInv, NoLeakWithinMonth, Goto, TypeOK, Phases
      <3> QED BY <3>2, <3>4, <3>5 DEF IInv
    <2> QED BY <2>2, <2>3
  <1>7. ASSUME NEW m \in 1..month, ResetUsageIfNeeded(m) PROVE IInv'
    <2>0. m \in Months /\ m > usagePeriodStart
      BY <1>7 DEF ResetUsageIfNeeded, IInv, TypeOK, Months
    <2>1. TypeOK' /\ (limit <= topLimit)' /\ PhaseInv' /\ NoLeakWithinMonth'
      BY <1>7, <2>0 DEF ResetUsageIfNeeded, attemptVars, IInv, TypeOK, PhaseInv,
                        NoLeakWithinMonth, Months
    <2>2. Cardinality(ChargedTo(m)') = 0 /\ NeverPastTheCap'
      BY <1>7, <2>0, BillsAtRollover DEF ResetUsageIfNeeded
    <2>3. UsageIsExact'
      BY <1>7, <2>2 DEF ResetUsageIfNeeded, UsageIsExact
    <2> QED BY <2>1, <2>2, <2>3 DEF IInv
  <1>8. ASSUME NEW l \in Limits, ChangePlan(l) PROVE IInv'
    <2>1. topLimit' \in Nat /\ topLimit' >= topLimit /\ l <= topLimit'
      BY <1>0, <1>8 DEF ChangePlan
    <2>2. TypeOK' /\ (limit <= topLimit)' /\ PhaseInv' /\ NoLeakWithinMonth'
      BY <1>0, <1>8, <2>1 DEF ChangePlan, attemptVars, rowVars, IInv, TypeOK,
                              PhaseInv, NoLeakWithinMonth
    <2>3. UsageIsExact' /\ NeverPastTheCap'
      BY <1>8, <2>1, BillsUnchanged DEF ChangePlan, rowVars
    <2> QED BY <2>2, <2>3 DEF IInv
  <1>9. CASE NextMonth
    <2>1. TypeOK' /\ (limit <= topLimit)' /\ PhaseInv' /\ NoLeakWithinMonth'
      BY <1>9 DEF NextMonth, attemptVars, rowVars, IInv, TypeOK, PhaseInv,
                  NoLeakWithinMonth, Months
    <2>2. UsageIsExact' /\ NeverPastTheCap'
      BY <1>0, <1>9, BillsUnchanged DEF NextMonth, rowVars
    <2> QED BY <2>1, <2>2 DEF IInv
  <1>10. CASE UNCHANGED vars
    <2>1. TypeOK' /\ (limit <= topLimit)' /\ PhaseInv' /\ NoLeakWithinMonth'
      BY <1>10 DEF vars, attemptVars, rowVars, IInv, TypeOK, PhaseInv, NoLeakWithinMonth
    <2>2. UsageIsExact' /\ NeverPastTheCap'
      BY <1>0, <1>10, BillsUnchanged DEF vars, rowVars
    <2> QED BY <2>1, <2>2 DEF IInv
  <1> QED
    BY <1>1, <1>2, <1>3, <1>4, <1>5, <1>6, <1>7, <1>8, <1>9, <1>10 DEF Next, Step

\* The inductive invariant holds in every reachable state.
LEMMA Invariance == Spec => []IInv
  <1>1. QED BY InitIInv, NextIInv, PTL DEF Spec

-----------------------------------------------------------------------------

\* Type correctness of the row and of every attempt's local state.
THEOREM TypeCorrect == Spec => []TypeOK
  <1>1. IInv => TypeOK
    BY DEF IInv
  <1>2. QED BY <1>1, Invariance, PTL

\* The counter is exact and no month is billed past the largest cap.
THEOREM QuotaIsSafe == Spec => []QuotaIsKept
  <1>1. IInv => QuotaIsKept
    BY DEF IInv, QuotaIsKept
  <1>2. QED BY <1>1, Invariance, PTL

\* Within a month every refund reaches the counter.
THEOREM RefundsReachTheCounter == Spec => []NoLeakWithinMonth
  <1>1. IInv => NoLeakWithinMonth
    BY DEF IInv
  <1>2. QED BY <1>1, Invariance, PTL


\* How a step may move the period and the charges: billing one attempt,
\* refunding one of the open month, opening a month, or neither.
LEMMA StepShape ==
    ASSUME IInv, [Next]_vars
    PROVE  \/ UNCHANGED <<charged, usagePeriodStart>>
           \/ \E a \in Attempts :
                /\ charged[a] = 0
                /\ usagePeriodStart' \in usagePeriodStart..LastMonth
                /\ \/ usagePeriodStart' > usagePeriodStart
                   \/ Cardinality(ChargedTo(usagePeriodStart)) < topLimit
                /\ charged' = [charged EXCEPT ![a] = usagePeriodStart']
                /\ UNCHANGED topLimit
           \/ \E a \in Attempts :
                /\ charged[a] = usagePeriodStart
                /\ charged' = [charged EXCEPT ![a] = 0]
                /\ UNCHANGED <<usagePeriodStart, topLimit>>
           \/ /\ usagePeriodStart' \in (usagePeriodStart + 1)..LastMonth
              /\ UNCHANGED <<charged, topLimit>>
  <1> USE UsageAssumption
  <1>0. /\ Limits \subseteq Nat /\ topLimit \in Nat
        /\ \A a \in Attempts : readLimit[a] \in Nat
    <2>1. \A x \in Limits \cup {0} : x \in Nat
      OBVIOUS
    <2> QED BY <2>1 DEF IInv, TypeOK
  <1>1. ASSUME NEW a \in Attempts, ReserveInFreshPeriod(a)
        PROVE  \/ /\ charged[a] = 0
                  /\ usagePeriodStart' \in (usagePeriodStart + 1)..LastMonth
                  /\ charged' = [charged EXCEPT ![a] = usagePeriodStart']
                  /\ UNCHANGED topLimit
               \/ /\ usagePeriodStart' \in (usagePeriodStart + 1)..LastMonth
                  /\ UNCHANGED <<charged, topLimit>>
    BY <1>1 DEF ReserveInFreshPeriod, IInv, TypeOK, PhaseInv, Months
  <1>2. ASSUME NEW a \in Attempts, Increment(a)
        PROVE  \/ UNCHANGED <<charged, usagePeriodStart>>
               \/ /\ charged[a] = 0
                  /\ usagePeriodStart' = usagePeriodStart
                  /\ Cardinality(ChargedTo(usagePeriodStart)) < topLimit
                  /\ charged' = [charged EXCEPT ![a] = usagePeriodStart']
                  /\ UNCHANGED topLimit
    <2>1. readLimit[a] <= topLimit /\ charged[a] = 0
      BY <1>2 DEF Increment, IInv, PhaseInv
    <2> QED
      BY <1>0, <1>2, <2>1 DEF Increment, IInv, TypeOK, UsageIsExact
  <1>3. ASSUME NEW a \in Attempts, Release(a)
        PROVE  \/ UNCHANGED <<charged, usagePeriodStart>>
               \/ /\ charged[a] = usagePeriodStart
                  /\ charged' = [charged EXCEPT ![a] = 0]
                  /\ UNCHANGED <<usagePeriodStart, topLimit>>
    BY <1>3 DEF Release, IInv, TypeOK, PhaseInv, Months
  <1>4. ASSUME NEW m \in 1..month, ResetUsageIfNeeded(m)
        PROVE  /\ usagePeriodStart' \in (usagePeriodStart + 1)..LastMonth
               /\ UNCHANGED <<charged, topLimit>>
    BY <1>4 DEF ResetUsageIfNeeded, IInv, TypeOK, Months
  <1>5. ASSUME NEW a \in Attempts,
               BeginReserve(a) \/ ReadUsage(a) \/ Keep(a) \/ Crash(a)
        PROVE  UNCHANGED <<charged, usagePeriodStart>>
    BY <1>5 DEF BeginReserve, ReadUsage, Keep, Crash, rowVars
  <1>6. ASSUME (\E l \in Limits : ChangePlan(l)) \/ NextMonth \/ UNCHANGED vars
        PROVE  UNCHANGED <<charged, usagePeriodStart>>
    BY <1>6 DEF ChangePlan, NextMonth, rowVars, vars
  <1>7. usagePeriodStart \in usagePeriodStart..LastMonth
    BY DEF IInv, TypeOK, Months
  <1>8. ASSUME NEW n \in (usagePeriodStart + 1)..LastMonth
        PROVE  n \in usagePeriodStart..LastMonth /\ n > usagePeriodStart
    BY <1>8 DEF IInv, TypeOK, Months
  <1> QED
    BY <1>1, <1>2, <1>3, <1>4, <1>5, <1>6, <1>7, <1>8 DEF Next, Step

\* The period never goes back, and a closed month's bill never changes.
THEOREM ClosedMonthsStayClosed == Spec => ClosedMonthsAreFinal
  <1>1. ASSUME IInv, [Next]_vars
        PROVE  /\ usagePeriodStart' >= usagePeriodStart
               /\ \A m \in 1..(usagePeriodStart - 1) : ChargedTo(m)' = ChargedTo(m)
    <2>0. usagePeriodStart \in Months /\ charged \in [Attempts -> 0..LastMonth]
      BY <1>1 DEF IInv, TypeOK
    <2>1. usagePeriodStart' >= usagePeriodStart
      BY <1>1, <2>0, StepShape, UsageAssumption DEF Months
    <2>2. ASSUME NEW m \in 1..(usagePeriodStart - 1) PROVE ChargedTo(m)' = ChargedTo(m)
      <3>1. \A a \in Attempts : charged'[a] = m <=> charged[a] = m
        BY <1>1, <2>0, StepShape, UsageAssumption DEF Months
      <3> QED BY <3>1 DEF ChargedTo
    <2> QED BY <2>1, <2>2
  <1>2. QED
    BY <1>1, Invariance, PTL DEF Spec, ClosedMonthsAreFinal

\* The conditional updates on the Workspace row implement the abstract ledger.
THEOREM UsageImplementsQuota == Spec => ImplementsQuota
  <1>1. Init => Quota!QuotaInit
    BY UsageAssumption DEF Init, Quota!QuotaInit, Months
  <1>2. ASSUME IInv, [Next]_vars
        PROVE  [Quota!QuotaNext]_<<charged, usagePeriodStart, topLimit>>
    <2>0. \A m : Quota!BilledTo(m) = ChargedTo(m)
      BY DEF Quota!BilledTo, ChargedTo
    <2>1. ASSUME UNCHANGED <<charged, usagePeriodStart>>, topLimit' # topLimit
          PROVE  Quota!RaiseCap
      <3>1. PICK l \in Limits : ChangePlan(l)
        BY <1>2, <2>1 DEF Next, Step, BeginReserve, ReserveInFreshPeriod, ReadUsage, Increment,
                          Keep, Release, Crash, ResetUsageIfNeeded, NextMonth, vars
      <3> QED BY <2>1, <3>1 DEF ChangePlan, Quota!RaiseCap
    <2>2. ASSUME NEW a \in Attempts,
                 charged[a] = 0,
                 usagePeriodStart' \in usagePeriodStart..LastMonth,
                 \/ usagePeriodStart' > usagePeriodStart
                 \/ Cardinality(ChargedTo(usagePeriodStart)) < topLimit,
                 charged' = [charged EXCEPT ![a] = usagePeriodStart'],
                 UNCHANGED topLimit
          PROVE  Quota!Bill(a)
      BY <2>2 DEF Quota!Bill, Quota!BilledTo, ChargedTo, Quota!Cardinality, Cardinality
    <2>3. ASSUME NEW a \in Attempts,
                 charged[a] = usagePeriodStart,
                 charged' = [charged EXCEPT ![a] = 0],
                 UNCHANGED <<usagePeriodStart, topLimit>>
          PROVE  Quota!Refund(a)
      BY <2>3 DEF Quota!Refund
    <2>4. ASSUME usagePeriodStart' \in (usagePeriodStart + 1)..LastMonth,
                 UNCHANGED <<charged, topLimit>>
          PROVE  Quota!OpenMonth
      BY <2>4 DEF Quota!OpenMonth
    <2> QED
      BY <1>2, <2>1, <2>2, <2>3, <2>4, StepShape DEF Quota!QuotaNext
  <1>3. QED
    BY <1>1, <1>2, Invariance, PTL DEF Spec, ImplementsQuota, Quota!QuotaSpec, Quota!quotaVars

-----------------------------------------------------------------------------
(* The subscription: the invariant                                         *)

RowStates      == [customer : Nat, sub : 0 .. MaxSubs, plan : Plans \cup {"free"},
                   status : Statuses \cup {"none"}]
CheckoutStates == [at : {"idle", "customer", "save", "session"}, plan : Plans, customer : Nat]
SessionStates  == [at : {"none", "open", "paid"}, plan : Plans, bucket : 0 .. LastBucket,
                   version : 0 .. MaxChanges + 1, status : Statuses]
HandlerStates  == [at : {"idle", "retrieve", "read", "write"}, sub : 0 .. MaxSubs,
                   version : 0 .. MaxChanges + 1, status : Statuses, plan : Plans,
                   from : SUBSET Event]

\* The workspace's side, Stripe's side, and what passes between them.
ShopTypes   == /\ row \in RowStates /\ (row.sub = 0 => row.plan = "free")
               /\ checkout \in [Checkouts -> CheckoutStates]
               /\ customers \in Nat /\ keyed \in 0 .. customers /\ bucket \in 0 .. LastBucket
StripeTypes == /\ session \in [Subs -> SessionStates]
               /\ changes \in 0 .. MaxChanges /\ events \subseteq Event
HookTypes   == /\ handler \in [Handlers -> HandlerStates]
               /\ handled \subseteq events /\ heard \in [Subs -> 0 .. MaxChanges + 1]
               /\ late \subseteq Subs /\ dropped \subseteq Subs

\* Stripe makes a customer once for as long as it remembers the key, and whoever
\* has read that there is none can store that one only.
OneCustomer ==
    /\ row.customer <= customers
    /\ customers <= bucket + 1 /\ (keyed = 0 => customers <= bucket)
    /\ \A c \in Checkouts :
          /\ checkout[c].at \in {"customer", "save"} => row.customer \in {0, keyed}
          /\ checkout[c].at = "save" => checkout[c].customer = keyed /\ keyed # 0

\* Nothing is bought without a customer.
BuyersHaveCustomers ==
    /\ \A c \in Checkouts : checkout[c].at = "session" => row.customer # 0
    /\ \A s \in Subs : session[s].at # "none" => row.customer # 0
    /\ row.sub # 0 => row.customer # 0

\* Some event says this of version v of subscription s.
Says(s, v, status, plan) ==
    \E e \in events : e.sub = s /\ e.version = v /\ e.status = status /\ e.plan = plan

\* A subscription that was not paid has no history; one that was is what its last
\* event says; and once canceled it stays so.
SessionsAreTold ==
    \A s \in Subs :
        /\ session[s].version <= changes + 1
        /\ session[s].at # "paid" => session[s].version = 0 /\ session[s].status = "canceled"
        /\ session[s].at = "paid" =>
              Says(s, session[s].version, session[s].status, session[s].plan)

EventsAreTrue ==
    \A e \in events :
        /\ session[e.sub].at = "paid" /\ e.version <= session[e.sub].version
        /\ e.version = session[e.sub].version =>
              e.status = session[e.sub].status /\ e.plan = session[e.sub].plan
        /\ e.status = "canceled" => session[e.sub].status = "canceled"
        /\ e.type = "deleted" => e.status = "canceled"

\* A request carries a state its subscription had, no older than its event.
HandlersAreTrue ==
    \A h \in Handlers :
        /\ handler[h].from \subseteq events
        /\ handler[h].at # "idle" => /\ handler[h].sub \in Subs
                                     /\ session[handler[h].sub].at = "paid"
        /\ \A e \in handler[h].from : e.sub = handler[h].sub /\ e.version <= handler[h].version
        /\ handler[h].at \in {"read", "write"} =>
              Says(handler[h].sub, handler[h].version, handler[h].status, handler[h].plan)

\* What was handled was heard.
HandledIsHeard ==
    /\ \A e \in handled : e.version <= heard[e.sub]
    /\ \A s \in Subs : heard[s] <= session[s].version

\* The row is what was last heard of its subscription, unless that was late.
RowIsTold ==
    row.sub # 0 /\ row.sub \notin late => Says(row.sub, heard[row.sub], row.status, row.plan)

\* A subscription that was heard of is in the row or over, unless it was dropped.
KeptOrOver ==
    \A s \in Subs \ (dropped \cup late) :
        heard[s] > 0 => row.sub = s \/ session[s].status = "canceled"

BillInv ==
    /\ ShopTypes /\ StripeTypes /\ HookTypes
    /\ OneCustomer /\ BuyersHaveCustomers
    /\ SessionsAreTold /\ EventsAreTrue /\ HandlersAreTrue
    /\ HandledIsHeard /\ RowIsTold /\ KeptOrOver

-----------------------------------------------------------------------------
(* The subscription: the steps                                             *)

\* The types, for the provers.
LEMMA BillFacts ==
    ASSUME BillInv
    PROVE  /\ row \in RowStates /\ checkout \in [Checkouts -> CheckoutStates]
           /\ customers \in Nat /\ keyed \in Nat /\ bucket \in Nat /\ row.customer \in Nat
           /\ session \in [Subs -> SessionStates] /\ handler \in [Handlers -> HandlerStates]
           /\ changes \in Nat /\ events \subseteq Event /\ handled \subseteq events
           /\ \A s \in Subs : /\ session[s] \in SessionStates /\ session[s].version \in Nat
                              /\ heard[s] \in Nat /\ s \in Nat \ {0}
           /\ \A e \in events : e \in Event /\ e.sub \in Subs /\ e.version \in Nat
           /\ \A h \in Handlers : handler[h] \in HandlerStates /\ handler[h].version \in Nat
  <1>1. /\ row \in RowStates /\ checkout \in [Checkouts -> CheckoutStates]
        /\ customers \in Nat /\ keyed \in Nat /\ bucket \in Nat
        /\ session \in [Subs -> SessionStates] /\ handler \in [Handlers -> HandlerStates]
        /\ changes \in Nat /\ events \subseteq Event /\ handled \subseteq events
        /\ heard \in [Subs -> 0 .. MaxChanges + 1]
    BY BillingAssumption DEF BillInv, ShopTypes, StripeTypes, HookTypes
  <1>2. row.customer \in Nat
    BY <1>1 DEF RowStates
  <1>3. \A s \in Subs : /\ session[s] \in SessionStates /\ session[s].version \in Nat
                        /\ heard[s] \in Nat /\ s \in Nat \ {0}
    BY <1>1, BillingAssumption DEF SessionStates, Subs
  <1>4. \A e \in events : e \in Event /\ e.sub \in Subs /\ e.version \in Nat
    BY <1>1, BillingAssumption DEF Event
  <1>5. \A h \in Handlers : handler[h] \in HandlerStates /\ handler[h].version \in Nat
    BY <1>1, BillingAssumption DEF HandlerStates
  <1>6. QED BY <1>1, <1>2, <1>3, <1>4, <1>5

\* What Stripe has told stays true while no event is sent; a session that is opened
\* has no history.
LEMMA HistoryStays ==
    ASSUME BillInv, events' = events, handler' = handler, handled' = handled, heard' = heard,
           late' = late, dropped' = dropped, changes' = changes,
           session' \in [Subs -> SessionStates],
           \A s \in Subs : \/ session'[s] = session[s]
                           \/ /\ session[s].at = "none" /\ session'[s].at = "open"
                              /\ session'[s].version = 0 /\ session'[s].status = "canceled",
           row'.sub = row.sub, row'.plan = row.plan, row'.status = row.status
    PROVE  /\ StripeTypes' /\ HookTypes' /\ SessionsAreTold' /\ EventsAreTrue'
           /\ HandlersAreTrue' /\ HandledIsHeard' /\ RowIsTold' /\ KeptOrOver'
  <1>1. StripeTypes' /\ HookTypes'
    BY DEF BillInv, StripeTypes, HookTypes
  <1>2. \A s, v, status, plan : Says(s, v, status, plan)' <=> Says(s, v, status, plan)
    BY DEF Says
  <1>3. \A s \in Subs : session[s].at = "paid" => session'[s] = session[s]
    OBVIOUS
  <1>4. SessionsAreTold'
    <2> SUFFICES ASSUME NEW s \in Subs
                 PROVE  /\ session'[s].version <= changes + 1
                        /\ session'[s].at # "paid" =>
                              session'[s].version = 0 /\ session'[s].status = "canceled"
                        /\ session'[s].at = "paid" =>
                              Says(s, session'[s].version, session'[s].status, session'[s].plan)
      BY DEF SessionsAreTold, Says
    <2> QED BY BillFacts DEF BillInv, SessionsAreTold
  <1>5. EventsAreTrue'
    BY <1>3, BillFacts DEF BillInv, EventsAreTrue
  <1>6. HandlersAreTrue'
    BY <1>2, <1>3, BillFacts DEF BillInv, HandlersAreTrue, Says
  <1>7. HandledIsHeard'
    <2>1. \A s \in Subs : heard[s] <= session'[s].version
      <3> SUFFICES ASSUME NEW s \in Subs PROVE heard[s] <= session'[s].version
        OBVIOUS
      <3>1. heard[s] <= session[s].version
        BY DEF BillInv, HandledIsHeard
      <3>2. session[s].at # "paid" => session[s].version = 0
        BY DEF BillInv, SessionsAreTold
      <3> QED BY <3>1, <3>2
    <2> QED BY <2>1 DEF BillInv, HandledIsHeard
  <1>8. RowIsTold'
    BY <1>2 DEF BillInv, RowIsTold, Says
  <1>9. KeptOrOver'
    BY DEF BillInv, KeptOrOver
  <1>10. QED BY <1>1, <1>4, <1>5, <1>6, <1>7, <1>8, <1>9

\* A step of the shop's side.
LEMMA ShopMoves ==
    ASSUME BillInv, StripeQuiet, session' = session,
           row'.sub = row.sub, row'.plan = row.plan, row'.status = row.status,
           ShopTypes', OneCustomer', BuyersHaveCustomers'
    PROVE  BillInv'
  <1>1. /\ events' = events /\ handler' = handler /\ handled' = handled /\ heard' = heard
        /\ late' = late /\ dropped' = dropped /\ changes' = changes
    BY DEF StripeQuiet
  <1>2. session' \in [Subs -> SessionStates]
    BY BillFacts
  <1>3. QED BY <1>1, <1>2, HistoryStays DEF BillInv

\* The owner asks for a plan.
LEMMA BeginCheckoutKeeps ==
    ASSUME BillInv, NEW c \in Checkouts, NEW p \in Plans, BeginCheckout(c, p) PROVE BillInv'
  <1>1. PICK step \in {"customer", "session"} :
           step = IF row.customer = 0 THEN "customer" ELSE "session"
    OBVIOUS
  <1> DEFINE y == [at |-> step, plan |-> p, customer |-> row.customer]
  <1>2. /\ checkout' = [checkout EXCEPT ![c] = y] /\ row' = row /\ session' = session
        /\ keyed' = keyed /\ customers' = customers /\ bucket' = bucket /\ StripeQuiet
    BY <1>1 DEF BeginCheckout
  <1>3. y \in CheckoutStates
    BY BillFacts DEF CheckoutStates
  <1>4. y.at = step
    OBVIOUS
  <1> HIDE DEF y
  <1>5. /\ checkout' \in [Checkouts -> CheckoutStates] /\ checkout'[c].at = step
        /\ \A d \in Checkouts \ {c} : checkout'[d] = checkout[d]
    BY <1>2, <1>3, <1>4, BillFacts
  <1>6. ShopTypes'
    BY <1>2, <1>5 DEF BillInv, ShopTypes
  <1>7. OneCustomer'
    BY <1>1, <1>2, <1>5 DEF BillInv, OneCustomer
  <1>8. BuyersHaveCustomers'
    BY <1>1, <1>2, <1>5 DEF BillInv, BuyersHaveCustomers
  <1>9. QED BY <1>2, <1>6, <1>7, <1>8, ShopMoves

\* Stripe makes a customer only when it remembers none.
LEMMA CreateCustomerKeeps ==
    ASSUME BillInv, NEW c \in Checkouts, CreateCustomer(c) PROVE BillInv'
  <1>1. /\ checkout[c].at = "customer"
        /\ checkout' = [checkout EXCEPT ![c].at = "save", ![c].customer = keyed']
        /\ row' = row /\ session' = session /\ bucket' = bucket /\ StripeQuiet
        /\ keyed = 0 => customers' = customers + 1 /\ keyed' = customers'
        /\ keyed # 0 => customers' = customers /\ keyed' = keyed
    BY DEF CreateCustomer
  <1>2. customers' \in Nat /\ keyed' \in 0 .. customers' /\ keyed' \in Nat /\ keyed' # 0
    BY <1>1, BillFacts DEF BillInv, ShopTypes
  <1>3. /\ checkout' \in [Checkouts -> CheckoutStates]
        /\ checkout'[c].at = "save" /\ checkout'[c].customer = keyed'
        /\ \A d \in Checkouts \ {c} : checkout'[d] = checkout[d]
    <2>1. PICK k \in Nat : k = keyed'
      BY <1>2
    <2>2. checkout' = [checkout EXCEPT ![c].at = "save", ![c].customer = k]
      BY <1>1, <2>1
    <2>3. checkout \in [Checkouts -> CheckoutStates]
      BY BillFacts
    <2>4. /\ checkout' \in [Checkouts -> CheckoutStates]
          /\ checkout'[c].at = "save" /\ checkout'[c].customer = k
          /\ \A d \in Checkouts \ {c} : checkout'[d] = checkout[d]
      BY <2>2, <2>3 DEF CheckoutStates
    <2> QED BY <2>1, <2>4
  <1>4. ShopTypes'
    BY <1>1, <1>2, <1>3 DEF BillInv, ShopTypes
  <1>5. row.customer \in {0, keyed}
    BY <1>1 DEF BillInv, OneCustomer
  <1>6. keyed = 0 => \A d \in Checkouts : checkout[d].at # "save"
    BY DEF BillInv, OneCustomer
  <1>7. OneCustomer'
    <2>1. row.customer <= customers' /\ customers' <= bucket + 1
      BY <1>1, BillFacts DEF BillInv, OneCustomer
    <2>2. ASSUME NEW d \in Checkouts, checkout'[d].at \in {"customer", "save"}
          PROVE  row.customer \in {0, keyed'}
      BY <1>1, <1>5
    <2>3. ASSUME NEW d \in Checkouts, checkout'[d].at = "save"
          PROVE  checkout'[d].customer = keyed' /\ keyed' # 0
      <3>1. CASE d = c
        BY <1>2, <1>3, <3>1
      <3>2. CASE d # c
        BY <1>1, <1>3, <1>6, <2>3, <3>2 DEF BillInv, OneCustomer
      <3> QED BY <3>1, <3>2
    <2> QED BY <1>1, <1>2, <2>1, <2>2, <2>3 DEF OneCustomer
  <1>8. BuyersHaveCustomers'
    BY <1>1, <1>3 DEF BillInv, BuyersHaveCustomers
  <1>9. QED BY <1>1, <1>4, <1>7, <1>8, ShopMoves

\* The customer that is stored is the one Stripe remembers.
LEMMA SaveCustomerKeeps ==
    ASSUME BillInv, NEW c \in Checkouts, SaveCustomer(c)
    PROVE  BillInv' /\ (row.customer # 0 => row'.customer = row.customer)
  <1>1. /\ checkout[c].at = "save"
        /\ row' = [row EXCEPT !.customer = keyed] /\ keyed # 0 /\ row.customer \in {0, keyed}
        /\ checkout' = [checkout EXCEPT ![c].at = "session"]
        /\ session' = session /\ keyed' = keyed /\ customers' = customers /\ bucket' = bucket
        /\ StripeQuiet
    BY DEF SaveCustomer, StepsTo, BillInv, OneCustomer
  <1>2. /\ row' \in RowStates /\ row'.customer = keyed
        /\ row'.sub = row.sub /\ row'.plan = row.plan /\ row'.status = row.status
    BY <1>1, BillFacts DEF RowStates
  <1>3. /\ checkout' \in [Checkouts -> CheckoutStates] /\ checkout'[c].at = "session"
        /\ \A d \in Checkouts \ {c} : checkout'[d] = checkout[d]
    BY <1>1, BillFacts DEF CheckoutStates
  <1>4. ShopTypes'
    BY <1>1, <1>2, <1>3 DEF BillInv, ShopTypes
  <1>5. OneCustomer'
    <2>1. keyed <= customers
      BY DEF BillInv, ShopTypes
    <2> QED BY <1>1, <1>2, <1>3, <2>1 DEF BillInv, OneCustomer
  <1>6. BuyersHaveCustomers'
    BY <1>1, <1>2, <1>3 DEF BillInv, BuyersHaveCustomers
  <1>7. QED BY <1>1, <1>2, <1>4, <1>5, <1>6, ShopMoves

\* A checkout that fails has stored what it stored.
LEMMA CheckoutFailsKeeps ==
    ASSUME BillInv, NEW c \in Checkouts, CheckoutFails(c) PROVE BillInv'
  <1>1. /\ checkout' = [checkout EXCEPT ![c].at = "idle"] /\ row' = row /\ session' = session
        /\ keyed' = keyed /\ customers' = customers /\ bucket' = bucket /\ StripeQuiet
    BY DEF CheckoutFails, StepsTo
  <1>2. /\ checkout' \in [Checkouts -> CheckoutStates] /\ checkout'[c].at = "idle"
        /\ \A d \in Checkouts \ {c} : checkout'[d] = checkout[d]
    BY <1>1, BillFacts DEF CheckoutStates
  <1>3. ShopTypes' /\ OneCustomer' /\ BuyersHaveCustomers'
    BY <1>1, <1>2 DEF BillInv, ShopTypes, OneCustomer, BuyersHaveCustomers
  <1>4. QED BY <1>1, <1>3, ShopMoves

\* The key is forgotten only when no checkout is half way.
LEMMA TimePassesKeeps == ASSUME BillInv, TimePasses PROVE BillInv'
  <1>1. /\ bucket < LastBucket /\ bucket' = bucket + 1 /\ row' = row /\ session' = session
        /\ checkout' = checkout /\ customers' = customers /\ StripeQuiet
        /\ \/ keyed' = keyed
           \/ keyed' = 0 /\ \A c \in Checkouts : checkout[c].at = "idle"
    BY DEF TimePasses
  <1>2. ShopTypes'
    BY <1>1, BillingAssumption, BillFacts DEF BillInv, ShopTypes
  <1>3. OneCustomer'
    <2>1. row.customer <= customers /\ customers <= bucket + 1 /\ (keyed = 0 => customers <= bucket)
      BY DEF BillInv, OneCustomer
    <2>2. row.customer <= customers' /\ customers' <= bucket' + 1 /\ customers' <= bucket'
      BY <1>1, <2>1, BillFacts
    <2> QED BY <1>1, <2>2 DEF BillInv, OneCustomer
  <1>4. BuyersHaveCustomers'
    BY <1>1 DEF BillInv, BuyersHaveCustomers
  <1>5. QED BY <1>1, <1>2, <1>3, <1>4, ShopMoves

\* A session is opened for a plan, or was; nobody has paid for it yet.
LEMMA CreateSessionKeeps ==
    ASSUME BillInv, NEW c \in Checkouts, CreateSession(c) PROVE BillInv'
  <1>1. /\ checkout[c].at = "session" /\ checkout' = [checkout EXCEPT ![c].at = "idle"]
        /\ row' = row /\ keyed' = keyed /\ customers' = customers /\ bucket' = bucket /\ StripeQuiet
    BY DEF CreateSession, StepsTo
  <1>2. PICK p \in Plans : p = checkout[c].plan
    BY BillFacts DEF CheckoutStates
  <1>3. PICK y \in SessionStates :
           /\ y = [NoSession EXCEPT !.at = "open", !.plan = p, !.bucket = bucket]
           /\ y.at = "open" /\ y.version = 0 /\ y.status = "canceled"
    <2>1. Basic \in Plans
      BY BillingAssumption DEF Basic
    <2>2. bucket \in 0 .. LastBucket /\ 0 \in 0 .. MaxChanges + 1
      BY BillingAssumption DEF BillInv, ShopTypes
    <2> DEFINE x == [NoSession EXCEPT !.at = "open", !.plan = p, !.bucket = bucket]
    <2>3. x \in SessionStates /\ x.at = "open" /\ x.version = 0 /\ x.status = "canceled"
      BY <2>1, <2>2 DEF NoSession, SessionStates, Statuses
    <2> QED BY <2>3
  <1>4. \/ session' = session
        \/ \E s \in Subs : session[s].at = "none" /\ session' = [session EXCEPT ![s] = y]
    BY <1>2, <1>3 DEF CreateSession
  <1>5. /\ session' \in [Subs -> SessionStates]
        /\ \A s \in Subs : \/ session'[s] = session[s]
                           \/ /\ session[s].at = "none" /\ session'[s].at = "open"
                              /\ session'[s].version = 0 /\ session'[s].status = "canceled"
    BY <1>3, <1>4, BillFacts
  <1>6. /\ checkout' \in [Checkouts -> CheckoutStates] /\ checkout'[c].at = "idle"
        /\ \A d \in Checkouts \ {c} : checkout'[d] = checkout[d]
    BY <1>1, BillFacts DEF CheckoutStates
  <1>7. ShopTypes' /\ OneCustomer'
    BY <1>1, <1>6 DEF BillInv, ShopTypes, OneCustomer
  <1>8. BuyersHaveCustomers'
    BY <1>1, <1>5, <1>6 DEF BillInv, BuyersHaveCustomers
  <1>9. /\ events' = events /\ handler' = handler /\ handled' = handled /\ heard' = heard
        /\ late' = late /\ dropped' = dropped /\ changes' = changes
    BY <1>1 DEF StripeQuiet
  <1>10. QED BY <1>1, <1>5, <1>7, <1>8, <1>9, HistoryStays DEF BillInv

\* One more event, of a subscription that goes on to its next version.
LEMMA StripeTells ==
    ASSUME BillInv, AppQuiet, NEW s \in Subs, NEW e \in Event, e.sub = s,
           events' = events \cup {e}, session' \in [Subs -> SessionStates],
           \A t \in Subs \ {s} : session'[t] = session[t],
           session'[s].at = "paid", session'[s].version = session[s].version + 1,
           e.version = session'[s].version, e.status = session'[s].status,
           e.plan = session'[s].plan, e.type = "deleted" => e.status = "canceled",
           session[s].at # "none", session[s].at = "paid" => session[s].status # "canceled",
           changes' \in 0 .. MaxChanges, changes' >= changes,
           session'[s].version <= changes' + 1
    PROVE  BillInv'
  <1>1. /\ row' = row /\ checkout' = checkout /\ keyed' = keyed /\ customers' = customers
        /\ bucket' = bucket /\ handler' = handler /\ handled' = handled /\ heard' = heard
        /\ late' = late /\ dropped' = dropped
    BY DEF AppQuiet
  <1>2. ShopTypes' /\ OneCustomer'
    BY <1>1 DEF BillInv, ShopTypes, OneCustomer
  <1>3. StripeTypes' /\ HookTypes'
    BY <1>1, BillFacts DEF BillInv, StripeTypes, HookTypes
  <1>4. BuyersHaveCustomers'
    BY <1>1 DEF BillInv, BuyersHaveCustomers
  <1>5. \A t, v, status, plan : Says(t, v, status, plan) => Says(t, v, status, plan)'
    BY DEF Says
  <1>6. changes \in Nat /\ changes' \in Nat
    BY BillingAssumption, BillFacts
  <1>7. SessionsAreTold'
    <2> SUFFICES ASSUME NEW t \in Subs
                 PROVE  /\ session'[t].version <= changes' + 1
                        /\ session'[t].at # "paid" =>
                              session'[t].version = 0 /\ session'[t].status = "canceled"
                        /\ session'[t].at = "paid" =>
                              \E d \in events' : /\ d.sub = t /\ d.version = session'[t].version
                                                 /\ d.status = session'[t].status
                                                 /\ d.plan = session'[t].plan
      BY DEF SessionsAreTold, Says
    <2>1. CASE t = s
      BY <2>1
    <2>2. CASE t # s
      BY <1>6, <2>2, BillFacts DEF BillInv, SessionsAreTold, Says
    <2> QED BY <2>1, <2>2
  <1>8. \A d \in events : /\ session[d.sub].at = "paid" /\ d.sub \in Subs
                          /\ d.version \in Nat /\ d.version <= session[d.sub].version
    BY BillFacts DEF BillInv, EventsAreTrue
  <1>9. EventsAreTrue'
    <2> SUFFICES ASSUME NEW d \in events'
                 PROVE  /\ session'[d.sub].at = "paid" /\ d.version <= session'[d.sub].version
                        /\ d.version = session'[d.sub].version =>
                              d.status = session'[d.sub].status /\ d.plan = session'[d.sub].plan
                        /\ d.status = "canceled" => session'[d.sub].status = "canceled"
                        /\ d.type = "deleted" => d.status = "canceled"
      BY DEF EventsAreTrue
    <2>1. CASE d = e
      BY <2>1, BillFacts
    <2>2. CASE d \in events /\ d.sub = s
      <3>1. /\ d.version <= session[s].version /\ d.version \in Nat /\ session[s].version \in Nat
            /\ d.status # "canceled"
        BY <1>8, <2>2, BillFacts DEF BillInv, EventsAreTrue
      <3>2. d.version < session'[s].version
        BY <3>1
      <3>3. d.type = "deleted" => d.status = "canceled"
        BY <2>2 DEF BillInv, EventsAreTrue
      <3> QED BY <2>2, <3>1, <3>2, <3>3
    <2>3. CASE d \in events /\ d.sub # s
      <3>1. session'[d.sub] = session[d.sub]
        BY <1>8, <2>3
      <3> QED BY <2>3, <3>1 DEF BillInv, EventsAreTrue
    <2> QED BY <2>1, <2>2, <2>3
  <1>10. \A t \in Subs : session[t].at = "paid" => session'[t].at = "paid"
    OBVIOUS
  <1>11. HandlersAreTrue'
    <2> SUFFICES ASSUME NEW h \in Handlers
                 PROVE  /\ handler[h].from \subseteq events'
                        /\ handler[h].at # "idle" => /\ handler[h].sub \in Subs
                                                     /\ session'[handler[h].sub].at = "paid"
                        /\ \A d \in handler[h].from :
                              d.sub = handler[h].sub /\ d.version <= handler[h].version
                        /\ handler[h].at \in {"read", "write"} =>
                              \E d \in events' :
                                 /\ d.sub = handler[h].sub /\ d.version = handler[h].version
                                 /\ d.status = handler[h].status /\ d.plan = handler[h].plan
      BY <1>1 DEF HandlersAreTrue, Says
    <2> QED BY <1>10 DEF BillInv, HandlersAreTrue, Says
  <1>12. HandledIsHeard'
    <2>1. ASSUME NEW t \in Subs PROVE heard[t] <= session'[t].version
      <3>1. heard[t] <= session[t].version /\ heard[t] \in Nat /\ session[t].version \in Nat
        BY BillFacts DEF BillInv, HandledIsHeard
      <3>2. session'[t].version >= session[t].version
        <4>1. CASE t = s
          BY <3>1, <4>1
        <4>2. CASE t # s
          BY <3>1, <4>2
        <4> QED BY <4>1, <4>2
      <3>3. session'[t].version \in Nat
        BY <3>1
      <3> QED BY <3>1, <3>2, <3>3
    <2> QED BY <1>1, <2>1 DEF BillInv, HandledIsHeard
  <1>13. RowIsTold'
    BY <1>1, <1>5 DEF BillInv, RowIsTold, Says
  <1>14. KeptOrOver'
    <2> SUFFICES ASSUME NEW t \in Subs \ (dropped \cup late), heard[t] > 0
                 PROVE  row.sub = t \/ session'[t].status = "canceled"
      BY <1>1 DEF KeptOrOver
    <2>1. row.sub = t \/ session[t].status = "canceled"
      BY DEF BillInv, KeptOrOver
    <2>2. CASE t = s
      <3>1. heard[s] <= session[s].version /\ heard[s] \in Nat
        BY BillFacts DEF BillInv, HandledIsHeard
      <3>2. session[s].at = "paid"
        BY <2>2, <3>1 DEF BillInv, SessionsAreTold
      <3> QED BY <2>1, <2>2, <3>2
    <2>3. CASE t # s
      BY <2>1, <2>3
    <2> QED BY <2>2, <2>3
  <1>15. QED
    BY <1>2, <1>3, <1>4, <1>7, <1>9, <1>11, <1>12, <1>13, <1>14 DEF BillInv

\* A subscription begins, with its first version.
LEMMA PayKeeps == ASSUME BillInv, NEW s \in Subs, Pay(s) PROVE BillInv'
  <1>1. /\ session[s].at = "open" /\ AppQuiet /\ changes' = changes
        /\ session' = [session EXCEPT ![s].at = "paid", ![s].version = 1, ![s].status = "active"]
        /\ events' = events \cup {EventOf(s, "completed")}
    BY DEF Pay, Sends
  <1>2. /\ session[s].version = 0 /\ session \in [Subs -> SessionStates]
        /\ 1 \in 1 .. MaxChanges + 1 /\ 1 \in 0 .. MaxChanges + 1 /\ changes \in 0 .. MaxChanges
    BY <1>1, BillFacts, BillingAssumption DEF BillInv, SessionsAreTold, StripeTypes
  <1>3. /\ session' \in [Subs -> SessionStates] /\ session'[s].at = "paid"
        /\ session'[s].version = 1 /\ session'[s].status = "active"
        /\ session'[s].plan = session[s].plan /\ session[s].plan \in Plans
        /\ \A t \in Subs \ {s} : session'[t] = session[t]
    BY <1>1, <1>2 DEF SessionStates, Statuses
  <1>4. PICK e \in Event : /\ e = EventOf(s, "completed") /\ e.type = "completed" /\ e.sub = s
                           /\ e.version = session'[s].version /\ e.status = session'[s].status
                           /\ e.plan = session'[s].plan
    <2> DEFINE x == [type |-> "completed", sub |-> s, version |-> 1, status |-> "active",
                     plan |-> session[s].plan]
    <2>1. x \in Event /\ EventOf(s, "completed") = x
      BY <1>2, <1>3 DEF EventOf, Event, Statuses
    <2> QED BY <1>3, <2>1
  <1>5. session'[s].version = session[s].version + 1 /\ session'[s].version <= changes' + 1
        /\ changes' \in 0 .. MaxChanges /\ changes' >= changes
    BY <1>1, <1>2, <1>3, BillFacts
  <1>6. QED BY <1>1, <1>3, <1>4, <1>5, StripeTells

\* What is paid goes on to a next version until it is canceled.
LEMMA ChangeKeeps ==
    ASSUME BillInv, NEW s \in Subs,
           Cancel(s) \/ \E status \in Live, p \in Plans : Change(s, status, p)
    PROVE  BillInv'
  <1>1. PICK type \in {"updated", "deleted"}, status \in Statuses, p \in Plans :
           /\ type = "deleted" => status = "canceled"
           /\ session' = [session EXCEPT ![s].version = session[s].version + 1,
                                         ![s].status = status, ![s].plan = p]
           /\ events' = events \cup {EventOf(s, type)}
           /\ session[s].at = "paid" /\ session[s].status # "canceled"
           /\ changes < MaxChanges /\ changes' = changes + 1 /\ AppQuiet
    <2>1. CASE Cancel(s)
      <3> DEFINE p == session[s].plan
      <3>1. p \in Plans /\ session[s] \in SessionStates /\ "canceled" \in Statuses
        BY BillFacts DEF SessionStates, Statuses
      <3>2. session' = [session EXCEPT ![s].version = session[s].version + 1,
                                       ![s].status = "canceled"]
        BY <2>1 DEF Cancel
      <3>3. session' = [session EXCEPT ![s].version = session[s].version + 1,
                                       ![s].status = "canceled", ![s].plan = p]
        BY <3>1, <3>2, BillFacts DEF SessionStates
      <3> QED BY <2>1, <3>1, <3>3 DEF Cancel, Sends, Changes
    <2>2. ASSUME NEW status \in Live, NEW p \in Plans, Change(s, status, p)
          PROVE  /\ session' = [session EXCEPT ![s].version = session[s].version + 1,
                                               ![s].status = status, ![s].plan = p]
                 /\ events' = events \cup {EventOf(s, "updated")}
                 /\ session[s].at = "paid" /\ session[s].status # "canceled"
                 /\ changes < MaxChanges /\ changes' = changes + 1 /\ AppQuiet
                 /\ status \in Statuses
      BY <2>2 DEF Change, Sends, Changes, Live, Statuses
    <2> QED BY <2>1, <2>2
  <1>2. /\ session[s].version <= changes + 1 /\ session[s].version \in Nat
        /\ session \in [Subs -> SessionStates] /\ changes \in Nat
    BY BillFacts DEF BillInv, SessionsAreTold
  <1>3. PICK v \in 1 .. MaxChanges + 1 : v = session[s].version + 1
    BY <1>1, <1>2, BillingAssumption
  <1>4. /\ session' \in [Subs -> SessionStates] /\ session'[s].at = "paid"
        /\ session'[s].version = v /\ session'[s].status = status /\ session'[s].plan = p
        /\ \A t \in Subs \ {s} : session'[t] = session[t]
    <2>1. session' = [session EXCEPT ![s].version = v, ![s].status = status, ![s].plan = p]
      BY <1>1, <1>3
    <2>2. v \in 0 .. MaxChanges + 1
      BY <1>3, BillingAssumption
    <2>3. session' = [session EXCEPT ![s] = [session[s] EXCEPT !.version = v, !.status = status,
                                                                !.plan = p]]
      BY <1>2, <2>1
    <2>4. PICK x \in SessionStates : x = session[s]
      BY <1>2
    <2> DEFINE y == [x EXCEPT !.version = v, !.status = status, !.plan = p]
    <2>5. /\ y \in SessionStates /\ y.at = x.at /\ y.version = v /\ y.status = status
          /\ y.plan = p
      BY <2>2 DEF SessionStates
    <2>6. session' = [session EXCEPT ![s] = y]
      BY <2>3, <2>4
    <2> HIDE DEF y
    <2> QED BY <1>1, <1>2, <2>4, <2>5, <2>6
  <1>5. PICK e \in Event : /\ e = EventOf(s, type) /\ e.type = type /\ e.sub = s
                           /\ e.version = session'[s].version /\ e.status = session'[s].status
                           /\ e.plan = session'[s].plan
    <2> DEFINE x == [type |-> type, sub |-> s, version |-> v, status |-> status, plan |-> p]
    <2>1. x \in Event /\ EventOf(s, type) = x
      BY <1>4 DEF EventOf, Event
    <2> QED BY <1>4, <2>1
  <1>6. session'[s].version = session[s].version + 1 /\ session'[s].version <= changes' + 1
        /\ changes' \in 0 .. MaxChanges /\ changes' >= changes
    BY <1>1, <1>2, <1>3, <1>4, BillingAssumption
  <1>7. QED BY <1>1, <1>4, <1>5, <1>6, StripeTells

\* A request of Stripe's leaves the shop's side and Stripe's alone, and the row with
\* its customer.
LEMMA ShopStands ==
    ASSUME BillInv, ShopQuiet, row' \in RowStates, row'.customer = row.customer,
           row'.sub = 0 => row'.plan = "free",
           row'.sub # 0 => row.customer # 0
    PROVE  /\ ShopTypes' /\ StripeTypes' /\ OneCustomer' /\ BuyersHaveCustomers'
           /\ SessionsAreTold' /\ EventsAreTrue'
           /\ events' = events /\ session' = session
           /\ \A s, v, status, plan : Says(s, v, status, plan)' <=> Says(s, v, status, plan)
  <1>1. /\ checkout' = checkout /\ session' = session /\ keyed' = keyed /\ customers' = customers
        /\ changes' = changes /\ bucket' = bucket /\ events' = events
    BY DEF ShopQuiet
  <1>2. \A s, v, status, plan : Says(s, v, status, plan)' <=> Says(s, v, status, plan)
    BY <1>1 DEF Says
  <1>3. ShopTypes' /\ StripeTypes' /\ OneCustomer' /\ BuyersHaveCustomers'
    BY <1>1 DEF BillInv, ShopTypes, StripeTypes, OneCustomer, BuyersHaveCustomers
  <1>4. SessionsAreTold'
    BY <1>1 DEF BillInv, SessionsAreTold, Says
  <1>5. EventsAreTrue'
    BY <1>1 DEF BillInv, EventsAreTrue
  <1>6. QED BY <1>1, <1>2, <1>3, <1>4, <1>5

\* One request moves.
LEMMA HandlerMoves ==
    ASSUME BillInv, ShopQuiet, NEW h \in Handlers, NEW y \in HandlerStates,
           handler' = [handler EXCEPT ![h] = y],
           y.from \subseteq events,
           y.at # "idle" => y.sub \in Subs /\ session[y.sub].at = "paid",
           \A e \in y.from : e.sub = y.sub /\ e.version <= y.version,
           y.at \in {"read", "write"} => Says(y.sub, y.version, y.status, y.plan)
    PROVE  handler' \in [Handlers -> HandlerStates] /\ HandlersAreTrue'
  <1>1. /\ handler' \in [Handlers -> HandlerStates] /\ handler'[h] = y
        /\ \A g \in Handlers \ {h} : handler'[g] = handler[g]
    BY BillFacts
  <1>2. session' = session /\ events' = events
    BY DEF ShopQuiet
  <1>3. HandlersAreTrue'
    <2> SUFFICES ASSUME NEW g \in Handlers
                 PROVE  /\ handler'[g].from \subseteq events
                        /\ handler'[g].at # "idle" => /\ handler'[g].sub \in Subs
                                                      /\ session[handler'[g].sub].at = "paid"
                        /\ \A e \in handler'[g].from :
                              e.sub = handler'[g].sub /\ e.version <= handler'[g].version
                        /\ handler'[g].at \in {"read", "write"} =>
                              \E d \in events :
                                 /\ d.sub = handler'[g].sub /\ d.version = handler'[g].version
                                 /\ d.status = handler'[g].status /\ d.plan = handler'[g].plan
      BY <1>2 DEF HandlersAreTrue, Says
    <2>1. CASE g = h
      BY <1>1, <2>1 DEF Says
    <2>2. CASE g # h
      BY <1>1, <2>2 DEF BillInv, HandlersAreTrue, Says
    <2> QED BY <2>1, <2>2
  <1>4. QED BY <1>1, <1>3

\* A request that has ended carries nothing.
LEMMA EndedHandler ==
    NoHandler \in HandlerStates /\ NoHandler.at = "idle" /\ NoHandler.from = {}
  BY BillingAssumption DEF NoHandler, HandlerStates, Basic, Statuses

\* What is handled is heard, and late if something newer was heard before.
LEMMA HearsMoves ==
    ASSUME BillInv, ShopQuiet, NEW s \in Subs, NEW v \in Nat, v <= session[s].version, Hears(s, v),
           NEW E \in SUBSET events, \A e \in E : e.sub = s /\ e.version <= v,
           handled' = handled \cup E
    PROVE  /\ handled' \subseteq events' /\ heard' \in [Subs -> 0 .. MaxChanges + 1]
           /\ late' \subseteq Subs /\ late \subseteq late' /\ HandledIsHeard'
           /\ \A t \in Subs \ {s} : heard'[t] = heard[t]
           /\ s \notin late' => heard'[s] = v
  <1>1. /\ heard' = [heard EXCEPT ![s] = IF v > heard[s] THEN v ELSE heard[s]]
        /\ late' = IF v < heard[s] THEN late \cup {s} ELSE late
        /\ session' = session /\ events' = events
    BY DEF Hears, ShopQuiet
  <1>2. /\ heard \in [Subs -> 0 .. MaxChanges + 1] /\ late \subseteq Subs /\ handled \subseteq events
        /\ session[s].version \in 0 .. MaxChanges + 1 /\ MaxChanges \in Nat
    BY BillingAssumption DEF BillInv, HookTypes, StripeTypes, SessionStates
  <1>3. PICK n \in 0 .. MaxChanges + 1 : n = IF v > heard[s] THEN v ELSE heard[s]
    BY <1>2
  <1>4. /\ n >= v /\ n >= heard[s] /\ n <= session[s].version /\ (v >= heard[s] => n = v)
    <2>1. heard[s] <= session[s].version
      BY DEF BillInv, HandledIsHeard
    <2> QED BY <1>2, <1>3, <2>1
  <1>5. /\ heard' \in [Subs -> 0 .. MaxChanges + 1] /\ heard'[s] = n
        /\ \A t \in Subs \ {s} : heard'[t] = heard[t]
    BY <1>1, <1>2, <1>3
  <1>6. HandledIsHeard'
    <2>1. ASSUME NEW e \in handled \cup E PROVE e.version <= heard'[e.sub]
      <3>1. e \in events /\ e.version \in Nat /\ e.sub \in Subs
        BY <1>2, BillFacts
      <3>2. CASE e \in E
        BY <1>3, <1>4, <1>5, <3>1, <3>2
      <3>3. CASE e \in handled
        <4>1. e.version <= heard[e.sub]
          BY <3>3 DEF BillInv, HandledIsHeard
        <4>2. heard[e.sub] \in Nat /\ heard'[e.sub] \in Nat /\ heard[e.sub] <= heard'[e.sub]
          <5>1. CASE e.sub = s
            BY <1>2, <1>3, <1>4, <1>5, <5>1
          <5>2. CASE e.sub # s
            BY <1>2, <1>5, <3>1, <5>2
          <5> QED BY <5>1, <5>2
        <4> QED BY <3>1, <4>1, <4>2
      <3> QED BY <3>2, <3>3
    <2>2. ASSUME NEW t \in Subs PROVE heard'[t] <= session[t].version
      <3>1. CASE t = s
        BY <1>4, <1>5, <3>1
      <3>2. CASE t # s
        BY <1>5, <3>2 DEF BillInv, HandledIsHeard
      <3> QED BY <3>1, <3>2
    <2> QED BY <1>1, <2>1, <2>2 DEF HandledIsHeard
  <1>7. s \notin late' => heard'[s] = v
    BY <1>1, <1>2, <1>4, <1>5
  <1>8. QED BY <1>1, <1>2, <1>5, <1>6, <1>7

\* A request moves, and the row, what was heard and what was dropped stay.
LEMMA OnlyHandlerMoves ==
    ASSUME BillInv, ShopQuiet, UNCHANGED <<row, handled, heard, late, dropped>>,
           handler' \in [Handlers -> HandlerStates], HandlersAreTrue'
    PROVE  BillInv'
  <1>1. row' \in RowStates /\ (row'.sub = 0 => row'.plan = "free")
        /\ (row'.sub # 0 => row.customer # 0)
    BY DEF BillInv, ShopTypes, BuyersHaveCustomers
  <1>2. /\ ShopTypes' /\ StripeTypes' /\ OneCustomer' /\ BuyersHaveCustomers'
        /\ SessionsAreTold' /\ EventsAreTrue' /\ events' = events /\ session' = session
    BY <1>1, ShopStands
  <1>3. HookTypes'
    BY <1>2 DEF BillInv, HookTypes
  <1>4. HandledIsHeard' /\ KeptOrOver'
    BY <1>2 DEF BillInv, HandledIsHeard, KeptOrOver
  <1>5. RowIsTold'
    BY <1>2 DEF BillInv, RowIsTold, Says
  <1>6. QED BY <1>2, <1>3, <1>4, <1>5 DEF BillInv

\* A request begins with what its event says, goes on with what Stripe says now,
\* or dies with it.
LEMMA ReceiveKeeps ==
    ASSUME BillInv, NEW h \in Handlers,
           Retrieve(h) \/ HandlerFails(h) \/ \E e \in events : Receive(h, e)
    PROVE  BillInv'
  <1>1. ASSUME NEW e \in events, Receive(h, e) PROVE BillInv'
    <2>1. PICK step \in {"retrieve", "read"} :
             step = IF e.type = "completed" THEN "retrieve" ELSE "read"
      OBVIOUS
    <2> DEFINE y == [at |-> step, sub |-> e.sub, version |-> e.version, status |-> e.status,
                     plan |-> e.plan, from |-> {e}]
    <2>2. /\ handler' = [handler EXCEPT ![h] = y] /\ ShopQuiet
          /\ UNCHANGED <<row, handled, heard, late, dropped>>
      BY <1>1, <2>1 DEF Receive
    <2>3. e \in Event /\ e.sub \in Subs /\ session[e.sub].at = "paid"
      BY BillFacts DEF BillInv, EventsAreTrue
    <2>4. y \in HandlerStates
      BY <2>3, BillingAssumption DEF Event, HandlerStates, Subs
    <2>5. /\ y.from = {e} /\ y.sub = e.sub /\ y.version = e.version /\ y.status = e.status
          /\ y.plan = e.plan
      OBVIOUS
    <2>6. e.version <= e.version
      BY BillFacts
    <2> HIDE DEF y
    <2>7. Says(y.sub, y.version, y.status, y.plan)
      BY <2>5 DEF Says
    <2>8. handler' \in [Handlers -> HandlerStates] /\ HandlersAreTrue'
      BY <2>2, <2>3, <2>4, <2>5, <2>6, <2>7, HandlerMoves
    <2> QED BY <2>2, <2>8, OnlyHandlerMoves
  <1>2. CASE Retrieve(h)
    <2>1. PICK x \in HandlerStates : x = handler[h]
      BY BillFacts
    <2>2. /\ x.at = "retrieve" /\ x.sub \in Subs /\ session[x.sub].at = "paid"
          /\ x.from \subseteq events
          /\ \A e \in x.from : e.sub = x.sub
      BY <1>2, <2>1 DEF Retrieve, BillInv, HandlersAreTrue
    <2>3. PICK z \in SessionStates : z = session[x.sub]
      BY <2>2, BillFacts
    <2> DEFINE y == [x EXCEPT !.at = "read", !.version = z.version, !.status = z.status,
                              !.plan = z.plan]
    <2>4. handler' = [handler EXCEPT ![h] = y] /\ ShopQuiet
          /\ UNCHANGED <<row, handled, heard, late, dropped>>
      BY <1>2, <2>1, <2>3, BillFacts DEF Retrieve
    <2>5. y \in HandlerStates /\ y.from = x.from /\ y.sub = x.sub /\ y.version = z.version
          /\ y.status = z.status /\ y.plan = z.plan
      BY DEF HandlerStates, SessionStates
    <2> HIDE DEF y
    <2>6. Says(y.sub, y.version, y.status, y.plan)
      BY <2>2, <2>3, <2>5 DEF BillInv, SessionsAreTold
    <2>7. \A e \in y.from : e.sub = y.sub /\ e.version <= y.version
      BY <2>2, <2>3, <2>5 DEF BillInv, EventsAreTrue
    <2>8. handler' \in [Handlers -> HandlerStates] /\ HandlersAreTrue'
      BY <2>2, <2>4, <2>5, <2>6, <2>7, HandlerMoves
    <2> QED BY <2>4, <2>8, OnlyHandlerMoves
  <1>3. CASE HandlerFails(h)
    <2>1. /\ handler' = [handler EXCEPT ![h] = NoHandler] /\ ShopQuiet
          /\ UNCHANGED <<row, handled, heard, late, dropped>>
      BY <1>3 DEF HandlerFails
    <2>2. handler' \in [Handlers -> HandlerStates] /\ HandlersAreTrue'
      <3> HIDE DEF NoHandler
      <3> QED BY <2>1, EndedHandler, HandlerMoves
    <2> QED BY <2>1, <2>2, OnlyHandlerMoves
  <1>4. QED BY <1>1, <1>2, <1>3

\* What a request that is past its read carries.
LEMMA CarriedIsTold ==
    ASSUME BillInv, NEW h \in Handlers, handler[h].at \in {"read", "write"}
    PROVE  /\ handler[h].sub \in Subs /\ handler[h].version \in Nat
           /\ Says(handler[h].sub, handler[h].version, handler[h].status, handler[h].plan)
           /\ handler[h].version <= session[handler[h].sub].version
           /\ handler[h].status \in Statuses /\ handler[h].plan \in Plans
           /\ session[handler[h].sub].at = "paid"
           /\ handler[h].from \in SUBSET events
           /\ \A e \in handler[h].from : e.sub = handler[h].sub /\ e.version <= handler[h].version
  <1>1. /\ handler[h].sub \in Subs /\ session[handler[h].sub].at = "paid"
        /\ Says(handler[h].sub, handler[h].version, handler[h].status, handler[h].plan)
        /\ handler[h].from \subseteq events
        /\ \A e \in handler[h].from : e.sub = handler[h].sub /\ e.version <= handler[h].version
    BY DEF BillInv, HandlersAreTrue
  <1>2. handler[h].version <= session[handler[h].sub].version
    BY <1>1 DEF BillInv, EventsAreTrue, Says
  <1>3. handler[h].version \in Nat /\ handler[h].status \in Statuses /\ handler[h].plan \in Plans
    BY BillFacts DEF HandlerStates
  <1>4. QED BY <1>1, <1>2, <1>3

\* The row's subscription is over if its status says so.
LEMMA DeadRowIsOver ==
    ASSUME BillInv, row.sub # 0, row.sub \notin late, row.status \notin Live
    PROVE  session[row.sub].status = "canceled"
  <1>1. PICK e \in events : e.sub = row.sub /\ e.status = row.status
    BY DEF BillInv, RowIsTold, Says
  <1>2. e.status \in Statuses
    BY BillFacts DEF Event
  <1>3. e.status = "canceled"
    BY <1>1, <1>2 DEF Statuses, Live
  <1>4. QED BY <1>1, <1>3 DEF BillInv, EventsAreTrue

\* An event that is ignored as stale was heard, and dropped.
LEMMA ReadRowKeeps == ASSUME BillInv, NEW h \in Handlers, ReadRow(h) PROVE BillInv'
  <1>1. handler[h].at = "read" /\ row' = row /\ ShopQuiet
    BY DEF ReadRow
  <1>2. PICK s \in Subs : s = handler[h].sub
    BY <1>1, CarriedIsTold
  <1>3. PICK v \in Nat : v = handler[h].version
    BY <1>1, CarriedIsTold
  <1>4. CASE row.sub \notin {0, s} /\ row.status \in Live
    <2>1. /\ handler' = [handler EXCEPT ![h] = NoHandler]
          /\ handled' = handled \cup handler[h].from
          /\ dropped' = dropped \cup {s} /\ Hears(s, v)
      BY <1>2, <1>3, <1>4 DEF ReadRow
    <2>2. /\ handled' \subseteq events' /\ heard' \in [Subs -> 0 .. MaxChanges + 1]
          /\ late' \subseteq Subs /\ late \subseteq late' /\ HandledIsHeard'
          /\ \A t \in Subs \ {s} : heard'[t] = heard[t]
      BY <1>1, <1>2, <1>3, <2>1, CarriedIsTold, HearsMoves
    <2>3. row' \in RowStates /\ (row'.sub = 0 => row'.plan = "free")
          /\ (row'.sub # 0 => row.customer # 0)
      BY <1>1 DEF BillInv, ShopTypes, BuyersHaveCustomers
    <2>4. /\ ShopTypes' /\ StripeTypes' /\ OneCustomer' /\ BuyersHaveCustomers'
          /\ SessionsAreTold' /\ EventsAreTrue' /\ session' = session /\ events' = events
      BY <1>1, <2>3, ShopStands
    <2>5. handler' \in [Handlers -> HandlerStates] /\ HandlersAreTrue'
      <3> HIDE DEF NoHandler
      <3> QED BY <1>1, <2>1, EndedHandler, HandlerMoves
    <2>6. HookTypes'
      BY <2>1, <2>2, <2>5 DEF BillInv, HookTypes
    <2>7. RowIsTold'
      <3> SUFFICES ASSUME row.sub # 0, row.sub \notin late'
                   PROVE  \E e \in events : /\ e.sub = row.sub /\ e.version = heard'[row.sub]
                                            /\ e.status = row.status /\ e.plan = row.plan
        BY <1>1, <2>4 DEF RowIsTold, Says
      <3>1. row.sub \in Subs \ {s}
        BY <1>4, BillingAssumption, BillFacts DEF RowStates, Subs
      <3> QED BY <2>2, <3>1 DEF BillInv, RowIsTold, Says
    <2>8. KeptOrOver'
      BY <1>1, <2>1, <2>2, <2>4 DEF BillInv, KeptOrOver
    <2> QED BY <2>2, <2>4, <2>5, <2>6, <2>7, <2>8 DEF BillInv
  <1>5. CASE ~(row.sub \notin {0, s} /\ row.status \in Live)
    <2>1. PICK x \in HandlerStates : x = handler[h]
      BY BillFacts
    <2> DEFINE y == [x EXCEPT !.at = "write"]
    <2>2. /\ handler' = [handler EXCEPT ![h] = y]
          /\ UNCHANGED <<row, handled, heard, late, dropped>>
      BY <1>1, <1>2, <1>5, <2>1, BillFacts DEF ReadRow
    <2>3. /\ y \in HandlerStates /\ y.from = x.from /\ y.sub = x.sub /\ y.version = x.version
          /\ y.status = x.status /\ y.plan = x.plan
      BY DEF HandlerStates
    <2> HIDE DEF y
    <2>4. handler' \in [Handlers -> HandlerStates] /\ HandlersAreTrue'
      BY <1>1, <2>1, <2>2, <2>3, CarriedIsTold, HandlerMoves
    <2> QED BY <1>1, <2>2, <2>4, OnlyHandlerMoves
  <1>6. QED BY <1>4, <1>5

\* The row is what the request carries; what it was of another live subscription is
\* dropped, and what it was of a dead one is over.
LEMMA WriteRowKeeps == ASSUME BillInv, NEW h \in Handlers, WriteRow(h) PROVE BillInv'
  <1>1. PICK s \in Subs : s = handler[h].sub
    BY CarriedIsTold DEF WriteRow
  <1>2. PICK v \in Nat : v = handler[h].version
    BY CarriedIsTold DEF WriteRow
  <1>3. PICK status \in Statuses, p \in Plans : status = handler[h].status /\ p = handler[h].plan
    BY CarriedIsTold DEF WriteRow
  <1>4. /\ handler[h].at = "write" /\ ShopQuiet
        /\ row' = [row EXCEPT !.sub = s, !.plan = p, !.status = status]
        /\ dropped' = IF row.sub \notin {0, s} /\ row.status \in Live
                      THEN dropped \cup {row.sub} ELSE dropped
        /\ handler' = [handler EXCEPT ![h] = NoHandler]
        /\ handled' = handled \cup handler[h].from
        /\ Hears(s, v)
    BY <1>1, <1>2, <1>3 DEF WriteRow
  <1>5. /\ handled' \subseteq events' /\ heard' \in [Subs -> 0 .. MaxChanges + 1]
        /\ late' \subseteq Subs /\ late \subseteq late' /\ HandledIsHeard'
        /\ \A t \in Subs \ {s} : heard'[t] = heard[t]
        /\ s \notin late' => heard'[s] = v
    BY <1>1, <1>2, <1>4, CarriedIsTold, HearsMoves
  <1>6. s \in 0 .. MaxSubs /\ s # 0 /\ session[s].at = "paid" /\ Says(s, v, status, p)
    BY <1>1, <1>2, <1>3, <1>4, CarriedIsTold, BillingAssumption DEF Subs
  <1>7. /\ row' \in RowStates /\ row'.customer = row.customer
        /\ row'.sub = s /\ row'.plan = p /\ row'.status = status
    BY <1>4, <1>6, BillFacts DEF RowStates
  <1>8. row.customer # 0
    BY <1>6 DEF BillInv, BuyersHaveCustomers
  <1>9. /\ ShopTypes' /\ StripeTypes' /\ OneCustomer' /\ BuyersHaveCustomers'
        /\ SessionsAreTold' /\ EventsAreTrue' /\ session' = session /\ events' = events
    BY <1>4, <1>6, <1>7, <1>8, ShopStands
  <1>10. handler' \in [Handlers -> HandlerStates] /\ HandlersAreTrue'
    <2> HIDE DEF NoHandler
    <2> QED BY <1>4, EndedHandler, HandlerMoves
  <1>11. row.sub \notin {0, s} => row.sub \in Subs \ {s}
    BY BillingAssumption, BillFacts DEF RowStates, Subs
  <1>12. HookTypes'
    <2>1. dropped' \subseteq Subs
      BY <1>4, <1>11 DEF BillInv, HookTypes
    <2> QED BY <1>5, <1>10, <2>1 DEF HookTypes
  <1>13. RowIsTold'
    BY <1>5, <1>6, <1>7, <1>9 DEF RowIsTold, Says
  <1>14. KeptOrOver'
    <2> SUFFICES ASSUME NEW t \in Subs, t \notin dropped', t \notin late', heard'[t] > 0, t # s
                 PROVE  session[t].status = "canceled"
      BY <1>7, <1>9 DEF KeptOrOver
    <2>1. t \notin dropped /\ t \notin late /\ heard[t] > 0
      BY <1>4, <1>5
    <2>2. CASE row.sub = t
      <3>1. row.status \notin Live /\ row.sub # 0
        BY <1>4, <2>2, BillFacts
      <3> QED BY <2>1, <2>2, <3>1, DeadRowIsOver
    <2>3. CASE row.sub # t
      BY <2>1, <2>3 DEF BillInv, KeptOrOver
    <2> QED BY <2>2, <2>3
  <1>15. QED BY <1>5, <1>9, <1>10, <1>12, <1>13, <1>14 DEF BillInv

\* A subscription that is deleted is over.
LEMMA ClearKeeps == ASSUME BillInv, NEW e \in events, Clear(e) PROVE BillInv'
  <1>1. /\ e.type = "deleted" /\ ShopQuiet
        /\ row' = IF row.sub = e.sub
                  THEN [row EXCEPT !.sub = 0, !.plan = "free", !.status = "canceled"] ELSE row
        /\ handled' = handled \cup {e} /\ Hears(e.sub, e.version)
        /\ handler' = handler /\ dropped' = dropped
    BY DEF Clear
  <1>2. PICK s \in Subs : s = e.sub
    BY BillFacts
  <1>3. PICK v \in Nat : v = e.version
    BY BillFacts
  <1>4. v <= session[s].version /\ session[s].status = "canceled"
    BY <1>1, <1>2, <1>3 DEF BillInv, EventsAreTrue
  <1>5. /\ handled' \subseteq events' /\ heard' \in [Subs -> 0 .. MaxChanges + 1]
        /\ late' \subseteq Subs /\ late \subseteq late' /\ HandledIsHeard'
        /\ \A t \in Subs \ {s} : heard'[t] = heard[t]
    <2>1. {e} \in SUBSET events /\ (\A d \in {e} : d.sub = s /\ d.version <= v)
      BY <1>2, <1>3
    <2>2. handled' = handled \cup {e} /\ Hears(s, v) /\ ShopQuiet
      BY <1>1, <1>2, <1>3
    <2> QED BY <1>4, <2>1, <2>2, HearsMoves
  <1>6. /\ row' \in RowStates /\ row'.customer = row.customer
        /\ row'.sub = 0 => row'.plan = "free"
        /\ row'.sub # 0 => row' = row /\ row.sub # s /\ row.customer # 0
        /\ \A t \in Subs \ {s} : row.sub = t => row'.sub = t
    <2>1. CASE row.sub = s
      <3>1. row' = [row EXCEPT !.sub = 0, !.plan = "free", !.status = "canceled"]
        BY <1>1, <1>2, <2>1
      <3>2. 0 \in 0 .. MaxSubs /\ row \in RowStates
        BY BillingAssumption, BillFacts
      <3>3. row' \in RowStates /\ row'.customer = row.customer /\ row'.sub = 0 /\ row'.plan = "free"
        BY <3>1, <3>2 DEF RowStates, Statuses
      <3> QED BY <2>1, <3>3
    <2>2. CASE row.sub # s
      <3>1. row' = row
        BY <1>1, <1>2, <2>2
      <3> QED BY <2>2, <3>1 DEF BillInv, ShopTypes, BuyersHaveCustomers
    <2> QED BY <2>1, <2>2
  <1>7. /\ ShopTypes' /\ StripeTypes' /\ OneCustomer' /\ BuyersHaveCustomers'
        /\ SessionsAreTold' /\ EventsAreTrue' /\ session' = session /\ events' = events
    BY <1>1, <1>6, ShopStands
  <1>8. HookTypes'
    BY <1>1, <1>5 DEF BillInv, HookTypes
  <1>9. HandlersAreTrue'
    BY <1>1, <1>7 DEF BillInv, HandlersAreTrue, Says
  <1>10. RowIsTold'
    <2> SUFFICES ASSUME row'.sub # 0, row'.sub \notin late'
                 PROVE  \E d \in events : /\ d.sub = row'.sub /\ d.version = heard'[row'.sub]
                                          /\ d.status = row'.status /\ d.plan = row'.plan
      BY <1>7 DEF RowIsTold, Says
    <2>1. row' = row /\ row.sub \in Subs \ {s}
      BY <1>6, BillingAssumption, BillFacts DEF RowStates, Subs
    <2> QED BY <1>5, <2>1 DEF BillInv, RowIsTold, Says
  <1>11. KeptOrOver'
    <2> SUFFICES ASSUME NEW t \in Subs, t \notin dropped, t \notin late', heard'[t] > 0
                 PROVE  row'.sub = t \/ session[t].status = "canceled"
      BY <1>1, <1>7 DEF KeptOrOver
    <2>1. CASE t = s
      BY <1>4, <2>1
    <2>2. CASE t # s
      BY <1>5, <1>6, <2>2 DEF BillInv, KeptOrOver
    <2> QED BY <2>1, <2>2
  <1>12. QED BY <1>5, <1>7, <1>8, <1>9, <1>10, <1>11 DEF BillInv

-----------------------------------------------------------------------------
(* The subscription: the theorem                                           *)

\* In the beginning there is no customer, and nothing was bought.
LEMMA BillInvInit == BillInit => BillInv
  <1> SUFFICES ASSUME BillInit PROVE BillInv
    OBVIOUS
  <1>1. Basic \in Plans
    BY BillingAssumption DEF Basic
  <1>2. /\ NoSession \in SessionStates /\ NoSession.at = "none" /\ NoSession.version = 0
        /\ NoSession.status = "canceled"
    BY <1>1, BillingAssumption DEF NoSession, SessionStates, Statuses
  <1>3. NoCheckout \in CheckoutStates /\ NoCheckout.at = "idle"
    BY <1>1 DEF NoCheckout, CheckoutStates
  <1>4. /\ row = [customer |-> 0, sub |-> 0, plan |-> "free", status |-> "none"]
        /\ checkout = [c \in Checkouts |-> NoCheckout] /\ session = [s \in Subs |-> NoSession]
        /\ keyed = 0 /\ customers = 0 /\ changes = 0 /\ bucket = 0 /\ events = {}
        /\ handler = [h \in Handlers |-> NoHandler]
        /\ handled = {} /\ heard = [s \in Subs |-> 0] /\ late = {} /\ dropped = {}
    BY DEF BillInit
  <1> HIDE DEF NoSession, NoCheckout, NoHandler
  <1>5. ShopTypes
    BY <1>3, <1>4, BillingAssumption DEF ShopTypes, RowStates
  <1>6. StripeTypes /\ HookTypes
    BY <1>2, <1>4, EndedHandler, BillingAssumption DEF StripeTypes, HookTypes
  <1>7. OneCustomer /\ BuyersHaveCustomers
    BY <1>2, <1>3, <1>4 DEF OneCustomer, BuyersHaveCustomers
  <1>8. SessionsAreTold /\ EventsAreTrue
    BY <1>2, <1>4 DEF SessionsAreTold, EventsAreTrue
  <1>9. HandlersAreTrue
    BY <1>4, EndedHandler DEF HandlersAreTrue
  <1>10. HandledIsHeard /\ RowIsTold /\ KeptOrOver
    BY <1>2, <1>4 DEF HandledIsHeard, RowIsTold, KeptOrOver
  <1>11. QED BY <1>5, <1>6, <1>7, <1>8, <1>9, <1>10 DEF BillInv

\* A step that changes nothing.
LEMMA NothingMoves == ASSUME BillInv, UNCHANGED billVars PROVE BillInv'
  <1>1. StripeQuiet /\ session' = session /\ row' = row
        /\ checkout' = checkout /\ keyed' = keyed /\ customers' = customers /\ bucket' = bucket
    BY DEF billVars, StripeQuiet
  <1>2. ShopTypes' /\ OneCustomer' /\ BuyersHaveCustomers'
    BY <1>1 DEF BillInv, ShopTypes, OneCustomer, BuyersHaveCustomers
  <1>3. QED BY <1>1, <1>2, ShopMoves

\* Every step keeps the invariant, and the customer once there is one.
LEMMA BillInvStep ==
    ASSUME BillInv, [BillNext]_billVars
    PROVE  BillInv' /\ (row.customer # 0 => row'.customer = row.customer)
  <1>1. ASSUME NEW c \in Checkouts,
               \/ \E p \in Plans : BeginCheckout(c, p)
               \/ CreateCustomer(c) \/ CreateSession(c) \/ CheckoutFails(c)
        PROVE  BillInv' /\ row' = row
    <2>1. BillInv'
      BY <1>1, BeginCheckoutKeeps, CreateCustomerKeeps, CreateSessionKeeps, CheckoutFailsKeeps
    <2>2. row' = row
      BY <1>1 DEF BeginCheckout, CreateCustomer, CreateSession, CheckoutFails
    <2> QED BY <2>1, <2>2
  <1>2. CASE TimePasses
    <2>1. BillInv'
      BY <1>2, TimePassesKeeps
    <2> QED BY <1>2, <2>1 DEF TimePasses
  <1>3. ASSUME NEW s \in Subs,
               \/ Pay(s) \/ Cancel(s)
               \/ \E status \in Live, p \in Plans : Change(s, status, p)
        PROVE  BillInv' /\ row' = row
    <2>1. BillInv'
      BY <1>3, PayKeeps, ChangeKeeps
    <2>2. row' = row
      BY <1>3 DEF Pay, Cancel, Change, AppQuiet
    <2> QED BY <2>1, <2>2
  <1>4. ASSUME NEW h \in Handlers,
               \/ \E e \in events : Receive(h, e)
               \/ Retrieve(h) \/ ReadRow(h) \/ HandlerFails(h)
        PROVE  BillInv' /\ row' = row
    <2>1. BillInv'
      BY <1>4, ReceiveKeeps, ReadRowKeeps
    <2>2. row' = row
      BY <1>4 DEF Receive, Retrieve, ReadRow, HandlerFails
    <2> QED BY <2>1, <2>2
  <1>5. ASSUME NEW h \in Handlers, WriteRow(h)
        PROVE  BillInv' /\ row'.customer = row.customer
    <2>1. row'.customer = row.customer
      BY <1>5, BillFacts DEF WriteRow, RowStates
    <2> QED BY <1>5, <2>1, WriteRowKeeps
  <1>6. ASSUME NEW e \in events, Clear(e)
        PROVE  BillInv' /\ row'.customer = row.customer
    <2>1. row'.customer = row.customer
      BY <1>6, BillFacts DEF Clear, RowStates
    <2> QED BY <1>6, <2>1, ClearKeeps
  <1>7. CASE UNCHANGED billVars
    BY <1>7, NothingMoves DEF billVars
  <1>8. QED BY <1>1, <1>2, <1>3, <1>4, <1>5, <1>6, <1>7, SaveCustomerKeeps DEF BillNext

\* Once its events are in, the row says of a subscription what Stripe says.
LEMMA EventsInSay ==
    ASSUME BillInv, AllHandled, NEW s \in Subs, session[s].at = "paid"
    PROVE  /\ heard[s] = session[s].version /\ heard[s] > 0
           /\ \A status, p : Says(s, heard[s], status, p) =>
                 status = session[s].status /\ p = session[s].plan
  <1>1. PICK e \in events : e.sub = s /\ e.version = session[s].version
    BY DEF BillInv, SessionsAreTold, Says
  <1>2. e.version <= heard[s] /\ heard[s] <= session[s].version
    BY <1>1 DEF BillInv, HandledIsHeard, AllHandled
  <1>3. heard[s] \in Nat /\ session[s].version \in Nat /\ e.version \in Nat \ {0}
    <2>1. e \in Event
      BY BillFacts
    <2> QED BY <2>1, BillFacts, BillingAssumption DEF Event
  <1>4. heard[s] = session[s].version /\ heard[s] > 0
    BY <1>1, <1>2, <1>3
  <1>5. QED BY <1>4 DEF BillInv, EventsAreTrue, Says

\* The invariant says what is promised of every state.
LEMMA BillInvSays ==
    ASSUME BillInv
    PROVE  BillTypeOK /\ RowFollowsStripe /\ PayersAreServed /\ NobodyKeepsAnEndedPlan
  <1>1. ASSUME AllHandled, row.sub # 0, row.sub \notin late
        PROVE  /\ row.sub \in Subs /\ session[row.sub].at = "paid"
               /\ row.status = session[row.sub].status /\ row.plan = session[row.sub].plan
    <2>1. Says(row.sub, heard[row.sub], row.status, row.plan)
      BY <1>1 DEF BillInv, RowIsTold
    <2>2. row.sub \in Subs /\ session[row.sub].at = "paid"
      BY <2>1, BillFacts DEF Says, BillInv, EventsAreTrue
    <2>3. row.status = session[row.sub].status /\ row.plan = session[row.sub].plan
      BY <1>1, <2>1, <2>2, EventsInSay
    <2> QED BY <2>2, <2>3
  <1>2. RowFollowsStripe
    BY <1>1 DEF RowFollowsStripe
  <1>3. PayersAreServed
    <2> SUFFICES ASSUME AllHandled, late = {}, NEW s \in Subs \ dropped,
                        session[s].status = "active"
                 PROVE  Entitled
      BY DEF PayersAreServed
    <2>1. session[s].at = "paid"
      BY DEF BillInv, SessionsAreTold
    <2>2. heard[s] > 0
      BY <2>1, EventsInSay
    <2>3. row.sub = s /\ s # 0
      BY <2>2, BillFacts DEF BillInv, KeptOrOver
    <2>4. row.status = "active" /\ row.plan = session[s].plan
      BY <1>1, <2>3
    <2>5. session[s].plan \in Plans
      BY BillFacts DEF SessionStates
    <2> QED BY <2>4, <2>5, BillingAssumption DEF Entitled
  <1>4. NobodyKeepsAnEndedPlan
    <2> SUFFICES ASSUME AllHandled, late = {}, Entitled
                 PROVE  \E s \in Subs : session[s].status = "active"
      BY DEF NobodyKeepsAnEndedPlan
    <2>1. row.sub # 0
      BY DEF Entitled, BillInv, ShopTypes
    <2> QED BY <1>1, <2>1 DEF Entitled
  <1>5. BillTypeOK
    <2>1. IsFiniteSet(Checkouts) /\ Cardinality(Checkouts) \in Nat
      BY BillingAssumption, FS_CardinalityType
    <2>2. row.customer \in 0 .. Cardinality(Checkouts) + 1 + LastBucket
      <3>1. row.customer <= customers /\ customers <= bucket + 1 /\ bucket \in 0 .. LastBucket
        BY DEF BillInv, OneCustomer, ShopTypes
      <3> QED BY <2>1, <3>1, BillFacts, BillingAssumption
    <2>3. row \in [customer : 0 .. Cardinality(Checkouts) + 1 + LastBucket, sub : 0 .. MaxSubs,
                   plan : Plans \cup {"free"}, status : Statuses \cup {"none"}]
      BY <2>2, BillFacts DEF RowStates
    <2>4. \A h \in Handlers : /\ handler[h].at \in {"idle", "retrieve", "read", "write"}
                              /\ handler[h].from \subseteq events
      BY BillFacts DEF HandlerStates, BillInv, HandlersAreTrue
    <2> QED BY <2>3, <2>4
            DEF BillTypeOK, BillInv, ShopTypes, StripeTypes, HookTypes, BuyersHaveCustomers,
                CheckoutStates, SessionStates
  <1>6. QED BY <1>2, <1>3, <1>4, <1>5

\* Once the events are in and none was late, the row says what Stripe says: who pays
\* is served, nobody else is, unless an event was dropped; and the customer that
\* is stored stays: for any number of checkouts, webhook requests, subscriptions and
\* changes, with every event repeated or overtaken at will.
THEOREM BillingHolds == BillSpec => BillingIsSound
  <1>1. BillInv => BillTypeOK /\ RowFollowsStripe /\ PayersAreServed /\ NobodyKeepsAnEndedPlan
    BY BillInvSays
  <1>2. BillInv /\ [BillNext]_billVars => BillInv'
    BY BillInvStep
  <1>3. BillInv /\ [BillNext]_billVars => (row.customer # 0 => row'.customer = row.customer)
    BY BillInvStep
  <1>4. BillSpec => []BillInv
    BY <1>2, BillInvInit, PTL DEF BillSpec
  <1>5. QED BY <1>1, <1>3, <1>4, PTL DEF BillSpec, BillingIsSound, CustomerIsKept

=============================================================================
