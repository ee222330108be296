--------------------------- MODULE WorkspaceUsage ---------------------------
(***************************************************************************)
(* The monthly send quota of one workspace: lib/billing/usage.ts, the      *)
(* reset of app/api/cron/refresh-tokens and the plan changes of the Stripe *)
(* webhook.  Every action is one SQL statement of a transaction that runs  *)
(* at READ COMMITTED, so the steps of two attempts interleave between any  *)
(* two statements; the exception is a transaction whose first statement    *)
(* does move the period: that write locks the row until the commit.        *)
(*                                                                         *)
(* A month is a number.  charged is an observer: the period the row really *)
(* had when the attempt incremented it.  topLimit is the other: the        *)
(* largest limit the workspace has had.                                    *)
(***************************************************************************)
EXTENDS Naturals, FiniteSets

CONSTANTS Attempts,   \* the attempts to send a direct message
          Limits,     \* the values of monthlyDmLimit the plans have
          LastMonth   \* bound on the calendar

ASSUME UsageAssumption ==
    /\ IsFiniteSet(Attempts)
    /\ Limits \subseteq Nat /\ Limits # {}
    /\ LastMonth \in Nat \ {0}

VARIABLES
    month,              \* the month the servers' clocks are in
    limit,              \* monthlyDmLimit of the effective plan
    usagePeriodStart,   \* columns of the Workspace row
    dmsSentThisPeriod,
    pc,                 \* where every attempt is
    monthStart,         \* the month an attempt computed last
    readLimit,          \* the limit it read
    periodStart,        \* the period its reservation names
    charged,            \* observer: the period it is really counted in, or 0
    topLimit            \* observer: the largest limit so far

rowVars     == <<usagePeriodStart, dmsSentThisPeriod>>
attemptVars == <<pc, monthStart, readLimit, periodStart>>
vars        == <<month, limit, rowVars, attemptVars, charged, topLimit>>

Months == 1..LastMonth
Phases == {"idle", "begun", "checked", "reserved",
           "kept", "released", "denied", "lost"}

ChargedTo(m) == {a \in Attempts : charged[a] = m}
Goto(a, phase) == pc' = [pc EXCEPT ![a] = phase]

TypeOK ==
    /\ month \in Months
    /\ limit \in Limits
    /\ usagePeriodStart \in Months
    /\ dmsSentThisPeriod \in Nat
    /\ pc \in [Attempts -> Phases]
    /\ monthStart \in [Attempts -> 0..LastMonth]
    /\ readLimit \in [Attempts -> Limits \cup {0}]
    /\ periodStart \in [Attempts -> 0..LastMonth]
    /\ charged \in [Attempts -> 0..LastMonth]
    /\ topLimit \in Limits

Init ==
    /\ month \in Months
    /\ limit \in Limits
    /\ usagePeriodStart \in 1..month
    /\ dmsSentThisPeriod = 0
    /\ pc = [a \in Attempts |-> "idle"]
    /\ monthStart = [a \in Attempts |-> 0]
    /\ readLimit = [a \in Attempts |-> 0]
    /\ periodStart = [a \in Attempts |-> 0]
    /\ charged = [a \in Attempts |-> 0]
    /\ topLimit = limit

-----------------------------------------------------------------------------
(* reserveWorkspaceDMSend                                                  *)

\* The transaction starts and computes the month for its reset.
BeginReserve(a) ==
    /\ pc[a] = "idle"
    /\ Goto(a, "begun")
    /\ monthStart' = [monthStart EXCEPT ![a] = month]
    /\ UNCHANGED <<month, limit, rowVars, readLimit, periodStart, charged, topLimit>>

\* The reset does move the period, so the rest of the transaction runs behind
\* the row lock.  The month is computed a second time after the reset: when
\* midnight falls between the two, the increment's WHERE matches no row.
ReserveInFreshPeriod(a) ==
    /\ pc[a] = "begun"
    /\ usagePeriodStart < monthStart[a]
    /\ usagePeriodStart' = monthStart[a]
    /\ readLimit' = [readLimit EXCEPT ![a] = limit]
    /\ periodStart' = [periodStart EXCEPT ![a] = monthStart[a]]
    /\ \/ /\ limit > 0 /\ monthStart[a] >= month
          /\ dmsSentThisPeriod' = 1
          /\ charged' = [charged EXCEPT ![a] = monthStart[a]]
          /\ Goto(a, "reserved")
       \/ /\ limit = 0 \/ monthStart[a] < month
          /\ dmsSentThisPeriod' = 0
          /\ UNCHANGED charged
          /\ Goto(a, "denied")
    /\ UNCHANGED <<month, limit, monthStart, topLimit>>

\* The reset matches no row and takes no lock; the row is read.
ReadUsage(a) ==
    /\ pc[a] = "begun"
    /\ usagePeriodStart >= monthStart[a]
    /\ monthStart' = [monthStart EXCEPT ![a] = month]
    /\ readLimit' = [readLimit EXCEPT ![a] = limit]
    /\ periodStart' = [periodStart EXCEPT ![a] = usagePeriodStart]
    /\ Goto(a, IF dmsSentThisPeriod >= limit THEN "denied" ELSE "checked")
    /\ UNCHANGED <<month, limit, rowVars, charged, topLimit>>

\* Seeded bug: the increment trusts the limit check made before it.
IncrementUnchecked(a) ==
    /\ pc[a] = "checked"
    /\ dmsSentThisPeriod' = dmsSentThisPeriod + 1
    /\ charged' = [charged EXCEPT ![a] = usagePeriodStart]
    /\ Goto(a, "reserved")
    /\ UNCHANGED <<month, limit, usagePeriodStart, monthStart, readLimit, periodStart, topLimit>>

\* The conditional increment: the WHERE clause checks period and limit again.
\* The reservation names the period that was read before it.
Increment(a) ==
    /\ pc[a] = "checked"
    /\ \/ /\ usagePeriodStart >= monthStart[a]
          /\ dmsSentThisPeriod < readLimit[a]
          /\ dmsSentThisPeriod' = dmsSentThisPeriod + 1
          /\ charged' = [charged EXCEPT ![a] = usagePeriodStart]
          /\ Goto(a, "reserved")
       \/ /\ \/ usagePeriodStart < monthStart[a]
             \/ dmsSentThisPeriod >= readLimit[a]
          /\ Goto(a, "denied")
          /\ UNCHANGED <<dmsSentThisPeriod, charged>>
    /\ UNCHANGED <<month, limit, usagePeriodStart, monthStart, readLimit, periodStart, topLimit>>

-----------------------------------------------------------------------------
(* What the caller does with its reservation                               *)

\* The message went out: the reservation stays on the books.
Keep(a) ==
    /\ pc[a] = "reserved"
    /\ Goto(a, "kept")
    /\ UNCHANGED <<month, limit, rowVars, monthStart, readLimit, periodStart, charged, topLimit>>

\* Seeded bug: the refund does not look at the period it refunds.
ReleaseAnyPeriod(a) ==
    /\ pc[a] = "reserved"
    /\ dmsSentThisPeriod' = dmsSentThisPeriod - 1
    /\ charged' = [charged EXCEPT ![a] = 0]
    /\ Goto(a, "released")
    /\ UNCHANGED <<month, limit, usagePeriodStart, monthStart, readLimit, periodStart, topLimit>>

\* Seeded bug: the refund is dropped whenever the wall clock has moved on.
ReleaseInClockMonth(a) ==
    /\ pc[a] = "reserved"
    /\ IF month = periodStart[a] /\ usagePeriodStart = month
       THEN /\ dmsSentThisPeriod' = dmsSentThisPeriod - 1
            /\ charged' = [charged EXCEPT ![a] = 0]
       ELSE UNCHANGED <<dmsSentThisPeriod, charged>>
    /\ Goto(a, "released")
    /\ UNCHANGED <<month, limit, usagePeriodStart, monthStart, readLimit, periodStart, topLimit>>

\* releaseWorkspaceDMReservation: one conditional decrement.
Release(a) ==
    /\ pc[a] = "reserved"
    /\ IF usagePeriodStart = periodStart[a] /\ dmsSentThisPeriod > 0
       THEN /\ dmsSentThisPeriod' = dmsSentThisPeriod - 1
            /\ charged' = [charged EXCEPT ![a] = 0]
       ELSE UNCHANGED <<dmsSentThisPeriod, charged>>
    /\ Goto(a, "released")
    /\ UNCHANGED <<month, limit, usagePeriodStart, monthStart, readLimit, periodStart, topLimit>>

\* The process dies: an open transaction rolls back, a committed reservation stays.
Crash(a) ==
    /\ pc[a] \in {"begun", "checked", "reserved"}
    /\ Goto(a, "lost")
    /\ UNCHANGED <<month, limit, rowVars, monthStart, readLimit, periodStart, charged, topLimit>>

-----------------------------------------------------------------------------
(* The others that write the row                                           *)

\* Seeded bug: the reset compares for difference instead of order.
ResetOnDifference(m) ==
    /\ usagePeriodStart # m
    /\ usagePeriodStart' = m
    /\ dmsSentThisPeriod' = 0
    /\ UNCHANGED <<month, limit, attemptVars, charged, topLimit>>

\* resetUsageIfNeeded and the daily cron: one updateMany, with a month that
\* was computed some time before the statement runs.
ResetUsageIfNeeded(m) ==
    /\ usagePeriodStart < m
    /\ usagePeriodStart' = m
    /\ dmsSentThisPeriod' = 0
    /\ UNCHANGED <<month, limit, attemptVars, charged, topLimit>>

\* The Stripe webhook moves the workspace to a plan with another limit.
ChangePlan(l) ==
    /\ l # limit
    /\ limit' = l
    /\ topLimit' = IF l > topLimit THEN l ELSE topLimit
    /\ UNCHANGED <<month, rowVars, attemptVars, charged>>

\* The calendar.
NextMonth ==
    /\ month < LastMonth
    /\ month' = month + 1
    /\ UNCHANGED <<limit, rowVars, attemptVars, charged, topLimit>>

Step(a) ==
    \/ BeginReserve(a) \/ ReserveInFreshPeriod(a)
    \/ ReadUsage(a) \/ Increment(a)
    \/ Keep(a) \/ Release(a) \/ Crash(a)

Next ==
    \/ \E a \in Attempts : Step(a)
    \/ \E m \in 1..month : ResetUsageIfNeeded(m)
    \/ \E l \in Limits : ChangePlan(l)
    \/ NextMonth

Spec == Init /\ [][Next]_vars

-----------------------------------------------------------------------------
(* Properties                                                              *)

\* The counter of the open period is exact: it equals the number of attempts
\* that incremented it in that period and were not refunded.  A refund that
\* arrives after the month has rolled over must not take a unit from the new
\* month (the WHERE clause of releaseWorkspaceDMReservation).
UsageIsExact == dmsSentThisPeriod = Cardinality(ChargedTo(usagePeriodStart))

\* No month, open or closed, is ever billed for more messages than the largest
\* cap the workspace has had, whatever the order of two reservations, a reset
\* and a plan change between their statements.
NeverPastTheCap == \A m \in Months : Cardinality(ChargedTo(m)) <= topLimit

\* The two together: what is counted is what was sent, and neither goes past the cap.
QuotaIsKept == UsageIsExact /\ NeverPastTheCap

\* A released reservation is only still on the books when the period it names
\* is over: within a month every refund reaches the counter.
NoLeakWithinMonth ==
    \A a \in Attempts :
        pc[a] = "released" /\ charged[a] # 0 => periodStart[a] < usagePeriodStart

\* The period never goes back, even when a reset runs late with an old month,
\* and a closed month's bill never changes afterwards.
ClosedMonthsAreFinal ==
    [][/\ usagePeriodStart' >= usagePeriodStart
       /\ \A m \in 1..(usagePeriodStart - 1) : ChargedTo(m)' = ChargedTo(m)]_vars

\* The counter with its conditional updates implements the ledger.
Quota == INSTANCE MonthlyQuota WITH
            ledger <- charged, period <- usagePeriodStart, cap <- topLimit

ImplementsQuota == Quota!QuotaSpec

=============================================================================
