---------------------------- MODULE MonthlyQuota ----------------------------
(***************************************************************************)
(* What lib/billing/usage.ts promises its callers, without the counter:    *)
(* a ledger says for every send attempt which month it is billed to (0 is  *)
(* none).  An attempt is billed at most once, only to the month that is    *)
(* open, only while that month still has room under the plan's cap, and a  *)
(* closed month is never touched again.                                    *)
(***************************************************************************)
EXTENDS Naturals, FiniteSets

CONSTANTS Attempts,   \* the attempts to send a direct message
          Limits,     \* the monthly caps a plan can have
          LastMonth   \* bound on the calendar

VARIABLES ledger,     \* the month every attempt is billed to, or 0
          period,     \* the month that is open
          cap         \* the largest cap the workspace has had so far

quotaVars == <<ledger, period, cap>>

BilledTo(m) == {a \in Attempts : ledger[a] = m}

QuotaInit ==
    /\ ledger = [a \in Attempts |-> 0]
    /\ period \in 1..LastMonth
    /\ cap \in Limits

\* The first attempt of a month may also be the one that opens it.
Bill(a) ==
    /\ ledger[a] = 0
    /\ period' \in period..LastMonth
    /\ period' > period \/ Cardinality(BilledTo(period)) < cap
    /\ ledger' = [ledger EXCEPT ![a] = period']
    /\ UNCHANGED cap

\* Only what was billed to the open month can be refunded.
Refund(a) ==
    /\ ledger[a] = period
    /\ ledger' = [ledger EXCEPT ![a] = 0]
    /\ UNCHANGED <<period, cap>>

OpenMonth ==
    /\ period' \in (period + 1)..LastMonth
    /\ UNCHANGED <<ledger, cap>>

\* A plan change can raise the largest cap, never take back what was billed.
RaiseCap ==
    /\ cap' \in {l \in Limits : l > cap}
    /\ UNCHANGED <<ledger, period>>

QuotaNext ==
    \/ \E a \in Attempts : Bill(a) \/ Refund(a)
    \/ OpenMonth
    \/ RaiseCap

QuotaSpec == QuotaInit /\ [][QuotaNext]_quotaVars

=============================================================================
