--------------------------- MODULE ReplyLifecycle ---------------------------
(***************************************************************************)
(* What the comment pipeline promises for every pair of a campaign and a   *)
(* comment, without jobs, workers or sweeps: the pair is opened, the       *)
(* direct message is delivered at most once and only while the pair is     *)
(* open, SENT is said only of a message that was delivered, and a pair     *)
(* that is SENT or over the plan's cap stays so.  The public reply below   *)
(* the comment is posted at most once, independently of the message.       *)
(***************************************************************************)
EXTENDS Naturals

CONSTANT Pairs

VARIABLES outcome,     \* DmLog.status of every pair, "none" without a row
          delivered,   \* direct messages Meta accepted for the pair
          posted       \* public replies Meta accepted for the pair

lifecycleVars == <<outcome, delivered, posted>>

Final    == {"SENT", "SKIPPED_PLAN_LIMIT"}
GivenUp  == {"FAILED", "SKIPPED_RATE_LIMIT"}

LifecycleInit ==
    /\ outcome = [p \in Pairs |-> "none"]
    /\ delivered = [p \in Pairs |-> 0]
    /\ posted = [p \in Pairs |-> 0]

Open(p) ==
    /\ outcome[p] \notin Final /\ delivered[p] = 0
    /\ outcome' = [outcome EXCEPT ![p] = "PENDING"]
    /\ UNCHANGED <<delivered, posted>>

Deliver(p) ==
    /\ outcome[p] = "PENDING" /\ delivered[p] = 0
    /\ delivered' = [delivered EXCEPT ![p] = 1]
    /\ UNCHANGED <<outcome, posted>>

Succeed(p) ==
    /\ outcome[p] = "PENDING" /\ delivered[p] = 1
    /\ outcome' = [outcome EXCEPT ![p] = "SENT"]
    /\ UNCHANGED <<delivered, posted>>

GiveUp(p) ==
    /\ outcome[p] = "PENDING" /\ delivered[p] = 0
    /\ \E s \in GivenUp \cup {"SKIPPED_PLAN_LIMIT"} :
           outcome' = [outcome EXCEPT ![p] = s]
    /\ UNCHANGED <<delivered, posted>>

Post(p) ==
    /\ outcome[p] # "none" /\ posted[p] = 0
    /\ posted' = [posted EXCEPT ![p] = 1]
    /\ UNCHANGED <<outcome, delivered>>

LifecycleNext ==
    \E p \in Pairs : Open(p) \/ Deliver(p) \/ Succeed(p) \/ GiveUp(p) \/ Post(p)

LifecycleSpec == LifecycleInit /\ [][LifecycleNext]_lifecycleVars

=============================================================================
