------------------------------ MODULE Billing -------------------------------
(***************************************************************************)
(* One workspace's subscription: app/api/billing/checkout and portal, and  *)
(* the Stripe webhook (app/api/webhook/stripe).  Stripe is external: it    *)
(* keeps the subscriptions, and sends what happened to them as events,     *)
(* at least once and in any order; an event of a subscription carries the  *)
(* subscription as it was then.  The workspace's row is the program's only *)
(* memory of it, and what decides about the plan's limits.                 *)
(***************************************************************************)
EXTENDS Naturals, FiniteSets

CONSTANTS Plans,       \* the paid plans
          Checkouts,   \* checkout requests that run at the same time
          Handlers,    \* webhook requests that run at the same time
          MaxSubs,     \* bound on the checkout sessions
          MaxChanges,  \* bound on the changes of the subscriptions together
          LastBucket   \* bound on the ten-minute buckets of the idempotency keys

ASSUME BillingAssumption ==
    /\ IsFiniteSet(Checkouts) /\ IsFiniteSet(Handlers)
    /\ Plans # {} /\ "free" \notin Plans /\ MaxSubs \in Nat /\ MaxChanges \in Nat /\ LastBucket \in Nat

VARIABLES
    row,        \* Workspace: customer, subscription, plan and plan status
    checkout,   \* the checkout requests
    session,    \* Stripe: checkout sessions, each with the subscription it leads to
    keyed,      \* Stripe: the customer it remembers for the workspace's key
    customers,  \* Stripe: customers created
    changes,    \* Stripe: changes of subscriptions so far
    bucket,     \* the ten-minute bucket
    events,     \* Stripe: everything it has sent or will send again
    handler,    \* the webhook requests
    handled,    \* observer: events that have been handled
    heard,      \* observer: newest version of a subscription that was handled
    late,       \* observer: subscriptions an older state was written of after a newer
    dropped     \* observer: subscriptions with an event that was ignored as stale, or overwritten

billVars == <<row, checkout, session, keyed, customers, changes, bucket, events, handler,
              handled, heard, late, dropped>>

Subs     == 1..MaxSubs
Statuses == {"active", "unpaid", "canceled"}
Live     == {"active", "unpaid"}             \* LIVE_SUBSCRIPTION_STATUSES, by what tells them apart
Event    == [type : {"completed", "updated", "deleted"}, sub : Subs, version : 1..MaxChanges + 1,
             status : Statuses, plan : Plans]
Basic    == CHOOSE p \in Plans : TRUE        \* in rows that name no plan yet
NoSession  == [at |-> "none", plan |-> Basic, bucket |-> 0, version |-> 0, status |-> "canceled"]
NoCheckout == [at |-> "idle", plan |-> Basic, customer |-> 0]
NoHandler  == [at |-> "idle", sub |-> 0, version |-> 0, status |-> "canceled", plan |-> Basic,
               from |-> {}]

BillTypeOK ==
    /\ row \in [customer : 0..Cardinality(Checkouts) + 1 + LastBucket, sub : 0..MaxSubs,
                plan : Plans \cup {"free"}, status : Statuses \cup {"none"}]
    /\ row.sub = 0 => row.plan = "free"
    /\ row.sub # 0 => row.customer # 0
    /\ checkout \in [Checkouts -> [at : {"idle", "customer", "save", "session"},
                               plan : Plans, customer : Nat]]
    /\ session \in [Subs -> [at : {"none", "open", "paid"}, plan : Plans, bucket : 0..LastBucket,
                             version : 0..MaxChanges + 1, status : Statuses]]
    /\ keyed \in 0..customers /\ customers \in Nat /\ bucket \in 0..LastBucket
    /\ changes \in 0..MaxChanges
    /\ events \subseteq Event /\ handled \subseteq events
    /\ \A h \in Handlers : handler[h].at \in {"idle", "retrieve", "read", "write"}
                           /\ handler[h].from \subseteq events
    /\ heard \in [Subs -> 0..MaxChanges + 1] /\ late \subseteq Subs /\ dropped \subseteq Subs

BillInit ==
    /\ row = [customer |-> 0, sub |-> 0, plan |-> "free", status |-> "none"]
    /\ checkout = [c \in Checkouts |-> NoCheckout] /\ session = [s \in Subs |-> NoSession]
    /\ keyed = 0 /\ customers = 0 /\ changes = 0 /\ bucket = 0 /\ events = {}
    /\ handler = [h \in Handlers |-> NoHandler]
    /\ handled = {} /\ heard = [s \in Subs |-> 0] /\ late = {} /\ dropped = {}

\* getEffectivePlanId
Entitled == row.plan # "free" /\ row.status = "active"

-----------------------------------------------------------------------------
(* checkout/route.ts                                                       *)

StepsTo(c, step) == checkout' = [checkout EXCEPT ![c].at = step]
StripeQuiet == UNCHANGED <<changes, events, handler, handled, heard, late, dropped>>

\* The owner asks for a plan; a live subscription is managed, not bought again.
BeginCheckout(c, p) ==
    /\ checkout[c].at = "idle" /\ ~(row.sub # 0 /\ row.status \in Live)
    /\ checkout' = [checkout EXCEPT ![c] = [at |-> IF row.customer = 0 THEN "customer" ELSE "session",
                                            plan |-> p, customer |-> row.customer]]
    /\ UNCHANGED <<row, session, keyed, customers, bucket>> /\ StripeQuiet

\* customers.create with the workspace's key: the same customer within a day.
CreateCustomer(c) ==
    /\ checkout[c].at = "customer"
    /\ IF keyed = 0 THEN customers' = customers + 1 /\ keyed' = customers'
                    ELSE UNCHANGED <<customers, keyed>>
    /\ checkout' = [checkout EXCEPT ![c].at = "save", ![c].customer = keyed']
    /\ UNCHANGED <<row, session, bucket>> /\ StripeQuiet

SaveCustomer(c) ==
    /\ checkout[c].at = "save"
    /\ row' = [row EXCEPT !.customer = checkout[c].customer]
    /\ StepsTo(c, "session")
    /\ UNCHANGED <<session, keyed, customers, bucket>> /\ StripeQuiet

\* checkout.sessions.create: a second tap in the same ten minutes gets the same session.
CreateSession(c) ==
    LET p == checkout[c].plan IN
    /\ checkout[c].at = "session"
    /\ IF \E s \in Subs : session[s].at # "none" /\ session[s].plan = p /\ session[s].bucket = bucket
       THEN UNCHANGED session
       ELSE \E s \in Subs : /\ session[s].at = "none" /\ \A t \in Subs : t < s => session[t].at # "none"
                            /\ session' = [session EXCEPT ![s] = [NoSession EXCEPT !.at = "open",
                                                 !.plan = p, !.bucket = bucket]]
    /\ StepsTo(c, "idle")
    /\ UNCHANGED <<row, keyed, customers, bucket>> /\ StripeQuiet

\* Stripe fails, or the server dies.
CheckoutFails(c) ==
    /\ checkout[c].at # "idle"
    /\ StepsTo(c, "idle")
    /\ UNCHANGED <<row, session, keyed, customers, bucket>> /\ StripeQuiet

\* Ten minutes or, when nobody is half way, the day of the customer's key.
TimePasses ==
    /\ bucket < LastBucket
    /\ bucket' = bucket + 1
    /\ keyed' \in IF \A c \in Checkouts : checkout[c].at = "idle" THEN {keyed, 0} ELSE {keyed}
    /\ UNCHANGED <<row, checkout, session, customers>> /\ StripeQuiet

-----------------------------------------------------------------------------
(* Stripe (external), and its portal                                       *)

EventOf(s, type) == [type |-> type, sub |-> s, version |-> session'[s].version,
                     status |-> session'[s].status, plan |-> session'[s].plan]
Sends(s, type) == events' = events \cup {EventOf(s, type)}
Changes == changes' = changes + 1
AppQuiet == UNCHANGED <<row, checkout, keyed, customers, bucket, handler, handled, heard, late, dropped>>

\* The customer pays the session in the browser: a subscription begins.
Pay(s) ==
    /\ session[s].at = "open"
    /\ session' = [session EXCEPT ![s].at = "paid", ![s].version = 1, ![s].status = "active"]
    /\ Sends(s, "completed") /\ AppQuiet /\ UNCHANGED changes

\* Renewals, failed payments and, in the portal, another plan.
Change(s, status, p) ==
    /\ session[s].at = "paid" /\ session[s].status # "canceled"
    /\ changes < MaxChanges
    /\ p # session[s].plan => row.customer # 0
    /\ <<status, p>> # <<session[s].status, session[s].plan>> /\ status \in Live
    /\ session' = [session EXCEPT ![s].version = @ + 1, ![s].status = status, ![s].plan = p]
    /\ Sends(s, "updated") /\ Changes /\ AppQuiet

\* Canceled in the portal, or for not being paid.
Cancel(s) ==
    /\ session[s].at = "paid" /\ session[s].status # "canceled" /\ changes < MaxChanges
    /\ session' = [session EXCEPT ![s].version = @ + 1, ![s].status = "canceled"]
    /\ Sends(s, "deleted") /\ Changes /\ AppQuiet

-----------------------------------------------------------------------------
(* webhook/stripe/route.ts                                                 *)

ShopQuiet == UNCHANGED <<checkout, session, keyed, customers, changes, bucket, events>>
Hears(s, v) ==
    /\ heard' = [heard EXCEPT ![s] = IF v > @ THEN v ELSE @]
    /\ late'  = IF v < heard[s] THEN late \cup {s} ELSE late

\* POST for an event that writes the subscription.
Receive(h, e) ==
    /\ handler[h].at = "idle" /\ e.type # "deleted"
    /\ handler' = [handler EXCEPT ![h] =
          [at |-> IF e.type = "completed" THEN "retrieve" ELSE "read", sub |-> e.sub,
           version |-> e.version, status |-> e.status, plan |-> e.plan, from |-> {e}]]
    /\ UNCHANGED <<row, handled, heard, late, dropped>> /\ ShopQuiet

\* subscriptions.retrieve: the subscription as it is now, not as it was then.
Retrieve(h) ==
    LET s == session[handler[h].sub] IN
    /\ handler[h].at = "retrieve"
    /\ handler' = [handler EXCEPT ![h].at = "read", ![h].version = s.version,
                                  ![h].status = s.status, ![h].plan = s.plan]
    /\ UNCHANGED <<row, handled, heard, late, dropped>> /\ ShopQuiet

\* applySubscription: while another subscription is live in the row, this
\* event is stale; the customer is the workspace's own.
ReadRow(h) ==
    LET s == handler[h].sub
        stale == row.sub \notin {0, s} /\ row.status \in Live IN
    /\ handler[h].at = "read"
    /\ IF stale
       THEN /\ handler' = [handler EXCEPT ![h] = NoHandler]
            /\ handled' = handled \cup handler[h].from
            /\ dropped' = dropped \cup {s}
            /\ Hears(s, handler[h].version)
       ELSE /\ handler' = [handler EXCEPT ![h].at = "write"]
            /\ UNCHANGED <<handled, heard, late, dropped>>
    /\ UNCHANGED row /\ ShopQuiet

\* Seeded bug: the plan and the subscription, but not its status once it has one.
WriteRowKeepsStatus(h) ==
    LET s == handler[h].sub IN
    /\ handler[h].at = "write"
    /\ row' = [row EXCEPT !.sub = s, !.plan = handler[h].plan,
                          !.status = IF row.sub = s THEN @ ELSE handler[h].status]
    /\ handler' = [handler EXCEPT ![h] = NoHandler]
    /\ handled' = handled \cup handler[h].from
    /\ Hears(s, handler[h].version)
    /\ UNCHANGED dropped /\ ShopQuiet

\* The update, whatever happened to the row since it was read.
WriteRow(h) ==
    LET s == handler[h].sub IN
    /\ handler[h].at = "write"
    /\ row' = [row EXCEPT !.sub = s, !.plan = handler[h].plan, !.status = handler[h].status]
    /\ dropped' = IF row.sub \notin {0, s} /\ row.status \in Live THEN dropped \cup {row.sub} ELSE dropped
    /\ handler' = [handler EXCEPT ![h] = NoHandler]
    /\ handled' = handled \cup handler[h].from
    /\ Hears(s, handler[h].version)
    /\ ShopQuiet

\* clearSubscription, one conditional update.
Clear(e) ==
    /\ e.type = "deleted"
    /\ row' = IF row.sub = e.sub
              THEN [row EXCEPT !.sub = 0, !.plan = "free", !.status = "canceled"] ELSE row
    /\ handled' = handled \cup {e}
    /\ Hears(e.sub, e.version)
    /\ UNCHANGED <<handler, dropped>> /\ ShopQuiet

\* The server dies or the database fails: Stripe sends the event again.
HandlerFails(h) ==
    /\ handler[h].at # "idle"
    /\ handler' = [handler EXCEPT ![h] = NoHandler]
    /\ UNCHANGED <<row, handled, heard, late, dropped>> /\ ShopQuiet

BillNext ==
    \/ \E c \in Checkouts :
          \/ \E p \in Plans : BeginCheckout(c, p)
          \/ CreateCustomer(c) \/ SaveCustomer(c) \/ CreateSession(c) \/ CheckoutFails(c)
    \/ TimePasses
    \/ \E s \in Subs :
          \/ Pay(s) \/ Cancel(s)
          \/ \E status \in Live, p \in Plans : Change(s, status, p)
    \/ \E h \in Handlers :
          \/ \E e \in events : Receive(h, e)
          \/ Retrieve(h) \/ ReadRow(h) \/ WriteRow(h) \/ HandlerFails(h)
    \/ \E e \in events : Clear(e)

BillSpec == BillInit /\ [][BillNext]_billVars

-----------------------------------------------------------------------------
(* Properties                                                              *)

AllHandled == handled = events /\ \A h \in Handlers : handler[h].at = "idle"

\* Once the events are in, the row says of its subscription what Stripe says,
\* unless an event of it was handled after a later one, as happens when Stripe
\* repeats or reorders them: the row has no notion of which is newer.
RowFollowsStripe ==
    AllHandled /\ row.sub # 0 /\ row.sub \notin late =>
        /\ row.status = session[row.sub].status
        /\ row.plan = session[row.sub].plan

\* Somebody who pays has the plan once the events are in, unless an event came
\* late or was dropped because another subscription was live.
PayersAreServed ==
    AllHandled /\ late = {} =>
        \A s \in Subs \ dropped : session[s].status = "active" => Entitled

\* An entitlement without a subscription to pay for it is over once the events
\* are in, unless one came late.
NobodyKeepsAnEndedPlan ==
    AllHandled /\ late = {} /\ Entitled => \E s \in Subs : session[s].status = "active"

\* Two checkouts at once use one customer: it never changes once it is stored,
\* though both have read that there is none.
CustomerIsKept == [][row.customer # 0 => row'.customer = row.customer]_billVars

\* The row against Stripe: with the events in and none late, it says what Stripe
\* says, who pays is served and nobody else is, and the customer stays the same.
BillingIsSound ==
    /\ [](BillTypeOK /\ RowFollowsStripe /\ PayersAreServed /\ NobodyKeepsAnEndedPlan)
    /\ CustomerIsKept

=============================================================================
