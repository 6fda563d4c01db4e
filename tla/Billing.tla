------------------------------- MODULE Billing -------------------------------
(***************************************************************************)
(* The subscription row of one organization and the Stripe events that     *)
(* write it: services/billing.service.ts starts checkouts and asks Stripe  *)
(* for changes, Stripe does them in its own time and tells what it did in  *)
(* events, and services/billing-webhook.service.ts applies each event in   *)
(* one transaction, anchored by the unique stripeEventId.                  *)
(*                                                                         *)
(* Stripe delivers an event until it is answered with a 200, so an event   *)
(* may come late, after newer ones, or once more.  A subscription is named *)
(* by the checkout that bought it, a customer by the one that created it.  *)
(* Periods, seats and the cancel-at-period-end flag are not kept: no       *)
(* decision reads them.                                                    *)
(***************************************************************************)
EXTENDS Naturals, Sequences, FiniteSets

CONSTANTS
  Checkout,         \* requests to POST /billing/checkout
  Paid,             \* tiers with a Stripe price
  None,             \* null
  MaxEvents,        \* bound: events Stripe emits
  MaxRedeliveries   \* bound: deliveries of events that were answered

ASSUME BillingAssumption ==
  /\ None \notin Checkout
  /\ "FREE" \notin Paid
  /\ {MaxEvents, MaxRedeliveries} \subseteq Nat

VARIABLES
  row,        \* the subscriptions row: plan, status, sub, customer
  checkout,   \* the checkouts under way
  stripe,     \* Stripe's subscriptions
  events,     \* the events Stripe has emitted, in their order
  recorded,   \* those with an InvoiceEvent row
  answered,   \* those answered with a 200
  again,      \* deliveries of answered events so far
  late,       \* whether one was applied after a newer one
  doubled     \* whether the organization ever had two subscriptions at once

appVars     == <<row, checkout, recorded>>
stripeVars  == <<stripe, events, doubled>>
billingVars == <<row, checkout, stripe, events, recorded, answered, again, late, doubled>>

Tier    == Paid \cup {"FREE"}
Sub     == Checkout
Maybe(S) == S \cup {None}

Status  == {"INCOMPLETE", "TRIALING", "ACTIVE", "PAST_DUE", "CANCELED", "UNPAID"}
Row     == [plan : Tier, status : Status, sub : Maybe(Sub), customer : Maybe(Checkout)]

\* A missing row reads like this one (getSummary, getEffectiveLimits).
NoRow == [plan |-> "FREE", status |-> "INCOMPLETE", sub |-> None, customer |-> None]

EventType == {"checkout.session.completed", "customer.subscription.created",
              "customer.subscription.updated", "customer.subscription.deleted",
              "invoice.payment_succeeded", "invoice.payment_failed"}

StripeSub == [status : {"none", "active", "past_due", "canceled"}, price : Maybe(Paid),
              customer : Maybe(Checkout)]
NoSub == [status |-> "none", price |-> None, customer |-> None]
Live  == {s \in Sub : stripe[s].status \in {"active", "past_due"}}

BillingInit ==
  /\ row = NoRow
  /\ checkout = [k \in Checkout |-> [stage |-> "unused", tier |-> None, customer |-> None]]
  /\ stripe = [s \in Sub |-> NoSub]
  /\ events = <<>>
  /\ recorded = {}
  /\ answered = {}
  /\ again = 0
  /\ late = FALSE
  /\ doubled = FALSE

-----------------------------------------------------------------------------
(* The billing service *)

\* startCheckout up to the customer: the row's, or a new one of Stripe's.
StartCheckout(k) ==
  /\ checkout[k].stage = "unused"
  /\ \E t \in Paid :
       checkout' = [checkout EXCEPT ![k] =
         IF row.customer # None THEN [stage |-> "open", tier |-> t, customer |-> row.customer]
                                ELSE [stage |-> "persist", tier |-> t, customer |-> k]]
  /\ UNCHANGED <<row, recorded, stripeVars, answered, again, late>>

\* ensureCustomer writes the id it got, whatever the row holds by now.
EnsureCustomer(k) ==
  /\ checkout[k].stage = "persist"
  /\ row' = [row EXCEPT !.customer = k]
  /\ checkout' = [checkout EXCEPT ![k].stage = "open"]
  /\ UNCHANGED <<recorded, stripeVars, answered, again, late>>

\* Stripe's subscriptions that changePlan and cancel (the row's) or the portal
\* (the customer's) can touch.
Reachable == {s \in Live : s = row.sub \/ stripe[s].customer = row.customer}

-----------------------------------------------------------------------------
(* Stripe *)

\* A batch of events that Stripe emits together and in no particular order.
Emits(s, types) ==
  LET new == stripe'[s]
      first == Len(events) + 1
  IN  /\ Len(events) + Len(types) <= MaxEvents
      /\ events' = events \o [i \in 1 .. Len(types) |->
           [type |-> types[i], sub |-> s, price |-> new.price, status |-> new.status,
            customer |-> new.customer, batch |-> first]]
      /\ doubled' = (doubled \/ Cardinality(Live') > 1)
      /\ UNCHANGED <<appVars, answered, again, late>>

\* The customer pays on the checkout page.
CheckoutIsPaid(k) ==
  /\ checkout[k].stage = "open" /\ stripe[k] = NoSub
  /\ stripe' = [stripe EXCEPT ![k] = [status |-> "active", price |-> checkout[k].tier,
                                      customer |-> checkout[k].customer]]
  /\ Emits(k, <<"checkout.session.completed", "customer.subscription.created",
                "invoice.payment_succeeded">>)

\* stripe.changePlan
ChangePlan(s) ==
  /\ s \in Reachable
  /\ \E t \in Paid \ {stripe[s].price} : stripe' = [stripe EXCEPT ![s].price = t]
  /\ Emits(s, <<"customer.subscription.updated">>)

\* stripe.cancelSubscription, at once or at the end of the period.
CancelSubscription(s) ==
  /\ s \in Reachable
  /\ stripe' = [stripe EXCEPT ![s].status = "canceled"]
  /\ Emits(s, <<"customer.subscription.deleted">>)

PaymentFails(s) ==
  /\ stripe[s].status = "active"
  /\ stripe' = [stripe EXCEPT ![s].status = "past_due"]
  /\ Emits(s, <<"customer.subscription.updated", "invoice.payment_failed">>)

PaymentSucceeds(s) ==
  /\ stripe[s].status = "past_due"
  /\ stripe' = [stripe EXCEPT ![s].status = "active"]
  /\ Emits(s, <<"customer.subscription.updated", "invoice.payment_succeeded">>)

-----------------------------------------------------------------------------
(* The webhook *)

mapStatus(s) ==
  CASE s = "trialing" -> "TRIALING"
    [] s = "active" -> "ACTIVE"
    [] s \in {"past_due", "paused"} -> "PAST_DUE"
    [] s = "canceled" -> "CANCELED"
    [] s = "unpaid" -> "UNPAID"
    [] OTHER -> "INCOMPLETE"

\* The metadata of checkouts and subscriptions name the organization; an invoice
\* is found through its customer, if the row knows that one.
resolveOrgId(e) ==
  \/ e.type \notin {"invoice.payment_succeeded", "invoice.payment_failed"}
  \/ e.customer = row.customer

applySubscription(e) ==
  [plan |-> e.price, status |-> mapStatus(e.status), sub |-> e.sub, customer |-> e.customer]

\* Mutant of applyCancellation: the plan is left to expire by itself.
applyCancellationKeepingPlan == [row EXCEPT !.status = "CANCELED", !.sub = None]

\* Back to FREE, whichever subscription was deleted.
applyCancellation == [row EXCEPT !.status = "CANCELED", !.plan = "FREE", !.sub = None]

applyEvent(e) ==
  CASE e.type = "checkout.session.completed" -> [row EXCEPT !.sub = e.sub, !.customer = e.customer]
    [] e.type \in {"customer.subscription.created", "customer.subscription.updated"} ->
         applySubscription(e)
    [] e.type = "customer.subscription.deleted" -> applyCancellation
    [] e.type = "invoice.payment_succeeded" -> [row EXCEPT !.status = "ACTIVE"]
    [] e.type = "invoice.payment_failed" -> [row EXCEPT !.status = "PAST_DUE"]

Overtaken(i) == \E j \in recorded : events[j].batch > events[i].batch

\* Stripe delivers an event that was not answered, or one that was once more.
Delivers(i) ==
  /\ i \in answered => again < MaxRedeliveries
  /\ again' = IF i \in answered THEN again + 1 ELSE again
  /\ answered' = answered \cup {i}

\* One transaction: ignored when no organization is found, a duplicate (rolled
\* back) when the id is recorded, applied otherwise.  When it throws, nothing
\* has happened and Stripe tries again.
handleEvent(i) ==
  /\ Delivers(i)
  /\ IF resolveOrgId(events[i]) /\ i \notin recorded
       THEN /\ row' = applyEvent(events[i])
            /\ recorded' = recorded \cup {i}
            /\ late' = (late \/ Overtaken(i))
       ELSE UNCHANGED <<row, recorded, late>>
  /\ UNCHANGED <<checkout, stripeVars>>

-----------------------------------------------------------------------------
BillingNext ==
  \/ \E k \in Checkout : StartCheckout(k) \/ EnsureCustomer(k) \/ CheckoutIsPaid(k)
  \/ \E s \in Sub :
        ChangePlan(s) \/ CancelSubscription(s) \/ PaymentFails(s) \/ PaymentSucceeds(s)
  \/ \E i \in DOMAIN events : handleEvent(i)

BillingSpec == BillingInit /\ [][BillingNext]_billingVars

-----------------------------------------------------------------------------
(* What it is checked for *)

\* Once every event is answered, the row says what Stripe says, although deliveries
\* are repeated at any time and the events of one batch come in any order ("details
\* arrive via the subsequent customer.subscription.* event").  Two things the code
\* does not handle are excepted: a batch that overtakes another, and a second
\* subscription beside the first.
AgreesWithStripe ==
  IF Live = {}
    THEN row.plan = "FREE" /\ row.sub = None /\ row.status \in {"INCOMPLETE", "CANCELED"}
    ELSE \A s \in Live :
           row.plan = stripe[s].price /\ row.sub = s /\ row.status = mapStatus(stripe[s].status)

RowAgreesWithStripe ==
  answered = DOMAIN events /\ ~late /\ ~doubled => AgreesWithStripe

=============================================================================
