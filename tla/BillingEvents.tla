----------------------------- MODULE BillingEvents -----------------------------
(***************************************************************************)
(* Stripe's events about one account's subscription and the webhook that   *)
(* applies them (src/src/routes/billing.ts, stripeBilling.ts).  Stripe     *)
(* delivers an event until it is answered 200: late, out of order, to two  *)
(* processes at once, again after a crash.  The webhook marks the event in *)
(* its ledger, then in one transaction takes the event's and the           *)
(* subscription's advisory locks, reads Stripe's current state and writes  *)
(* the subscription row.  A full refund is cancelled at Stripe after that  *)
(* transaction and only then marked processed.                             *)
(*                                                                         *)
(* Stripe itself is external: its subscription, its refund and its dispute *)
(* change on their own and raise an event each time.  The subscription is  *)
(* bought before the behaviour starts; users.plan, a projection of the row *)
(* written with it, and dispute_previous_status, which Stripe's own status *)
(* always overrides, are left out.  So are partial refunds (marked for an  *)
(* operator, nothing else) and events of a checkout.                       *)
(***************************************************************************)
EXTENDS Integers, FiniteSets

CONSTANTS
  Deliveries,  \* webhook requests served at the same time
  NoEvent,     \* no event
  Scripts,     \* bound: the sets of events Stripe may raise in one behaviour
  MaxFailures  \* bound: failed or dying requests

SubscriptionEvents == {"past_due", "recovered", "deleted"}
DisputeEvents == {"dispute_created", "dispute_closed"}
BillingEventNames == SubscriptionEvents \cup DisputeEvents \cup {"refunded"}

ASSUME ScriptsAssumption ==
  /\ NoEvent \notin BillingEventNames
  /\ Scripts \subseteq SUBSET BillingEventNames
  /\ MaxFailures \in Nat

VARIABLES
  script,       \* the events Stripe may raise in this behaviour
  stripe,       \* the subscription at Stripe: status, refunded, dispute
  raised,       \* events Stripe has raised
  ledger,       \* event -> billing_webhook_events.result
  subscription, \* billing_subscriptions.status; "none" once the account is deleted
  delivery,     \* request -> where it is, its event, what it has read
  failures,     \* requests that failed or died so far
  account,      \* "open" or "deleted"
  tombstone     \* billing_account_deletion_tombstones of the subscription

billingVars ==
  <<script, stripe, raised, ledger, subscription, delivery, failures, account, tombstone>>

NoDelivery ==
  [at |-> "idle", event |-> NoEvent, prior |-> "none", status |-> "none",
   dispute |-> "none"]

NoTombstone == [row |-> FALSE, confirmed |-> FALSE, deleted |-> FALSE]

\* A subscription in this status, a row that says so, and the requests that may come.
BillingInit(status, requests) ==
  /\ stripe = [status |-> status, refunded |-> FALSE, dispute |-> "none"]
  /\ raised = {}
  /\ ledger = [e \in BillingEventNames |-> "none"]
  /\ subscription = status
  /\ delivery = [d \in Deliveries |->
                   IF d \in requests THEN NoDelivery ELSE [NoDelivery EXCEPT !.at = "unused"]]
  /\ failures = 0
  /\ account = "open"
  /\ tombstone = NoTombstone

\* subscriptionGrantsPlus, within the grace period of a late payment.
Grants(status) == status \in {"active", "past_due"}

-----------------------------------------------------------------------------
(* Stripe *)

\* Stripe's object changes and the event of the change is raised.
StripeRaises(e, object) ==
  /\ e \in script /\ e \notin raised
  /\ stripe' = object
  /\ raised' = raised \cup {e}
  /\ UNCHANGED <<script, ledger, subscription, delivery, failures, account, tombstone>>

\* A payment fails, is made after all, the customer cancels, a charge is refunded in
\* full, and the bank opens and closes a dispute.
StripeChanges ==
  \/ /\ stripe.status = "active" /\ "recovered" \notin raised
     /\ StripeRaises("past_due", [stripe EXCEPT !.status = "past_due"])
  \/ /\ stripe.status = "past_due"
     /\ StripeRaises("recovered", [stripe EXCEPT !.status = "active"])
  \/ /\ stripe.status # "canceled"
     /\ StripeRaises("deleted", [stripe EXCEPT !.status = "canceled"])
  \/ StripeRaises("refunded", [stripe EXCEPT !.refunded = TRUE])
  \/ StripeRaises("dispute_created", [stripe EXCEPT !.dispute = "open"])
  \/ /\ stripe.dispute = "open"
     /\ \E outcome \in {"won", "lost"} :
          StripeRaises("dispute_closed", [stripe EXCEPT !.dispute = outcome])

\* cancelStripeSubscription: the subscription ends now, and Stripe says so in an event.
Cancelled == [stripe EXCEPT !.status = "canceled"]
RaisedByCancel == IF stripe.status = "canceled" THEN raised ELSE raised \cup {"deleted"}

-----------------------------------------------------------------------------
(* POST /billing/stripe-webhook *)

Moved(d, to) == [delivery EXCEPT ![d].at = to]
Ended(d) == [delivery EXCEPT ![d] = NoDelivery]

\* Mutant: an event that is being processed is answered as a duplicate.
ClaimedIsSettled(result) == result \in {"processing", "processed"}

\* An event in this state is answered 200 and not applied again.
IsSettled(result) == result = "processed"

\* A delivery of an event that is not settled.  A settled one changes nothing.
ReceiveEvent(d, e) ==
  /\ delivery[d].at = "idle" /\ e \in raised
  /\ ~ IsSettled(ledger[e])
  /\ delivery' = [delivery EXCEPT ![d] = [NoDelivery EXCEPT !.at = "received",
                                            !.event = e, !.prior = ledger[e]]]
  /\ UNCHANGED <<script, stripe, raised, ledger, subscription, failures, account,
                 tombstone>>

\* The ledger row is inserted, or set back to processing if it was there before: the
\* answer to "was it there" is the unlocked read above.
MarkProcessing(d) ==
  LET e == delivery[d].event
      raced == delivery[d].prior = "none" /\ ledger[e] # "none"
  IN /\ delivery[d].at = "received"
     /\ ledger' = IF raced THEN ledger ELSE [ledger EXCEPT ![e] = "processing"]
     /\ delivery' = IF raced /\ IsSettled(ledger[e]) THEN Ended(d) ELSE Moved(d, "marked")
     /\ UNCHANGED <<script, stripe, raised, subscription, failures, account, tombstone>>

\* Mutant: the transaction takes no lock on the subscription.
LockIsFreeWithout(d) ==
  \A b \in Deliveries : delivery[b].at = "locked" => delivery[b].event # delivery[d].event

\* No other transaction holds the locks of the event and the subscription.
LockIsFree(d) == \A b \in Deliveries : delivery[b].at # "locked"

\* The transaction has its locks, asks the ledger again and reads Stripe.
LockAndRead(d) ==
  /\ delivery[d].at = "marked" /\ LockIsFree(d)
  /\ delivery' = IF IsSettled(ledger[delivery[d].event]) THEN Ended(d)
                 ELSE [delivery EXCEPT ![d].at = "locked", ![d].status = stripe.status,
                                       ![d].dispute = stripe.dispute]
  /\ UNCHANGED <<script, stripe, raised, ledger, subscription, failures, account,
                 tombstone>>

\* What the event makes of the row: Stripe's current status, not the event's, except
\* while a dispute is open, after one is lost, and after a refund.
NextStatus(v) ==
  CASE v.event = "refunded" -> "refunded"
    [] v.event \in DisputeEvents /\ v.dispute = "open" -> "disputed"
    [] v.event \in DisputeEvents /\ v.dispute = "lost" -> "canceled"
    [] OTHER -> v.status

\* Mutant: a refund is marked processed in the transaction, before the cancellation.
MarkAtOnce(e) == TRUE

\* A full refund is marked processed after the cancellation only.
MarkedInTransaction(e) == e # "refunded"

\* The transaction writes the row and the ledger, and commits.  Without an account the
\* cancellation event is settled by a complete tombstone; anything else throws.
Apply(d) ==
  LET e == delivery[d].event
      tombstoned == e = "deleted" /\ tombstone.confirmed /\ tombstone.deleted
      processed == [ledger EXCEPT ![e] = "processed"]
  IN /\ delivery[d].at = "locked"
     /\ \/ /\ account = "open"
           /\ subscription' = NextStatus(delivery[d])
           /\ ledger' = IF MarkedInTransaction(e) THEN processed ELSE ledger
           /\ delivery' = IF e = "refunded" THEN Moved(d, "refunded") ELSE Ended(d)
        \/ /\ account = "deleted" /\ tombstoned
           /\ ledger' = processed /\ delivery' = Ended(d) /\ UNCHANGED subscription
        \/ /\ account = "deleted" /\ ~ tombstoned
           /\ ledger' = [ledger EXCEPT ![e] = "failed"]
           /\ delivery' = Ended(d) /\ UNCHANGED subscription
     /\ UNCHANGED <<script, stripe, raised, failures, account, tombstone>>

\* The refunded subscription is cancelled at Stripe, after the commit.
CancelRefunded(d) ==
  /\ delivery[d].at = "refunded"
  /\ stripe' = Cancelled /\ raised' = RaisedByCancel
  /\ delivery' = Moved(d, "cancelled")
  /\ UNCHANGED <<script, ledger, subscription, failures, account, tombstone>>

MarkRefundProcessed(d) ==
  /\ delivery[d].at = "cancelled"
  /\ ledger' = [ledger EXCEPT ![delivery[d].event] = "processed"]
  /\ delivery' = Ended(d)
  /\ UNCHANGED <<script, stripe, raised, subscription, failures, account, tombstone>>

\* Stripe or the database throws: the transaction rolls back, the event is marked
\* failed whatever its row says, and Stripe gets a 500.
DeliveryFails(d) ==
  /\ delivery[d].at \in {"marked", "locked", "refunded", "cancelled"}
  /\ failures < MaxFailures /\ failures' = failures + 1
  /\ ledger' = [ledger EXCEPT ![delivery[d].event] = "failed"]
  /\ delivery' = Ended(d)
  /\ UNCHANGED <<script, stripe, raised, subscription, account, tombstone>>

\* Stripe may refuse to cancel what is already cancelled.
CancelRefused(d) ==
  /\ delivery[d].at = "refunded" /\ stripe.status = "canceled"
  /\ ledger' = [ledger EXCEPT ![delivery[d].event] = "failed"]
  /\ delivery' = Ended(d)
  /\ UNCHANGED <<script, stripe, raised, subscription, failures, account, tombstone>>

\* The process dies with the request.
DeliveryDies(d) ==
  /\ delivery[d].at \notin {"idle", "unused"}
  /\ failures < MaxFailures /\ failures' = failures + 1
  /\ delivery' = Ended(d)
  /\ UNCHANGED <<script, stripe, raised, ledger, subscription, account, tombstone>>

DeliveryStep(d) ==
  \/ MarkProcessing(d) \/ LockAndRead(d) \/ Apply(d)
  \/ CancelRefunded(d) \/ MarkRefundProcessed(d)

BillingNext ==
  \/ StripeChanges
  \/ \E d \in Deliveries : \/ \E e \in BillingEventNames : ReceiveEvent(d, e)
                           \/ DeliveryStep(d) \/ DeliveryFails(d) \/ CancelRefused(d)
                           \/ DeliveryDies(d)

\* Stripe delivers the events of a refund and of a cancellation again until they are
\* settled, and a request that neither fails nor dies goes on.  Nothing is asked of the
\* other events.
BillingFairness ==
  /\ \A d \in Deliveries : WF_billingVars(DeliveryStep(d))
  /\ \A e \in {"refunded", "deleted"} : SF_billingVars(\E d \in Deliveries : ReceiveEvent(d, e))

-----------------------------------------------------------------------------
(* Properties *)

\* A refund answered 200 has ended the subscription at Stripe, however the request that
\* wrote the row failed and whichever delivery came after it.
RefundCancels == ledger["refunded"] = "processed" => stripe.status = "canceled"

AllSettled ==
  /\ \A e \in raised : ledger[e] = "processed"
  /\ \A d \in Deliveries : delivery[d].at \in {"idle", "unused"}

\* The statuses Stripe's present state explains.
Explained ==
  {stripe.status} \cup (IF stripe.dispute = "open" THEN {"disputed"} ELSE {})
                  \cup (IF stripe.dispute = "lost" THEN {"canceled"} ELSE {})
                  \cup (IF stripe.refunded THEN {"refunded"} ELSE {})

\* When every event is settled, the row says what Stripe says: no order, overlap or
\* repetition of deliveries leaves the state of an older event behind.
SettledRowIsCurrent == AllSettled /\ account = "open" => subscription \in Explained

\* Access paid for with a refunded charge ends, and does not come back with a later
\* delivery of an older event.
RefundEndsAccess == stripe.refunded ~> []~ Grants(subscription)

=============================================================================
