----------------------------- MODULE ServicesProofs -----------------------------
(***************************************************************************)
(* What holds of the services beside the submission: the billing webhook,  *)
(* the deletion of an account, the metered work on a company and the       *)
(* recovery of an outcome, for any number of requests, sessions, workers   *)
(* and operations.                                                         *)
(***************************************************************************)
EXTENDS Services, TLAPS

-----------------------------------------------------------------------------
(* Billing: the inductive invariant *)

LedgerResults == {"none", "processing", "processed", "failed"}
Disputes == {"none", "open", "won", "lost"}
StripeObjects ==
  [status : {"active", "past_due", "canceled"}, refunded : BOOLEAN, dispute : Disputes]
DeliveryRecords ==
  [at : {"unused", "idle", "received", "marked", "locked", "refunded", "cancelled"},
   event : BillingEventNames \cup {NoEvent}, prior : LedgerResults,
   status : {"none", "active", "past_due", "canceled"}, dispute : Disputes]

BillingTypes ==
  /\ stripe \in StripeObjects
  /\ raised \subseteq BillingEventNames
  /\ ledger \in [BillingEventNames -> LedgerResults]
  /\ delivery \in [Deliveries -> DeliveryRecords]
  /\ account \in {"open", "deleted"}

Busy(d) == delivery[d].at \notin {"idle", "unused"}

\* A delivery that has written a refund's row and has not marked it processed.
Refunding(d) == delivery[d].at \in {"refunded", "cancelled"}

\* What the ledger and the deliveries know of was raised, and Stripe is in the state it raised.
StripeKnows ==
  /\ "refunded" \in raised => stripe.refunded
  /\ "deleted" \in raised => stripe.status = "canceled"
  /\ \A e \in BillingEventNames : ledger[e] # "none" => e \in raised
  /\ \A d \in Deliveries : Busy(d) => delivery[d].event \in raised

\* A refund is marked processed by a delivery that has cancelled the subscription.
RefundKnows ==
  /\ \A d \in Deliveries : Refunding(d) => delivery[d].event = "refunded"
  /\ \A d \in Deliveries : delivery[d].at = "cancelled" => stripe.status = "canceled"
  /\ ledger["refunded"] = "processed" => stripe.status = "canceled"

\* One transaction holds the subscription's lock.
OneLocked ==
  \A b, d \in Deliveries : delivery[b].at = "locked" /\ delivery[d].at = "locked" => b = d

\* An event that was raised, is not settled, and has yet to write the row.
Due(e) ==
  /\ e \in raised /\ ledger[e] # "processed"
  /\ \A d \in Deliveries : Refunding(d) => delivery[d].event # e

\* A row that says other than Stripe has an event coming that will write it again.
StaleIsDue ==
  account = "open" /\ subscription \notin Explained => \E e \in BillingEventNames : Due(e)

\* So has a transaction whose reading of Stripe is out of date, besides its own event.
LockedStale ==
  \A d \in Deliveries :
    delivery[d].at = "locked" /\ NextStatus(delivery[d]) \notin Explained
    => \E e \in BillingEventNames : Due(e) /\ e # delivery[d].event

BillingInv ==
  BillingTypes /\ StripeKnows /\ RefundKnows /\ OneLocked /\ StaleIsDue /\ LockedStale

-----------------------------------------------------------------------------
(* Billing: what a step does to the deliveries *)

\* Delivery d becomes the given one and the others stay.
LEMMA DeliveryBecomes ==
  ASSUME BillingTypes, NEW d \in Deliveries, NEW v \in DeliveryRecords,
         delivery' = [delivery EXCEPT ![d] = v]
  PROVE  /\ delivery' \in [Deliveries -> DeliveryRecords] /\ delivery'[d] = v
         /\ \A b \in Deliveries : b # d => delivery'[b] = delivery[b]
BY DEF BillingTypes

LEMMA NoDeliveryType ==
  /\ NoDelivery \in DeliveryRecords
  /\ NoDelivery.at = "idle"
BY DEF NoDelivery, DeliveryRecords, LedgerResults, Disputes

\* The record of a delivery that moves on.
LEMMA MovedDelivery ==
  ASSUME BillingTypes, NEW d \in Deliveries,
         NEW to \in {"received", "marked", "locked", "refunded", "cancelled"},
         delivery' = Moved(d, to)
  PROVE  /\ delivery' \in [Deliveries -> DeliveryRecords]
         /\ delivery'[d].at = to /\ delivery'[d].event = delivery[d].event
         /\ \A b \in Deliveries : b # d => delivery'[b] = delivery[b]
<1>1. delivery \in [Deliveries -> DeliveryRecords] /\ delivery[d] \in DeliveryRecords
  BY DEF BillingTypes
<1> DEFINE v == [delivery[d] EXCEPT !.at = to]
<1>2. v \in DeliveryRecords /\ v.at = to /\ v.event = delivery[d].event
  BY <1>1 DEF DeliveryRecords
<1>3. delivery' = [delivery EXCEPT ![d] = v]
  BY <1>1 DEF Moved
<1> HIDE DEF v
<1> QED
  BY <1>2, <1>3, DeliveryBecomes

LEMMA EndedDelivery ==
  ASSUME BillingTypes, NEW d \in Deliveries, delivery' = Ended(d)
  PROVE  /\ delivery' \in [Deliveries -> DeliveryRecords]
         /\ delivery'[d].at = "idle"
         /\ \A b \in Deliveries : b # d => delivery'[b] = delivery[b]
BY DeliveryBecomes, NoDeliveryType DEF Ended

\* What the ledger may say after a step.
LEMMA LedgerTypes ==
  ASSUME BillingTypes, NEW e \in BillingEventNames, NEW r \in LedgerResults,
         ledger' = [ledger EXCEPT ![e] = r]
  PROVE  /\ ledger' \in [BillingEventNames -> LedgerResults] /\ ledger'[e] = r
         /\ \A f \in BillingEventNames : f # e => ledger'[f] = ledger[f]
BY DEF BillingTypes

LEMMA BillingNames ==
  /\ "refunded" \in BillingEventNames /\ "deleted" \in BillingEventNames
  /\ {"none", "processing", "processed", "failed"} = LedgerResults
BY DEF BillingEventNames, SubscriptionEvents, LedgerResults

\* The steps of one delivery that neither lock nor write the row: no event that is due ceases
\* to be, and Stripe stays.
LEMMA BillingFrame ==
  ASSUME BillingInv, BillingTypes', NEW d \in Deliveries,
         UNCHANGED <<stripe, raised, account, subscription>>,
         \A b \in Deliveries : b # d => delivery'[b] = delivery[b],
         delivery'[d].at # "locked",
         delivery'[d].at \in {"refunded", "cancelled"} =>
           Refunding(d) /\ delivery'[d].event = delivery[d].event,
         delivery'[d].at = "cancelled" => stripe.status = "canceled",
         delivery'[d].at \notin {"idle", "unused"} => delivery'[d].event \in raised,
         \A e \in BillingEventNames :
           /\ ledger'[e] = "processed" => ledger[e] = "processed"
           /\ ledger'[e] # "none" => e \in raised
  PROVE  BillingInv'
<1>1. StripeKnows'
  BY DEF BillingInv, StripeKnows, Busy
<1>2. RefundKnows'
  BY BillingNames DEF BillingInv, RefundKnows, Refunding
<1>3. OneLocked'
  BY DEF BillingInv, OneLocked
<1>4. \A e \in BillingEventNames : Due(e) => Due(e)'
  BY DEF Due, Refunding
<1>5. Explained' = Explained
  BY DEF Explained
<1>6. StaleIsDue'
  BY <1>4, <1>5 DEF BillingInv, StaleIsDue
<1>7. LockedStale'
  BY <1>4, <1>5 DEF BillingInv, LockedStale
<1> QED
  BY <1>1, <1>2, <1>3, <1>6, <1>7 DEF BillingInv

-----------------------------------------------------------------------------
(* Billing: the steps *)

\* Stripe's object changes and raises its event; a refund's delivery may be the one that
\* cancelled it.
LEMMA StripeMoves ==
  ASSUME BillingInv, BillingTypes', NEW e \in BillingEventNames, e \notin raised,
         raised' = raised \cup {e}, UNCHANGED <<ledger, subscription, account>>,
         stripe.status = "canceled" => stripe'.status = "canceled",
         stripe.refunded => stripe'.refunded,
         e = "refunded" => stripe'.refunded, e = "deleted" => stripe'.status = "canceled",
         \A d \in Deliveries :
           \/ delivery'[d] = delivery[d]
           \/ /\ delivery[d].at = "refunded" /\ delivery'[d].at = "cancelled"
              /\ delivery'[d].event = delivery[d].event /\ stripe'.status = "canceled"
  PROVE  BillingInv'
<1>1. StripeKnows'
  BY DEF BillingInv, StripeKnows, Busy
<1>2. RefundKnows'
  BY BillingNames DEF BillingInv, RefundKnows, Refunding
<1>3. OneLocked'
  BY DEF BillingInv, OneLocked
<1>4. \A d \in Deliveries : Busy(d) => delivery[d].event # e
  BY DEF BillingInv, StripeKnows
<1>5. Due(e)'
  <2>1. ledger[e] # "processed"
    BY DEF BillingInv, StripeKnows
  <2>2. \A d \in Deliveries : delivery'[d].at \in {"refunded", "cancelled"} => delivery'[d].event # e
    BY <1>4 DEF Busy
  <2> QED
    BY <2>1, <2>2 DEF Due, Refunding
<1>6. StaleIsDue'
  BY <1>5 DEF StaleIsDue
<1>7. LockedStale'
  <2>1. \A d \in Deliveries : delivery'[d].at = "locked" => delivery'[d].event # e
    BY <1>4 DEF Busy
  <2> QED
    BY <1>5, <2>1 DEF LockedStale
<1> QED
  BY <1>1, <1>2, <1>3, <1>6, <1>7 DEF BillingInv

\* The fields of what Stripe's object becomes.
LEMMA StripeFields ==
  ASSUME BillingTypes
  PROVE  /\ \A x \in {"active", "past_due", "canceled"} :
              /\ [stripe EXCEPT !.status = x] \in StripeObjects
              /\ [stripe EXCEPT !.status = x].status = x
              /\ [stripe EXCEPT !.status = x].refunded = stripe.refunded
         /\ \A x \in Disputes :
              /\ [stripe EXCEPT !.dispute = x] \in StripeObjects
              /\ [stripe EXCEPT !.dispute = x].status = stripe.status
              /\ [stripe EXCEPT !.dispute = x].refunded = stripe.refunded
         /\ [stripe EXCEPT !.refunded = TRUE] \in StripeObjects
         /\ [stripe EXCEPT !.refunded = TRUE].status = stripe.status
         /\ [stripe EXCEPT !.refunded = TRUE].refunded
BY DEF BillingTypes, StripeObjects

LEMMA StripeChangesInv ==
  ASSUME BillingInv, StripeChanges PROVE BillingInv'
<1> DEFINE raises(e, object) ==
      /\ e \in BillingEventNames /\ object \in StripeObjects
      /\ stripe.status = "canceled" => object.status = "canceled"
      /\ stripe.refunded => object.refunded
      /\ e = "refunded" => object.refunded
      /\ e = "deleted" => object.status = "canceled"
<1>1. ASSUME NEW e, NEW object, StripeRaises(e, object), raises(e, object) PROVE BillingInv'
  <2>1. /\ stripe' = object /\ raised' = raised \cup {e} /\ e \notin raised
        /\ UNCHANGED <<ledger, subscription, account, delivery>>
    BY <1>1 DEF StripeRaises
  <2>2. BillingTypes'
    BY <1>1, <2>1 DEF BillingInv, BillingTypes
  <2> QED
    BY <1>1, <2>1, <2>2, StripeMoves
<1>2. BillingTypes
  BY DEF BillingInv
<1>3. CASE stripe.status = "active" /\ StripeRaises("past_due", [stripe EXCEPT !.status = "past_due"])
  <2>1. raises("past_due", [stripe EXCEPT !.status = "past_due"])
    BY <1>2, <1>3, StripeFields DEF BillingEventNames, SubscriptionEvents
  <2> QED
    BY <1>1, <1>3, <2>1
<1>4. CASE stripe.status = "past_due" /\ StripeRaises("recovered", [stripe EXCEPT !.status = "active"])
  <2>1. raises("recovered", [stripe EXCEPT !.status = "active"])
    BY <1>2, <1>4, StripeFields DEF BillingEventNames, SubscriptionEvents
  <2> QED
    BY <1>1, <1>4, <2>1
<1>5. CASE StripeRaises("deleted", [stripe EXCEPT !.status = "canceled"])
  <2>1. raises("deleted", [stripe EXCEPT !.status = "canceled"])
    BY <1>2, StripeFields DEF BillingEventNames, SubscriptionEvents
  <2> QED
    BY <1>1, <1>5, <2>1
<1>6. CASE StripeRaises("refunded", [stripe EXCEPT !.refunded = TRUE])
  <2>1. raises("refunded", [stripe EXCEPT !.refunded = TRUE])
    BY <1>2, StripeFields DEF BillingEventNames
  <2> QED
    BY <1>1, <1>6, <2>1
<1>7. CASE StripeRaises("dispute_created", [stripe EXCEPT !.dispute = "open"])
  <2>1. raises("dispute_created", [stripe EXCEPT !.dispute = "open"])
    BY <1>2, StripeFields DEF BillingEventNames, DisputeEvents, Disputes
  <2> QED
    BY <1>1, <1>7, <2>1
<1>8. ASSUME NEW x \in {"won", "lost"}, StripeRaises("dispute_closed", [stripe EXCEPT !.dispute = x])
      PROVE  BillingInv'
  <2>1. raises("dispute_closed", [stripe EXCEPT !.dispute = x])
    BY <1>2, StripeFields DEF BillingEventNames, DisputeEvents, Disputes
  <2> QED
    BY <1>1, <1>8, <2>1
<1> QED
  BY <1>3, <1>4, <1>5, <1>6, <1>7, <1>8 DEF StripeChanges

\* A cancellation of the subscription, by a refund's delivery or by a deletion.
LEMMA CancelInv ==
  ASSUME BillingInv, stripe' = Cancelled, raised' = RaisedByCancel,
         UNCHANGED <<ledger, subscription, account>>,
         \/ UNCHANGED delivery
         \/ \E d \in Deliveries : delivery[d].at = "refunded" /\ delivery' = Moved(d, "cancelled")
  PROVE  BillingInv'
<1>1. BillingTypes
  BY DEF BillingInv
<1>2. stripe' \in StripeObjects /\ stripe'.status = "canceled" /\ stripe'.refunded = stripe.refunded
  BY <1>1, StripeFields DEF Cancelled
<1>3. delivery' \in [Deliveries -> DeliveryRecords]
  BY <1>1, MovedDelivery DEF BillingTypes
<1>4. \A d \in Deliveries :
        \/ delivery'[d] = delivery[d]
        \/ /\ delivery[d].at = "refunded" /\ delivery'[d].at = "cancelled"
           /\ delivery'[d].event = delivery[d].event /\ stripe'.status = "canceled"
  BY <1>1, <1>2, MovedDelivery
<1>5. CASE stripe.status # "canceled"
  <2>1. raised' = raised \cup {"deleted"} /\ "deleted" \notin raised
    BY <1>5 DEF RaisedByCancel, BillingInv, StripeKnows
  <2>2. BillingTypes'
    BY <1>1, <1>2, <1>3, <2>1, BillingNames DEF BillingTypes
  <2> QED
    BY <1>2, <1>4, <1>5, <2>1, <2>2, BillingNames, StripeMoves
<1>6. CASE stripe.status = "canceled"
  <2>1. raised' = raised
    BY <1>6 DEF RaisedByCancel
  <2>2. stripe' = stripe
    <3>1. stripe \in StripeObjects
      BY <1>1 DEF BillingTypes
    <3>2. [stripe EXCEPT !.status = "canceled"] = stripe
      BY <1>6, <3>1 DEF StripeObjects
    <3> QED
      BY <3>2 DEF Cancelled
  <2>3. BillingTypes'
    BY <1>1, <1>2, <1>3, <2>1 DEF BillingTypes
  <2>4. StripeKnows'
    BY <1>4, <2>1, <2>2 DEF BillingInv, StripeKnows, Busy
  <2>5. RefundKnows'
    BY <1>4, <1>6, <2>2 DEF BillingInv, RefundKnows, Refunding
  <2>6. OneLocked'
    BY <1>4 DEF BillingInv, OneLocked
  <2>7. \A e \in BillingEventNames : Due(e) => Due(e)'
    BY <1>4, <2>1 DEF Due, Refunding
  <2>8. Explained' = Explained
    BY <2>2 DEF Explained
  <2>9. StaleIsDue'
    BY <2>7, <2>8 DEF BillingInv, StaleIsDue
  <2>10. LockedStale'
    BY <1>4, <2>7, <2>8 DEF BillingInv, LockedStale
  <2> QED
    BY <2>3, <2>4, <2>5, <2>6, <2>9, <2>10 DEF BillingInv
<1> QED
  BY <1>5, <1>6

LEMMA ReceiveEventInv ==
  ASSUME BillingInv, NEW d \in Deliveries, NEW e \in BillingEventNames, ReceiveEvent(d, e)
  PROVE  BillingInv'
<1>1. BillingTypes /\ ledger[e] \in LedgerResults
  BY DEF BillingInv, BillingTypes
<1> DEFINE v == [NoDelivery EXCEPT !.at = "received", !.event = e, !.prior = ledger[e]]
<1>2. v \in DeliveryRecords /\ v.at = "received" /\ v.event = e
  BY <1>1 DEF NoDelivery, DeliveryRecords, Disputes
<1>3. delivery' = [delivery EXCEPT ![d] = v] /\ e \in raised
      /\ UNCHANGED <<stripe, raised, ledger, account, subscription>>
  BY DEF ReceiveEvent
<1> HIDE DEF v
<1>4. /\ delivery' \in [Deliveries -> DeliveryRecords] /\ delivery'[d] = v
      /\ \A b \in Deliveries : b # d => delivery'[b] = delivery[b]
  BY <1>1, <1>2, <1>3, DeliveryBecomes
<1>5. BillingTypes'
  BY <1>1, <1>3, <1>4 DEF BillingTypes
<1>6. \A f \in BillingEventNames : ledger[f] # "none" => f \in raised
  BY DEF BillingInv, StripeKnows
<1> QED
  BY <1>2, <1>3, <1>4, <1>5, <1>6, BillingFrame

\* A delivery ends and the ledger says no more of it than that it failed or is processed again.
LEMMA DeliveryEndsInv ==
  ASSUME BillingInv, NEW d \in Deliveries, delivery' = Ended(d),
         UNCHANGED <<stripe, raised, account, subscription>>,
         \/ UNCHANGED ledger
         \/ Busy(d) /\ ledger' = [ledger EXCEPT ![delivery[d].event] = "failed"]
  PROVE  BillingInv'
<1>1. BillingTypes
  BY DEF BillingInv
<1>2. /\ delivery' \in [Deliveries -> DeliveryRecords] /\ delivery'[d].at = "idle"
      /\ \A b \in Deliveries : b # d => delivery'[b] = delivery[b]
  BY <1>1, EndedDelivery
<1>3. Busy(d) => delivery[d].event \in raised /\ delivery[d].event \in BillingEventNames
  BY <1>1 DEF BillingInv, StripeKnows, BillingTypes
<1>4. /\ ledger' \in [BillingEventNames -> LedgerResults]
      /\ \A e \in BillingEventNames :
           /\ ledger'[e] = "processed" => ledger[e] = "processed"
           /\ ledger'[e] # "none" => e \in raised
  <2>1. \A e \in BillingEventNames : ledger[e] # "none" => e \in raised
    BY DEF BillingInv, StripeKnows
  <2>2. CASE UNCHANGED ledger
    BY <1>1, <2>1, <2>2 DEF BillingTypes
  <2>3. CASE Busy(d) /\ ledger' = [ledger EXCEPT ![delivery[d].event] = "failed"]
    <3>1. "failed" \in LedgerResults
      BY BillingNames
    <3>2. /\ ledger' \in [BillingEventNames -> LedgerResults]
          /\ ledger'[delivery[d].event] = "failed"
          /\ \A f \in BillingEventNames : f # delivery[d].event => ledger'[f] = ledger[f]
      BY <1>1, <1>3, <2>3, <3>1, LedgerTypes
    <3> QED
      BY <1>3, <2>1, <2>3, <3>2
  <2> QED
    BY <2>2, <2>3
<1>5. BillingTypes'
  BY <1>1, <1>2, <1>4 DEF BillingTypes
<1> QED
  BY <1>2, <1>4, <1>5, BillingFrame

LEMMA MarkProcessingInv ==
  ASSUME BillingInv, NEW d \in Deliveries, MarkProcessing(d) PROVE BillingInv'
<1> DEFINE e == delivery[d].event
           raced == delivery[d].prior = "none" /\ ledger[e] # "none"
<1>1. BillingTypes /\ delivery[d].at = "received" /\ Busy(d)
  BY DEF BillingInv, MarkProcessing, Busy
<1>2. e \in raised /\ e \in BillingEventNames
  BY <1>1 DEF BillingInv, StripeKnows, BillingTypes
<1>3. UNCHANGED <<stripe, raised, account, subscription>>
  BY DEF MarkProcessing
<1>4. CASE raced /\ IsSettled(ledger[e])
  BY <1>3, <1>4, DeliveryEndsInv DEF MarkProcessing
<1>5. CASE ~ (raced /\ IsSettled(ledger[e]))
  <2>1. delivery' = Moved(d, "marked")
    BY <1>5 DEF MarkProcessing
  <2>2. /\ delivery' \in [Deliveries -> DeliveryRecords]
        /\ delivery'[d].at = "marked" /\ delivery'[d].event = e
        /\ \A b \in Deliveries : b # d => delivery'[b] = delivery[b]
    BY <1>1, <2>1, MovedDelivery
  <2>3. ledger' = ledger \/ ledger' = [ledger EXCEPT ![e] = "processing"]
    BY DEF MarkProcessing
  <2> HIDE DEF e, raced
  <2>4. /\ ledger' \in [BillingEventNames -> LedgerResults]
        /\ \A f \in BillingEventNames :
             /\ ledger'[f] = "processed" => ledger[f] = "processed"
             /\ ledger'[f] # "none" => f \in raised
    <3>1. \A f \in BillingEventNames : ledger[f] # "none" => f \in raised
      BY DEF BillingInv, StripeKnows
    <3>2. CASE UNCHANGED ledger
      BY <1>1, <3>1, <3>2 DEF BillingTypes
    <3>3. CASE ledger' = [ledger EXCEPT ![e] = "processing"]
      <4>1. "processing" \in LedgerResults
        BY BillingNames
      <4>2. /\ ledger' \in [BillingEventNames -> LedgerResults] /\ ledger'[e] = "processing"
            /\ \A f \in BillingEventNames : f # e => ledger'[f] = ledger[f]
        BY <1>1, <1>2, <3>3, <4>1, LedgerTypes
      <4> QED
        BY <1>2, <3>1, <4>2
    <3> QED
      BY <2>3, <3>2, <3>3
  <2>5. BillingTypes'
    BY <1>1, <1>3, <2>2, <2>4 DEF BillingTypes
  <2> QED
    BY <1>2, <1>3, <2>2, <2>4, <2>5, BillingFrame
<1> QED
  BY <1>4, <1>5

\* The statuses a transaction writes from a reading of Stripe as it is are explained by Stripe.
LEMMA CurrentReading ==
  ASSUME BillingInv, NEW v \in DeliveryRecords, v.event \in raised,
         v.status = stripe.status, v.dispute = stripe.dispute
  PROVE  NextStatus(v) \in Explained
<1>1. "refunded" \in raised => stripe.refunded
  BY DEF BillingInv, StripeKnows
<1>2. CASE v.event = "refunded"
  BY <1>1, <1>2 DEF NextStatus, Explained
<1>3. CASE v.event # "refunded" /\ v.event \in DisputeEvents /\ v.dispute = "open"
  BY <1>3 DEF NextStatus, Explained
<1>4. CASE v.event # "refunded" /\ v.event \in DisputeEvents /\ v.dispute = "lost"
  BY <1>4 DEF NextStatus, Explained
<1>5. CASE v.event # "refunded" /\ ~ (v.event \in DisputeEvents /\ v.dispute \in {"open", "lost"})
  BY <1>5 DEF NextStatus, Explained
<1> QED
  BY <1>2, <1>3, <1>4, <1>5

LEMMA LockAndReadInv ==
  ASSUME BillingInv, NEW d \in Deliveries, LockAndRead(d) PROVE BillingInv'
<1>1. /\ BillingTypes /\ delivery[d].at = "marked" /\ Busy(d) /\ LockIsFree(d)
      /\ UNCHANGED <<stripe, raised, ledger, account, subscription>>
  BY DEF BillingInv, LockAndRead, Busy
<1>2. CASE IsSettled(ledger[delivery[d].event])
  BY <1>1, <1>2, DeliveryEndsInv DEF LockAndRead
<1>3. CASE ~ IsSettled(ledger[delivery[d].event])
  <2>1. delivery[d] \in DeliveryRecords /\ stripe \in StripeObjects /\ delivery[d].event \in raised
    BY <1>1 DEF BillingTypes, BillingInv, StripeKnows
  <2> DEFINE r == delivery[d]
             v == [r EXCEPT !.at = "locked", !.status = stripe.status, !.dispute = stripe.dispute]
  <2>2. delivery' = [delivery EXCEPT ![d] = v]
    BY <1>1, <1>3, <2>1 DEF LockAndRead, BillingTypes
  <2>3. v \in DeliveryRecords /\ v.at = "locked" /\ v.event = delivery[d].event
        /\ v.status = stripe.status /\ v.dispute = stripe.dispute
    BY <2>1 DEF DeliveryRecords, StripeObjects
  <2> HIDE DEF v, r
  <2>4. /\ delivery' \in [Deliveries -> DeliveryRecords] /\ delivery'[d] = v
        /\ \A b \in Deliveries : b # d => delivery'[b] = delivery[b]
    BY <1>1, <2>2, <2>3, DeliveryBecomes
  <2>5. NextStatus(v) \in Explained
    BY <2>1, <2>3, CurrentReading
  <2>6. BillingTypes'
    BY <1>1, <2>4 DEF BillingTypes
  <2>7. StripeKnows'
    BY <1>1, <2>1, <2>3, <2>4 DEF BillingInv, StripeKnows, Busy
  <2>8. RefundKnows'
    BY <1>1, <2>3, <2>4 DEF BillingInv, RefundKnows, Refunding
  <2>9. OneLocked'
    BY <1>1, <2>4 DEF LockIsFree, OneLocked
  <2>10. \A e \in BillingEventNames : Due(e) => Due(e)'
    BY <1>1, <2>3, <2>4 DEF Due, Refunding
  <2>11. Explained' = Explained
    BY <1>1 DEF Explained
  <2>12. StaleIsDue'
    BY <1>1, <2>10, <2>11 DEF BillingInv, StaleIsDue
  <2>13. LockedStale'
    <3> SUFFICES ASSUME NEW b \in Deliveries, delivery'[b].at = "locked"
                 PROVE  NextStatus(delivery'[b]) \in Explained'
      BY DEF LockedStale
    <3>1. b = d
      BY <1>1, <2>4 DEF LockIsFree
    <3> QED
      BY <2>4, <2>5, <2>11, <3>1
  <2> QED
    BY <2>6, <2>7, <2>8, <2>9, <2>12, <2>13 DEF BillingInv
<1> QED
  BY <1>2, <1>3

\* The transaction that had the lock is over: nobody has it, and what it wrote of other events
\* leaves them due.
LEMMA ApplyInv ==
  ASSUME BillingInv, NEW d \in Deliveries, Apply(d) PROVE BillingInv'
<1> DEFINE e == delivery[d].event
<1>1. BillingTypes /\ delivery[d].at = "locked" /\ Busy(d) /\ UNCHANGED <<stripe, raised, account>>
  BY DEF BillingInv, Apply, Busy
<1>2. e \in raised /\ e \in BillingEventNames
  BY <1>1 DEF BillingInv, StripeKnows, BillingTypes
<1>3. \A b \in Deliveries : delivery[b].at = "locked" => b = d
  BY <1>1 DEF BillingInv, OneLocked
<1>4. CASE /\ account = "deleted"
           /\ ledger' = [ledger EXCEPT ![e] = "failed"] /\ delivery' = Ended(d) /\ UNCHANGED subscription
  BY <1>1, <1>4, DeliveryEndsInv
<1>5. CASE /\ account = "deleted" /\ e = "deleted"
           /\ ledger' = [ledger EXCEPT ![e] = "processed"] /\ delivery' = Ended(d)
  <2> HIDE DEF e
  <2>1. /\ delivery' \in [Deliveries -> DeliveryRecords] /\ delivery'[d].at = "idle"
        /\ \A b \in Deliveries : b # d => delivery'[b] = delivery[b]
    BY <1>1, <1>5, EndedDelivery
  <2>2. /\ ledger' \in [BillingEventNames -> LedgerResults]
        /\ \A f \in BillingEventNames : f # e => ledger'[f] = ledger[f]
    BY <1>1, <1>2, <1>5, BillingNames, LedgerTypes
  <2>3. BillingTypes'
    BY <1>1, <2>1, <2>2 DEF BillingTypes
  <2>4. StripeKnows'
    BY <1>1, <1>2, <2>1, <2>2 DEF BillingInv, StripeKnows, Busy
  <2>5. RefundKnows'
    <3>1. ledger'["refunded"] = ledger["refunded"]
      BY <1>5, <2>2, BillingNames
    <3> QED
      BY <1>1, <2>1, <3>1 DEF BillingInv, RefundKnows, Refunding
  <2>6. OneLocked' /\ StaleIsDue' /\ LockedStale'
    BY <1>1, <1>3, <1>5, <2>1 DEF OneLocked, StaleIsDue, LockedStale
  <2> QED
    BY <2>3, <2>4, <2>5, <2>6 DEF BillingInv
<1>6. CASE /\ account = "open" /\ subscription' = NextStatus(delivery[d])
           /\ ledger' = IF MarkedInTransaction(e) THEN [ledger EXCEPT ![e] = "processed"] ELSE ledger
           /\ delivery' = IF e = "refunded" THEN Moved(d, "refunded") ELSE Ended(d)
  <2>1. /\ delivery' \in [Deliveries -> DeliveryRecords]
        /\ delivery'[d].at = IF e = "refunded" THEN "refunded" ELSE "idle"
        /\ e = "refunded" => delivery'[d].event = e
        /\ \A b \in Deliveries : b # d => delivery'[b] = delivery[b]
    BY <1>1, <1>6, EndedDelivery, MovedDelivery
  <2> DEFINE next == NextStatus(delivery[d])
  <2>2. subscription' = next
        /\ (next \notin Explained => \E f \in BillingEventNames : Due(f) /\ f # e)
    BY <1>1, <1>6 DEF BillingInv, LockedStale
  <2> HIDE DEF e, next
  <2>3. /\ ledger' \in [BillingEventNames -> LedgerResults]
        /\ \A f \in BillingEventNames : f # e => ledger'[f] = ledger[f]
        /\ e = "refunded" => ledger' = ledger
    <3>1. CASE e # "refunded"
      BY <1>1, <1>2, <1>6, <3>1, BillingNames, LedgerTypes DEF MarkedInTransaction
    <3>2. CASE e = "refunded"
      BY <1>1, <1>6, <3>2 DEF MarkedInTransaction, BillingTypes
    <3> QED
      BY <3>1, <3>2
  <2>4. BillingTypes'
    BY <1>1, <2>1, <2>3 DEF BillingTypes
  <2>5. StripeKnows'
    BY <1>1, <1>2, <2>1, <2>3 DEF BillingInv, StripeKnows, Busy
  <2>6. RefundKnows'
    <3>1. ledger'["refunded"] = ledger["refunded"]
      BY <2>3, BillingNames
    <3> QED
      BY <1>1, <2>1, <3>1 DEF BillingInv, RefundKnows, Refunding
  <2>7. OneLocked' /\ LockedStale'
    BY <1>3, <2>1 DEF OneLocked, LockedStale
  <2>8. \A f \in BillingEventNames : Due(f) /\ f # e => Due(f)'
    BY <1>1, <2>1, <2>3 DEF Due, Refunding
  <2>9. Explained' = Explained
    BY <1>1 DEF Explained
  <2>10. StaleIsDue'
    BY <2>2, <2>8, <2>9 DEF StaleIsDue
  <2> QED
    BY <2>4, <2>5, <2>6, <2>7, <2>10 DEF BillingInv
<1> QED
  BY <1>4, <1>5, <1>6 DEF Apply

LEMMA MarkRefundProcessedInv ==
  ASSUME BillingInv, NEW d \in Deliveries, MarkRefundProcessed(d) PROVE BillingInv'
<1>1. /\ BillingTypes /\ delivery[d].at = "cancelled" /\ delivery[d].event = "refunded"
      /\ UNCHANGED <<stripe, raised, account, subscription>> /\ delivery' = Ended(d)
      /\ stripe.status = "canceled" /\ Refunding(d) /\ "refunded" \in raised
  BY DEF BillingInv, MarkRefundProcessed, RefundKnows, Refunding, StripeKnows, Busy
<1>2. ledger' = [ledger EXCEPT !["refunded"] = "processed"]
  BY <1>1 DEF MarkRefundProcessed
<1>3. /\ delivery' \in [Deliveries -> DeliveryRecords] /\ delivery'[d].at = "idle"
      /\ \A b \in Deliveries : b # d => delivery'[b] = delivery[b]
  BY <1>1, EndedDelivery
<1>4. /\ ledger' \in [BillingEventNames -> LedgerResults]
      /\ \A f \in BillingEventNames : f # "refunded" => ledger'[f] = ledger[f]
  BY <1>1, <1>2, BillingNames, LedgerTypes
<1>5. BillingTypes'
  BY <1>1, <1>3, <1>4 DEF BillingTypes
<1>6. StripeKnows'
  BY <1>1, <1>3, <1>4 DEF BillingInv, StripeKnows, Busy
<1>7. RefundKnows' /\ OneLocked'
  BY <1>1, <1>3 DEF BillingInv, RefundKnows, OneLocked, Refunding
<1>8. \A e \in BillingEventNames : Due(e) => e # "refunded"
  BY <1>1 DEF Due
<1>9. \A e \in BillingEventNames : Due(e) => Due(e)'
  BY <1>1, <1>3, <1>4, <1>8 DEF Due, Refunding
<1>10. Explained' = Explained
  BY <1>1 DEF Explained
<1>11. StaleIsDue'
  BY <1>1, <1>9, <1>10 DEF BillingInv, StaleIsDue
<1>12. LockedStale'
  BY <1>3, <1>9, <1>10 DEF BillingInv, LockedStale
<1> QED
  BY <1>5, <1>6, <1>7, <1>11, <1>12 DEF BillingInv

LEMMA BillingUnmoved ==
  ASSUME BillingInv, UNCHANGED <<stripe, raised, ledger, subscription, delivery, account>>
  PROVE  BillingInv'
BY DEF BillingInv, BillingTypes, StripeKnows, RefundKnows, OneLocked, StaleIsDue, LockedStale,
       Due, Explained, Busy, Refunding

LEMMA BillingNextInv == ASSUME BillingInv, BillingNext PROVE BillingInv'
<1>1. ASSUME NEW d \in Deliveries, CancelRefunded(d) PROVE BillingInv'
  BY <1>1, CancelInv DEF CancelRefunded
<1>2. ASSUME NEW d \in Deliveries, DeliveryFails(d) \/ CancelRefused(d) PROVE BillingInv'
  BY <1>2, DeliveryEndsInv DEF DeliveryFails, CancelRefused, Busy
<1>3. ASSUME NEW d \in Deliveries, DeliveryDies(d) PROVE BillingInv'
  BY <1>3, DeliveryEndsInv DEF DeliveryDies
<1>4. ASSUME NEW d \in Deliveries, DeliveryStep(d) PROVE BillingInv'
  BY <1>1, <1>4, MarkProcessingInv, LockAndReadInv, ApplyInv, MarkRefundProcessedInv
  DEF DeliveryStep
<1> QED
  BY <1>2, <1>3, <1>4, StripeChangesInv, ReceiveEventInv DEF BillingNext

LEMMA BillingInitInv ==
  ASSUME NEW status \in {"active", "canceled"}, NEW requests, BillingInit(status, requests)
  PROVE  BillingInv
<1>1. [NoDelivery EXCEPT !.at = "unused"] \in DeliveryRecords
      /\ [NoDelivery EXCEPT !.at = "unused"].at = "unused"
  BY NoDeliveryType DEF DeliveryRecords
<1>2. \A d \in Deliveries : delivery[d] \in DeliveryRecords /\ delivery[d].at \in {"idle", "unused"}
  BY <1>1, NoDeliveryType DEF BillingInit
<1>3. BillingTypes
  <2>1. delivery \in [Deliveries -> DeliveryRecords]
    BY <1>2 DEF BillingInit
  <2>2. stripe \in StripeObjects
    BY DEF BillingInit, StripeObjects, Disputes
  <2>3. ledger \in [BillingEventNames -> LedgerResults]
    BY BillingNames DEF BillingInit
  <2> QED
    BY <2>1, <2>2, <2>3 DEF BillingTypes, BillingInit
<1>4. StripeKnows
  BY <1>2 DEF BillingInit, StripeKnows, Busy
<1>5. RefundKnows /\ OneLocked /\ LockedStale
  BY <1>2, BillingNames DEF BillingInit, RefundKnows, Refunding, OneLocked, LockedStale
<1>6. StaleIsDue
  BY DEF BillingInit, StaleIsDue, Explained
<1> QED
  BY <1>3, <1>4, <1>5, <1>6 DEF BillingInv

-----------------------------------------------------------------------------
(* The deletion of an account: the inductive invariant *)

ResourceRows == [row : {"none", "reserved", "bound"}, gone : BOOLEAN, released : BOOLEAN]

ManagedStates ==
  {"none", "preparing", "between", "call", "stuck", "authorized", "stranded", "waiting",
   "outbox", "quarantined", "clean"}

DeletionTypes ==
  /\ maker \in [Sessions -> {"unused", "idle", "reserved", "posting", "over"}]
  /\ resource \in [Sessions -> ResourceRows]
  /\ session \in [Sessions -> {"none", "requested", "live", "ended"}]
  /\ age \in [Sessions -> Nat]
  /\ managed \in ManagedStates
  /\ deletion.at \in {"unused", "idle", "planned", "fenced", "tombstoned", "cancelled",
                      "confirmed", "draining", "drained", "done"}
  /\ deletion \in [at : {deletion.at}, planned : BOOLEAN]

\* What is known of a session call and its reservation: a call that has not begun has none, an
\* open account keeps the row of a session that may be open, a row is confirmed gone only when
\* none is, and neither the wait for the key nor the request outlives its timeout.
Known(k, r, x, n) ==
  /\ k = "idle" => r = NoResource /\ n = 0 /\ x = "none"
  /\ account = "open" /\ r.row = "none" => x = "none" /\ k \notin {"reserved", "posting"}
  /\ r.gone => x \notin {"requested", "live"} /\ k # "posting"
  /\ k = "reserved" => n <= LockTimeout /\ x = "none"
  /\ k = "posting" \/ x = "requested" => n <= LockTimeout + PostBound
  /\ drained => k # "posting"
  /\ account = "deleted" => r.row = "none" /\ x \notin {"requested", "live"} /\ k # "posting"

SessionKnown(s) == Known(maker[s], resource[s], session[s], age[s])

\* The drain row keeps out the managed run, and a deletion past each of its steps knows what
\* that step left.
DeletionKnows ==
  /\ drained => managed # "call"
  /\ deletion.at \in {"fenced", "tombstoned", "cancelled", "confirmed", "draining", "drained"}
       => drained
  /\ deletion.at \in {"draining", "drained"} => managed \in Harmless
  /\ account = "deleted" =>
       managed \in Harmless \cup {"call", "between"} /\ deletion.at = "done"

DeletionInv == DeletionTypes /\ DeletionKnows /\ \A s \in Sessions : SessionKnown(s)

LEMMA RowField ==
  ASSUME NEW r \in ResourceRows, NEW x \in {"none", "reserved", "bound"}
  PROVE  /\ [r EXCEPT !.row = x] \in ResourceRows
         /\ [r EXCEPT !.row = x].row = x /\ [r EXCEPT !.row = x].gone = r.gone
BY DEF ResourceRows

LEMMA GoneField ==
  ASSUME NEW r \in ResourceRows, NEW g \in BOOLEAN
  PROVE  /\ [r EXCEPT !.gone = g] \in ResourceRows
         /\ [r EXCEPT !.gone = g].row = r.row /\ [r EXCEPT !.gone = g].gone = g
BY DEF ResourceRows

LEMMA ReleasedField ==
  ASSUME NEW r \in ResourceRows
  PROVE  /\ [r EXCEPT !.released = TRUE] \in ResourceRows
         /\ [r EXCEPT !.released = TRUE].row = r.row
         /\ [r EXCEPT !.released = TRUE].gone = r.gone
BY DEF ResourceRows

LEMMA NoResourceType == NoResource \in ResourceRows
BY DEF NoResource, ResourceRows

\* Session call s comes to stand like this.
SessionMoves(s, k, r, x, n) ==
  /\ k \in {"unused", "idle", "reserved", "posting", "over"} /\ r \in ResourceRows
  /\ x \in {"none", "requested", "live", "ended"} /\ n \in Nat
  /\ maker' = [maker EXCEPT ![s] = k] /\ resource' = [resource EXCEPT ![s] = r]
  /\ session' = [session EXCEPT ![s] = x] /\ age' = [age EXCEPT ![s] = n]

\* A step of one session call keeps the invariant if it keeps what is known of that call.
LEMMA SessionFrame ==
  ASSUME DeletionInv, NEW s \in Sessions, UNCHANGED <<account, drained, deletion, managed>>,
         NEW k, NEW r, NEW x, NEW n, SessionMoves(s, k, r, x, n), Known(k, r, x, n)
  PROVE  DeletionInv'
<1>1. DeletionTypes
  BY DEF DeletionInv
<1>2. /\ maker' \in [Sessions -> {"unused", "idle", "reserved", "posting", "over"}] /\ maker'[s] = k
      /\ resource' \in [Sessions -> ResourceRows] /\ resource'[s] = r
      /\ session' \in [Sessions -> {"none", "requested", "live", "ended"}] /\ session'[s] = x
      /\ age' \in [Sessions -> Nat] /\ age'[s] = n
      /\ \A t \in Sessions : t # s =>
           /\ maker'[t] = maker[t] /\ resource'[t] = resource[t]
           /\ session'[t] = session[t] /\ age'[t] = age[t]
  BY <1>1 DEF DeletionTypes, SessionMoves
<1>3. DeletionTypes' /\ DeletionKnows'
  BY <1>1, <1>2 DEF DeletionInv, DeletionTypes, DeletionKnows
<1>4. ASSUME NEW t \in Sessions PROVE SessionKnown(t)'
  <2>1. CASE t = s
    BY <1>2, <2>1 DEF SessionKnown, Known
  <2>2. CASE t # s
    BY <1>2, <2>2 DEF DeletionInv, SessionKnown, Known
  <2> QED
    BY <2>1, <2>2
<1> QED
  BY <1>3, <1>4 DEF DeletionInv

\* What a session call has before its step.
LEMMA SessionAsIs ==
  ASSUME DeletionInv, NEW s \in Sessions
  PROVE  /\ maker = [maker EXCEPT ![s] = maker[s]] /\ resource = [resource EXCEPT ![s] = resource[s]]
         /\ session = [session EXCEPT ![s] = session[s]] /\ age = [age EXCEPT ![s] = age[s]]
         /\ maker[s] \in {"unused", "idle", "reserved", "posting", "over"}
         /\ resource[s] \in ResourceRows /\ age[s] \in Nat
         /\ session[s] \in {"none", "requested", "live", "ended"}
         /\ Known(maker[s], resource[s], session[s], age[s])
BY DEF DeletionInv, DeletionTypes, SessionKnown

LEMMA SessionStepsInv ==
  ASSUME DeletionInv, account \in {"open", "deleted"}, NEW s \in Sessions,
         \/ ReserveSession(s) \/ StartSession(s) \/ SessionAnswered(s) \/ BindSession(s)
         \/ SessionCallLost(s) \/ SessionEnds(s) \/ SessionTicks(s)
  PROVE  DeletionInv'
<1> DEFINE r == resource[s]
           k == maker[s]
           x == session[s]
           n == age[s]
<1>1. /\ maker = [maker EXCEPT ![s] = k] /\ resource = [resource EXCEPT ![s] = r]
      /\ session = [session EXCEPT ![s] = x] /\ age = [age EXCEPT ![s] = n]
      /\ k \in {"unused", "idle", "reserved", "posting", "over"}
      /\ r \in ResourceRows /\ n \in Nat
      /\ x \in {"none", "requested", "live", "ended"}
      /\ Known(k, r, x, n)
  BY SessionAsIs
<1>2. UNCHANGED <<account, drained, deletion, managed>>
  BY DEF ReserveSession, StartSession, SessionAnswered, BindSession, SessionCallLost, SessionEnds,
         SessionTicks, billingVars
<1>3. LockTimeout \in Nat /\ PostBound \in Nat /\ CreationWindow \in Nat
  BY WindowAssumption
<1>4. CASE ReserveSession(s)
  <2> DEFINE new == [r EXCEPT !.row = "reserved"]
  <2>1. /\ k = "idle" /\ account = "open" /\ ~ drained
        /\ maker' = [maker EXCEPT ![s] = "reserved"] /\ resource' = [resource EXCEPT ![s] = new]
        /\ session' = session /\ age' = age
    BY <1>4 DEF ReserveSession
  <2> HIDE DEF r, k, x, n
  <2>2. new \in ResourceRows /\ new.row = "reserved" /\ new.gone = r.gone
    BY <1>1, RowField
  <2> HIDE DEF new
  <2>3. n = 0 /\ x = "none" /\ r = NoResource
    BY <1>1, <2>1 DEF Known
  <2>4. ~ new.gone
    BY <2>2, <2>3 DEF NoResource
  <2>5. SessionMoves(s, "reserved", new, x, n)
    BY <1>1, <2>1, <2>2 DEF SessionMoves
  <2>6. Known("reserved", new, x, n)
    BY <1>3, <2>1, <2>2, <2>3, <2>4 DEF Known
  <2> QED
    BY <1>2, <2>5, <2>6, SessionFrame
<1>5. CASE SessionAnswered(s)
  <2>1. PICK y \in {"live", "none"} : session' = [session EXCEPT ![s] = y]
    BY <1>5 DEF SessionAnswered
  <2>2. x = "requested" /\ maker' = maker /\ resource' = resource /\ age' = age
    BY <1>5 DEF SessionAnswered
  <2> HIDE DEF r, k, x, n
  <2>3. SessionMoves(s, k, r, y, n)
    BY <1>1, <2>1, <2>2 DEF SessionMoves
  <2>4. Known(k, r, y, n)
    BY <1>1, <1>3, <2>2 DEF Known
  <2> QED
    BY <1>2, <2>3, <2>4, SessionFrame
<1>6. CASE BindSession(s)
  <2> DEFINE new == [r EXCEPT !.row = "bound"]
  <2>1. /\ k = "posting" /\ x = "live"
        /\ maker' = [maker EXCEPT ![s] = "over"] /\ resource' = [resource EXCEPT ![s] = new]
        /\ session' = session /\ age' = age
    BY <1>6 DEF BindSession
  <2> HIDE DEF r, k, x, n
  <2>2. new \in ResourceRows /\ new.row = "bound" /\ new.gone = r.gone
    BY <1>1, RowField
  <2> HIDE DEF new
  <2>3. SessionMoves(s, "over", new, x, n)
    BY <1>1, <2>1, <2>2 DEF SessionMoves
  <2>4. Known("over", new, x, n)
    BY <1>1, <1>3, <2>1, <2>2 DEF Known
  <2> QED
    BY <1>2, <2>3, <2>4, SessionFrame
<1>7. CASE SessionCallLost(s)
  <2>1. /\ k \in {"reserved", "posting"}
        /\ maker' = [maker EXCEPT ![s] = "over"] /\ resource' = resource
        /\ session' = session /\ age' = age
    BY <1>7 DEF SessionCallLost
  <2> HIDE DEF r, k, x, n
  <2>2. SessionMoves(s, "over", r, x, n)
    BY <1>1, <2>1 DEF SessionMoves
  <2>3. Known("over", r, x, n)
    BY <1>1, <1>3, <2>1 DEF Known
  <2> QED
    BY <1>2, <2>2, <2>3, SessionFrame
<1>8. CASE SessionEnds(s)
  <2>1. /\ x = "live" /\ session' = [session EXCEPT ![s] = "ended"]
        /\ maker' = maker /\ resource' = resource /\ age' = age
    BY <1>8 DEF SessionEnds
  <2> HIDE DEF r, k, x, n
  <2>2. SessionMoves(s, k, r, "ended", n)
    BY <1>1, <2>1 DEF SessionMoves
  <2>3. Known(k, r, "ended", n)
    BY <1>1, <1>3, <2>1 DEF Known
  <2> QED
    BY <1>2, <2>2, <2>3, SessionFrame
<1>9. CASE SessionTicks(s)
  <2>1. /\ r.row = "reserved" /\ (k = "reserved" => n < LockTimeout)
        /\ (k = "posting" \/ x = "requested" => n < LockTimeout + PostBound)
        /\ age' = [age EXCEPT ![s] = n + 1]
        /\ maker' = maker /\ resource' = resource /\ session' = session
    BY <1>9 DEF SessionTicks
  <2> HIDE DEF r, k, x, n
  <2>2. SessionMoves(s, k, r, x, n + 1)
    BY <1>1, <2>1 DEF SessionMoves
  <2>3. k # "idle"
    BY <1>1, <2>1 DEF Known, NoResource
  <2>4. Known(k, r, x, n + 1)
    BY <1>1, <1>3, <2>1, <2>3 DEF Known
  <2> QED
    BY <1>2, <2>2, <2>4, SessionFrame
<1>10. CASE StartSession(s)
  <2>1. k = "reserved" /\ age' = age
    BY <1>10 DEF StartSession
  <2>2. CASE /\ drained /\ resource' = [resource EXCEPT ![s].gone = r.row # "none"]
             /\ maker' = [maker EXCEPT ![s] = "over"] /\ UNCHANGED session
    <3>1. PICK g \in BOOLEAN : g = (r.row # "none")
      OBVIOUS
    <3> DEFINE new == [r EXCEPT !.gone = g]
    <3>2. resource' = [resource EXCEPT ![s] = new]
      BY <1>1, <2>2, <3>1
    <3> HIDE DEF r, k, x, n
    <3>3. new \in ResourceRows /\ new.row = r.row
      BY <1>1, GoneField
    <3> HIDE DEF new
    <3>4. SessionMoves(s, "over", new, x, n)
      BY <1>1, <2>1, <2>2, <3>2, <3>3 DEF SessionMoves
    <3>5. x = "none"
      BY <1>1, <2>1 DEF Known
    <3>6. Known("over", new, x, n)
      BY <1>1, <1>3, <2>1, <3>3, <3>5 DEF Known
    <3> QED
      BY <1>2, <3>4, <3>6, SessionFrame
  <2>3. CASE maker' = [maker EXCEPT ![s] = "over"] /\ UNCHANGED <<resource, session>>
    <3> HIDE DEF r, k, x, n
    <3>1. SessionMoves(s, "over", r, x, n)
      BY <1>1, <2>1, <2>3 DEF SessionMoves
    <3>2. Known("over", r, x, n)
      BY <1>1, <1>3, <2>1 DEF Known
    <3> QED
      BY <1>2, <3>1, <3>2, SessionFrame
  <2>4. CASE /\ ~ drained /\ r.row = "reserved" /\ ~ r.gone
             /\ maker' = [maker EXCEPT ![s] = "posting"]
             /\ session' = [session EXCEPT ![s] = "requested"] /\ UNCHANGED resource
    <3> HIDE DEF r, k, x, n
    <3>1. SessionMoves(s, "posting", r, "requested", n)
      BY <1>1, <2>1, <2>4 DEF SessionMoves
    <3>2. Known("posting", r, "requested", n)
      BY <1>1, <1>3, <2>1, <2>4 DEF Known
    <3> QED
      BY <1>2, <3>1, <3>2, SessionFrame
  <2> QED
    BY <1>10, <2>2, <2>3, <2>4 DEF StartSession, Draining
<1> QED
  BY <1>4, <1>5, <1>6, <1>7, <1>8, <1>9, <1>10

-----------------------------------------------------------------------------
(* The deletion of an account: the steps of the request and of the managed run *)

Places == {"unused", "idle", "planned", "fenced", "tombstoned", "cancelled", "confirmed",
           "draining", "drained", "done"}

LEMMA DeletionGoesOn ==
  ASSUME DeletionTypes, NEW to, GoesOn(to)
  PROVE  deletion'.at = to /\ deletion' \in [at : {deletion'.at}, planned : BOOLEAN]
BY DEF DeletionTypes, GoesOn

LEMMA DeletionStopped ==
  ASSUME Stops
  PROVE  deletion'.at = "idle" /\ deletion' \in [at : {deletion'.at}, planned : BOOLEAN]
BY DEF Stops, NoDeletion

\* A step of the request or of the managed run touches no session; it may fence the account
\* while nobody holds the key.
LEMMA DeletionFrame ==
  ASSUME DeletionInv, UNCHANGED <<account, maker, resource, session, age>>,
         drained' => drained \/ ProviderKeyFree,
         managed' \in ManagedStates,
         deletion'.at \in Places, deletion' \in [at : {deletion'.at}, planned : BOOLEAN],
         DeletionKnows'
  PROVE  DeletionInv'
<1>1. DeletionTypes'
  BY DEF DeletionInv, DeletionTypes, Places
<1>2. ASSUME NEW s \in Sessions PROVE SessionKnown(s)'
  BY DEF DeletionInv, SessionKnown, Known, ProviderKeyFree
<1> QED
  BY <1>1, <1>2 DEF DeletionInv

LEMMA ManagedInv ==
  ASSUME DeletionInv, account \in {"open", "deleted"}, ManagedOther \/ ManagedStep
  PROVE  DeletionInv'
<1>1. UNCHANGED <<account, drained, deletion, maker, resource, session, age>>
  BY DEF ManagedOther, ManagedStep, ManagedBegins, ManagedCalls, ManagedContinues, ManagedDies,
         ManagedReturns, ManagedStops, ManagedFreed, ManagedRecovered, ManagedAcknowledged,
         ManagedRuns, billingVars, sessionVars
<1>2. DeletionTypes /\ DeletionKnows
  BY DEF DeletionInv
<1>3. \/ managed = "none" /\ managed' = "preparing" /\ account = "open"
      \/ managed \in {"preparing", "between"} /\ managed' = "call" /\ ~ drained
      \/ managed \in {"preparing", "between", "call"} /\ managed' \in {"between", "clean"}
         /\ (managed' = "between" => managed = "call")
      \/ managed \in {"call", "between", "authorized"} /\ managed' \in ManagedStates \ {"call"}
         /\ (managed = "authorized" \/ account = "open")
      \/ managed \in {"stuck", "outbox"} /\ managed' = "clean"
      \/ managed = "waiting" /\ managed' = "between"
  BY DEF ManagedOther, ManagedStep, ManagedBegins, ManagedCalls, ManagedContinues, ManagedDies,
         ManagedReturns, ManagedStops, ManagedFreed, ManagedRecovered, ManagedAcknowledged,
         ManagedRuns, Draining, Recovers, ManagedStates
<1>4. DeletionKnows'
  BY <1>1, <1>2, <1>3 DEF DeletionKnows, Harmless
<1>5. deletion.at \in Places /\ deletion \in [at : {deletion.at}, planned : BOOLEAN]
  BY <1>2 DEF DeletionTypes, Places
<1> QED
  BY <1>1, <1>3, <1>4, <1>5, DeletionFrame DEF ManagedStates

\* Everything the request does before it deletes, but for looking at a session's row.
LEMMA RequestInv ==
  ASSUME DeletionInv, account \in {"open", "deleted"},
         \/ PlanDeletion \/ FenceDeletion \/ WriteTombstone \/ CancelPlanned
         \/ ConfirmCancellation \/ DrainManaged \/ FinishDrain \/ DeletionAborts
  PROVE  DeletionInv'
<1>1. DeletionTypes /\ DeletionKnows
  BY DEF DeletionInv
<1> DEFINE kept == UNCHANGED <<account, maker, resource, session, age>>
           typed == /\ deletion'.at \in Places
                    /\ deletion' \in [at : {deletion'.at}, planned : BOOLEAN]
<1>2. CASE PlanDeletion
  <2>1. deletion'.at = "planned" /\ typed
    BY <1>2 DEF PlanDeletion, Renewable, Places
  <2>2. kept /\ UNCHANGED <<drained, managed>> /\ account = "open"
    BY <1>2 DEF PlanDeletion, billingVars, sessionVars
  <2>3. DeletionKnows'
    BY <1>1, <2>1, <2>2 DEF DeletionKnows
  <2> QED
    BY <1>1, <2>1, <2>2, <2>3, DeletionFrame DEF DeletionTypes
<1>3. CASE FenceDeletion
  <2>1. deletion'.at = "fenced" /\ typed
    BY <1>1, <1>3, DeletionGoesOn DEF FenceDeletion, Places
  <2>2. kept /\ managed' = managed /\ drained' /\ ProviderKeyFree /\ deletion.at = "planned"
    BY <1>3 DEF FenceDeletion, At, billingVars, sessionVars
  <2>3. DeletionKnows'
    BY <1>1, <2>1, <2>2 DEF DeletionKnows, ProviderKeyFree
  <2> QED
    BY <1>1, <2>1, <2>2, <2>3, DeletionFrame DEF DeletionTypes
<1>4. CASE WriteTombstone \/ ConfirmCancellation
  <2>1. /\ deletion'.at \in {"tombstoned", "confirmed"} /\ typed
        /\ deletion.at \in {"fenced", "cancelled"}
    BY <1>1, <1>4, DeletionGoesOn DEF WriteTombstone, ConfirmCancellation, At, Places
  <2>2. kept /\ UNCHANGED <<drained, managed>>
    BY <1>4 DEF WriteTombstone, ConfirmCancellation, sessionVars
  <2>3. DeletionKnows'
    BY <1>1, <2>1, <2>2 DEF DeletionKnows
  <2> QED
    BY <1>1, <2>1, <2>2, <2>3, DeletionFrame DEF DeletionTypes
<1>5. CASE CancelPlanned
  <2>1. deletion'.at \in {"cancelled", "idle"} /\ typed /\ deletion.at = "tombstoned"
    BY <1>1, <1>5, DeletionGoesOn, DeletionStopped DEF CancelPlanned, At, Places
  <2>2. kept /\ UNCHANGED <<drained, managed>>
    BY <1>5 DEF CancelPlanned, sessionVars
  <2>3. DeletionKnows'
    BY <1>1, <2>1, <2>2 DEF DeletionKnows
  <2> QED
    BY <1>1, <2>1, <2>2, <2>3, DeletionFrame DEF DeletionTypes
<1>6. CASE DrainManaged
  <2>1. /\ \/ deletion'.at = "draining" /\ managed' \in Harmless
           \/ deletion'.at = "idle" /\ managed' = managed
        /\ typed /\ deletion.at = "confirmed"
    BY <1>1, <1>6, DeletionGoesOn, DeletionStopped DEF DrainManaged, At, Places, Harmless
  <2>2. kept /\ UNCHANGED drained
    BY <1>6 DEF DrainManaged, billingVars, sessionVars
  <2>3. DeletionKnows'
    BY <1>1, <2>1, <2>2 DEF DeletionKnows, Harmless
  <2>4. managed' \in ManagedStates
    BY <1>1, <2>1 DEF DeletionTypes, ManagedStates, Harmless
  <2> QED
    BY <2>1, <2>2, <2>3, <2>4, DeletionFrame
<1>7. CASE FinishDrain
  <2>1. deletion'.at \in {"drained", "idle"} /\ typed /\ deletion.at = "draining"
    BY <1>1, <1>7, DeletionGoesOn, DeletionStopped DEF FinishDrain, At, Places
  <2>2. kept /\ UNCHANGED <<drained, managed>>
    BY <1>7 DEF FinishDrain, billingVars, sessionVars
  <2>3. DeletionKnows'
    BY <1>1, <2>1, <2>2 DEF DeletionKnows
  <2> QED
    BY <1>1, <2>1, <2>2, <2>3, DeletionFrame DEF DeletionTypes
<1>8. CASE DeletionAborts
  <2>1. deletion'.at = "idle" /\ typed /\ deletion.at # "done"
    BY <1>8, DeletionStopped DEF DeletionAborts, Places
  <2>2. kept /\ UNCHANGED <<drained, managed>>
    BY <1>8 DEF DeletionAborts, sessionVars
  <2>3. DeletionKnows'
    BY <1>1, <2>1, <2>2 DEF DeletionKnows
  <2> QED
    BY <1>1, <2>1, <2>2, <2>3, DeletionFrame DEF DeletionTypes
<1> QED
  BY <1>2, <1>3, <1>4, <1>5, <1>6, <1>7, <1>8

\* A reservation's row is confirmed gone only when its session is.
LEMMA DrainResourceInv ==
  ASSUME DeletionInv, account \in {"open", "deleted"}, NEW s \in Sessions, DrainResource(s)
  PROVE  DeletionInv'
<1> DEFINE r == resource[s]
           k == maker[s]
           x == session[s]
           n == age[s]
           new == DrainedResource(s)
<1>1. /\ maker = [maker EXCEPT ![s] = k] /\ resource = [resource EXCEPT ![s] = r]
      /\ session = [session EXCEPT ![s] = x] /\ age = [age EXCEPT ![s] = n]
      /\ k \in {"unused", "idle", "reserved", "posting", "over"}
      /\ r \in ResourceRows /\ n \in Nat
      /\ x \in {"none", "requested", "live", "ended"}
      /\ Known(k, r, x, n)
  BY SessionAsIs
<1>2. UNCHANGED <<account, drained, deletion, managed, maker, session, age>>
      /\ deletion.at = "draining" /\ r.row # "none" /\ ~ r.gone
      /\ resource' = [resource EXCEPT ![s] = new]
  BY DEF DrainResource, billingVars, At, Unconfirmed
<1>3. LockTimeout \in Nat /\ PostBound \in Nat /\ LockTimeout + PostBound < CreationWindow
      /\ CreationWindow \in Nat
  BY WindowAssumption
<1>4. drained /\ account = "open"
  BY <1>2 DEF DeletionInv, DeletionKnows
<1>5. \/ r.row = "reserved" /\ new = [r EXCEPT !.row = "bound"]
      \/ /\ r.row = "reserved" /\ x \notin {"live", "ended"} /\ n >= CreationWindow
         /\ new = [r EXCEPT !.gone = TRUE]
      \/ r.row = "bound" /\ x = "ended" /\ new = [r EXCEPT !.gone = TRUE]
      \/ r.row = "bound" /\ new = [r EXCEPT !.released = TRUE]
      \/ new = r
  BY DEF DrainedResource, WindowOver
<1> HIDE DEF r, k, x, n, new
<1>6. /\ new \in ResourceRows /\ new.row # "none"
      /\ new.gone => \/ x \notin {"live", "ended"} /\ n >= CreationWindow
                     \/ x = "ended"
  <2>1. CASE new = r
    BY <1>1, <1>2, <2>1
  <2>2. CASE new = [r EXCEPT !.row = "bound"]
    BY <1>1, <1>2, <2>2, RowField
  <2>3. CASE new = [r EXCEPT !.released = TRUE]
    BY <1>1, <1>2, <2>3, ReleasedField
  <2>4. CASE /\ new = [r EXCEPT !.gone = TRUE]
             /\ \/ x \notin {"live", "ended"} /\ n >= CreationWindow
                \/ x = "ended"
    <3>1. new \in ResourceRows /\ new.row = r.row
      BY <1>1, <2>4 DEF ResourceRows
    <3> QED
      BY <1>2, <2>4, <3>1
  <2> QED
    BY <1>5, <2>1, <2>2, <2>3, <2>4
<1>9. SessionMoves(s, k, new, x, n)
  BY <1>1, <1>2, <1>6 DEF SessionMoves
<1>10. k # "idle" /\ k # "posting"
  BY <1>1, <1>2, <1>4 DEF Known, NoResource
<1>11. new.gone => x \notin {"requested", "live"}
  BY <1>1, <1>3, <1>6 DEF Known
<1>12. Known(k, new, x, n)
  BY <1>1, <1>4, <1>6, <1>10, <1>11 DEF Known
<1> QED
  BY <1>2, <1>9, <1>12, SessionFrame

\* The last transaction finds no row, or only rows confirmed gone: their sessions are, and no
\* call is between its reservation and the provider.
LEMMA DeleteAccountInv ==
  ASSUME DeletionInv, BillingInv, DeleteAccount PROVE DeletionInv' /\ BillingInv'
<1>1. DeletionTypes /\ DeletionKnows /\ BillingTypes /\ deletion.at = "drained"
      /\ UNCHANGED <<maker, session, age, managed>>
  BY DEF DeletionInv, BillingInv, DeleteAccount, At
<1>2. drained /\ account = "open" /\ managed \in Harmless
  BY <1>1 DEF DeletionKnows, BillingTypes
<1>3. CASE Stops /\ UNCHANGED <<billingVars, drained, resource>>
  <2>1. /\ UNCHANGED <<account, drained, resource, stripe, raised, ledger, subscription, delivery>>
        /\ deletion'.at = "idle" /\ deletion' \in [at : {deletion'.at}, planned : BOOLEAN]
    BY <1>3, DeletionStopped DEF billingVars
  <2>2. DeletionKnows'
    BY <1>1, <1>2, <2>1 DEF DeletionKnows
  <2> QED
    BY <1>1, <2>1, <2>2, DeletionFrame, BillingUnmoved DEF DeletionTypes, Places
<1>4. CASE /\ ~ \E s \in Sessions : Unconfirmed(s)
           /\ account' = "deleted" /\ subscription' = "none" /\ drained' = FALSE
           /\ resource' = [s \in Sessions |-> NoResource] /\ GoesOn("done")
           /\ UNCHANGED <<stripe, raised, ledger, delivery>>
  <2>1. deletion'.at = "done" /\ deletion' \in [at : {deletion'.at}, planned : BOOLEAN]
    BY <1>1, <1>4, DeletionGoesOn
  <2>2. DeletionTypes' /\ DeletionKnows'
    BY <1>1, <1>2, <1>4, <2>1, NoResourceType DEF DeletionTypes, DeletionKnows
  <2>3. ASSUME NEW s \in Sessions PROVE SessionKnown(s)'
    <3>1. Known(maker[s], resource[s], session[s], age[s])
      BY DEF DeletionInv, SessionKnown
    <3>2. resource[s].row = "none" \/ resource[s].gone
      BY <1>4 DEF Unconfirmed
    <3>3. session[s] \notin {"requested", "live"} /\ maker[s] # "posting"
      BY <1>2, <3>1, <3>2 DEF Known
    <3>4. resource'[s] = NoResource
      BY <1>4
    <3> QED
      BY <1>1, <1>4, <3>1, <3>3, <3>4 DEF SessionKnown, Known, NoResource
  <2>4. DeletionInv'
    BY <2>2, <2>3 DEF DeletionInv
  <2>5. BillingTypes' /\ StaleIsDue'
    BY <1>1, <1>4 DEF BillingTypes, StaleIsDue
  <2>6. StripeKnows' /\ RefundKnows' /\ OneLocked' /\ LockedStale'
    BY <1>4 DEF BillingInv, StripeKnows, RefundKnows, OneLocked, LockedStale, Due, Explained,
                Busy, Refunding, NextStatus
  <2> QED
    BY <2>4, <2>5, <2>6 DEF BillingInv
<1> QED
  BY <1>3, <1>4 DEF DeleteAccount

-----------------------------------------------------------------------------
(* The account: billing and deletion together *)

AccountInv == BillingInv /\ DeletionInv

LEMMA DeletionUnmoved ==
  ASSUME DeletionInv, UNCHANGED <<account, drained, deletion, maker, resource, session, age, managed>>
  PROVE  DeletionInv'
BY DEF DeletionInv, DeletionTypes, DeletionKnows, SessionKnown, Known

\* A webhook request leaves the account open or deleted as it was.
LEMMA BillingKeepsAccount == ASSUME BillingNext PROVE account' = account
BY DEF BillingNext, StripeChanges, StripeRaises, ReceiveEvent, DeliveryStep, MarkProcessing,
       LockAndRead, Apply, CancelRefunded, MarkRefundProcessed, DeliveryFails, CancelRefused,
       DeliveryDies

\* The deletion's own cancellation is one of Stripe's changes; its other steps before the last
\* write nothing that billing reads but the tombstone.
LEMMA RequestKeepsBilling ==
  ASSUME BillingInv,
         \/ PlanDeletion \/ FenceDeletion \/ WriteTombstone \/ CancelPlanned
         \/ ConfirmCancellation \/ DrainManaged \/ FinishDrain \/ DeletionAborts
         \/ \E s \in Sessions : DrainResource(s)
  PROVE  BillingInv'
<1>1. CASE CancelPlanned
  <2>1. UNCHANGED <<ledger, subscription, delivery, account>>
    BY <1>1 DEF CancelPlanned
  <2>2. CASE stripe' = Cancelled /\ raised' = RaisedByCancel
    BY <2>1, <2>2, CancelInv
  <2>3. CASE UNCHANGED <<stripe, raised>>
    BY <2>1, <2>3, BillingUnmoved
  <2> QED
    BY <1>1, <2>2, <2>3 DEF CancelPlanned
<1>2. CASE UNCHANGED <<stripe, raised, ledger, subscription, delivery, account>>
  BY <1>2, BillingUnmoved
<1> QED
  BY <1>1, <1>2 DEF PlanDeletion, FenceDeletion, WriteTombstone, ConfirmCancellation, DrainManaged,
                    FinishDrain, DeletionAborts, DrainResource, billingVars

LEMMA OthersKeepBilling ==
  ASSUME BillingInv,
         \/ \E s \in Sessions :
              \/ ReserveSession(s) \/ StartSession(s) \/ SessionAnswered(s) \/ BindSession(s)
              \/ SessionCallLost(s) \/ SessionEnds(s) \/ SessionTicks(s)
         \/ ManagedOther \/ ManagedStep
  PROVE  BillingInv'
<1>1. UNCHANGED billingVars
  BY DEF ReserveSession, StartSession, SessionAnswered, BindSession, SessionCallLost, SessionEnds,
         SessionTicks, ManagedOther, ManagedStep, ManagedBegins, ManagedCalls, ManagedContinues,
         ManagedDies, ManagedReturns, ManagedStops, ManagedFreed, ManagedRecovered,
         ManagedAcknowledged, ManagedRuns
<1> QED
  BY <1>1, BillingUnmoved DEF billingVars

LEMMA AccountNextInv == ASSUME AccountInv, AccountNext PROVE AccountInv'
<1>1. BillingInv /\ DeletionInv /\ account \in {"open", "deleted"}
  BY DEF AccountInv, BillingInv, BillingTypes
<1>2. CASE BillingNext /\ UNCHANGED <<drained, deletion, sessionVars, managed>>
  BY <1>1, <1>2, BillingNextInv, BillingKeepsAccount, DeletionUnmoved DEF AccountInv, sessionVars
<1>3. ASSUME NEW s \in Sessions,
             \/ ReserveSession(s) \/ StartSession(s) \/ SessionAnswered(s) \/ BindSession(s)
             \/ SessionCallLost(s) \/ SessionEnds(s) \/ SessionTicks(s)
      PROVE  AccountInv'
  BY <1>1, <1>3, SessionStepsInv, OthersKeepBilling DEF AccountInv
<1>4. CASE ManagedOther \/ ManagedStep
  BY <1>1, <1>4, ManagedInv, OthersKeepBilling DEF AccountInv
<1>5. ASSUME NEW s \in Sessions, DrainResource(s) PROVE AccountInv'
  BY <1>1, <1>5, DrainResourceInv, RequestKeepsBilling DEF AccountInv
<1>6. CASE DeleteAccount
  BY <1>1, <1>6, DeleteAccountInv DEF AccountInv
<1>7. CASE \/ PlanDeletion \/ FenceDeletion \/ WriteTombstone \/ CancelPlanned
           \/ ConfirmCancellation \/ DrainManaged \/ FinishDrain \/ DeletionAborts
  BY <1>1, <1>7, RequestInv, RequestKeepsBilling DEF AccountInv
<1> QED
  BY <1>2, <1>3, <1>4, <1>5, <1>6, <1>7 DEF AccountNext, DeletionStep

LEMMA DeletionInitInv ==
  ASSUME NothingReserved, account = "open", managed \in {"none", "clean"},
         deletion \in {NoDeletion, NeverDeleted},
         maker \in [Sessions -> {"unused", "idle"}]
  PROVE  DeletionInv
<1>1. deletion.at \in {"idle", "unused"} /\ deletion \in [at : {deletion.at}, planned : BOOLEAN]
  <2>1. PICK a : a = NoDeletion
    OBVIOUS
  <2>2. a \in [at : {"idle"}, planned : BOOLEAN] /\ a.at = "idle"
    BY <2>1 DEF NoDeletion
  <2>3. [a EXCEPT !.at = "unused"] \in [at : {"unused"}, planned : BOOLEAN]
        /\ [a EXCEPT !.at = "unused"].at = "unused"
    BY <2>2
  <2> QED
    BY <2>1, <2>2, <2>3 DEF NeverDeleted
<1>2. DeletionTypes /\ DeletionKnows
  BY <1>1, NoResourceType DEF NothingReserved, DeletionTypes, DeletionKnows, ManagedStates, Harmless
<1>3. ASSUME NEW s \in Sessions PROVE SessionKnown(s)
  <2>1. resource[s] = NoResource /\ session[s] = "none" /\ age[s] = 0 /\ ~ drained
        /\ maker[s] \in {"unused", "idle"}
    BY DEF NothingReserved
  <2> QED
    BY <2>1 DEF SessionKnown, Known, NoResource
<1> QED
  BY <1>2, <1>3 DEF DeletionInv

LEMMA AccountInitInv == ASSUME AccountInit \/ AccountAtRest PROVE AccountInv
<1>1. BillingInv
  BY BillingInitInv DEF AccountInit, AccountAtRest, NoSubscription
<1>2. account = "open"
  BY DEF AccountInit, AccountAtRest, NoSubscription, BillingInit
<1>3. /\ NothingReserved /\ managed \in {"none", "clean"}
      /\ deletion \in {NoDeletion, NeverDeleted} /\ maker \in [Sessions -> {"unused", "idle"}]
  BY DEF AccountInit, AccountAtRest, WithoutEmployerWork
<1> QED
  BY <1>1, <1>2, <1>3, DeletionInitInv DEF AccountInv

\* A behaviour of the services that exercises another one leaves the account as it was.
LEMMA AccountUnmoved == ASSUME AccountInv, UNCHANGED accountVars PROVE AccountInv'
BY BillingUnmoved, DeletionUnmoved DEF AccountInv, accountVars, billingVars, sessionVars

THEOREM AccountKeepsInv == ServicesSpec => []AccountInv
<1>1. ServicesInit => AccountInv
  BY AccountInitInv DEF ServicesInit
<1>2. AccountInv /\ [ServicesNext]_serviceVars => AccountInv'
  BY AccountNextInv, AccountUnmoved
  DEF ServicesNext, UsageStep, AccountStep, RecoveryStep, serviceVars
<1> QED
  BY <1>1, <1>2, PTL DEF ServicesSpec

\* A refund that the webhook answered 200 has ended the subscription at Stripe, for any number
\* of requests that overlap, fail or die (billing.ts): whoever marks it processed has asked
\* Stripe to cancel, and Stripe does not take a cancellation back.
THEOREM RefundsEndSubscriptions == ServicesSpec => []RefundCancels
<1>1. AccountInv => RefundCancels
  BY DEF AccountInv, BillingInv, RefundKnows, RefundCancels
<1> QED
  BY <1>1, AccountKeepsInv, PTL

\* When every event is settled the row says what Stripe says, in whatever order deliveries came,
\* overlapped and failed: a row that says anything else has an event coming that will write it.
THEOREM SettledRowsAreCurrent == ServicesSpec => []SettledRowIsCurrent
<1>1. AccountInv /\ AllSettled => ~ \E e \in BillingEventNames : Due(e)
  BY DEF AccountInv, AllSettled, Due
<1>2. AccountInv => SettledRowIsCurrent
  BY <1>1 DEF AccountInv, BillingInv, StaleIsDue, SettledRowIsCurrent
<1> QED
  BY <1>2, AccountKeepsInv, PTL

\* A deleted account has no session open at an employer (account.ts, submissionAccountFence.ts,
\* browserProviderResourceCleanup.ts), for any number of session calls: one that has its
\* reservation before the fence is kept out by the drain row, one that was posting had the key,
\* and a reservation the provider knows nothing of is given up only after its window.
THEOREM DeletionLeavesNothingOpen == ServicesSpec => []DeletedLeavesNothingOpen
<1>1. AccountInv => DeletedLeavesNothingOpen
  BY DEF AccountInv, DeletionInv, DeletionKnows, SessionKnown, Known, DeletedLeavesNothingOpen
<1> QED
  BY <1>1, AccountKeepsInv, PTL

-----------------------------------------------------------------------------
(* The recovery of an outcome *)

RecoveryClaims ==
  [attempt : Nat, state : {"none", "checking", "pending", "unresolved"}, checks : Nat, stamp : Nat]
HeldRows == [status : {"needs_attention", "submitted"}, attempt : Nat, recovery : RecoveryClaims]
RecovererRecords == [at : {"idle", "checking", "finishing"}, claim : RecoveryClaims]

RecoveryTypes == held \in HeldRows /\ recoverer \in [RecoveryWorkers -> RecovererRecords]

\* The claim a worker works on is one that says a check is under way.
ClaimsSayChecking ==
  \A w \in RecoveryWorkers : recoverer[w].at # "idle" => recoverer[w].claim.state = "checking"

RecoveryInv == RecoveryTypes /\ ClaimsSayChecking

LEMMA RecovererBecomes ==
  ASSUME RecoveryInv, NEW w \in RecoveryWorkers, NEW v \in RecovererRecords,
         recoverer' = [recoverer EXCEPT ![w] = v], held' \in HeldRows,
         v.at # "idle" => v.claim.state = "checking"
  PROVE  RecoveryInv'
BY DEF RecoveryInv, RecoveryTypes, ClaimsSayChecking

LEMMA IdleRecovererType == IdleRecoverer \in RecovererRecords /\ IdleRecoverer.at = "idle"
BY DEF IdleRecoverer, NoRecovery, RecovererRecords, RecoveryClaims

\* What the row keeps when one of its fields is written.
LEMMA HeldFields ==
  ASSUME NEW h \in HeldRows
  PROVE  /\ \A x \in {"needs_attention", "submitted"} :
              /\ [h EXCEPT !.status = x] \in HeldRows
              /\ [h EXCEPT !.status = x].recovery = h.recovery
         /\ \A c \in RecoveryClaims : [h EXCEPT !.recovery = c] \in HeldRows
         /\ \A n \in Nat : /\ [h EXCEPT !.attempt = n] \in HeldRows
                           /\ [h EXCEPT !.attempt = n].recovery = h.recovery
BY DEF HeldRows

LEMMA RecoverySteps ==
  ASSUME RecoveryInv, NEW w \in RecoveryWorkers,
         ClaimRecovery(w) \/ RecoverTerminal(w) \/ FinishRecovery(w) \/ RecovererDies(w)
  PROVE  /\ RecoveryInv'
         /\ Unresolved => held'.recovery = held.recovery
<1>1. held \in HeldRows /\ recoverer[w] \in RecovererRecords /\ held.recovery \in RecoveryClaims
      /\ recoverer[w].claim \in RecoveryClaims
      /\ (recoverer[w].at # "idle" => recoverer[w].claim.state = "checking")
  BY DEF RecoveryInv, RecoveryTypes, ClaimsSayChecking, HeldRows, RecovererRecords
<1>2. CASE ClaimRecovery(w)
  <2> DEFINE checks == IF Mine THEN held.recovery.checks ELSE 0
             claim == [attempt |-> held.attempt, state |-> "checking",
                       checks |-> IF checks < 3 THEN checks + 1 ELSE 3,
                       stamp |-> held.recovery.stamp + 1]
             v == [at |-> "checking", claim |-> claim]
  <2>1. claim \in RecoveryClaims /\ claim.state = "checking"
    BY <1>1 DEF RecoveryClaims, HeldRows
  <2>2. /\ held' = [held EXCEPT !.recovery = claim] /\ recoverer' = [recoverer EXCEPT ![w] = v]
        /\ ~ Unresolved
    BY <1>2 DEF ClaimRecovery, OutcomeRecoveryDue, Unresolved
  <2> HIDE DEF claim
  <2>3. v \in RecovererRecords /\ v.claim.state = "checking"
    BY <2>1 DEF RecovererRecords
  <2>4. held' \in HeldRows
    BY <1>1, <2>1, <2>2, HeldFields
  <2> HIDE DEF v
  <2> QED
    BY <2>2, <2>3, <2>4, RecovererBecomes
<1>3. CASE RecoverTerminal(w)
  <2> DEFINE v == [recoverer[w] EXCEPT !.at = "finishing"]
  <2>1. v \in RecovererRecords /\ v.claim = recoverer[w].claim
    BY <1>1 DEF RecovererRecords
  <2>2. recoverer' = [recoverer EXCEPT ![w] = v] /\ recoverer[w].at = "checking"
        /\ (held' = held \/ held' = [held EXCEPT !.status = "submitted"])
    BY <1>3 DEF RecoverTerminal
  <2> HIDE DEF v
  <2>3. held' \in HeldRows /\ held'.recovery = held.recovery
    BY <1>1, <2>2, HeldFields
  <2> QED
    BY <1>1, <2>1, <2>2, <2>3, RecovererBecomes
<1>4. CASE FinishRecovery(w)
  <2> DEFINE claim == recoverer[w].claim
             state == IF claim.checks >= 3 THEN "unresolved" ELSE "pending"
             done == [claim EXCEPT !.state = state, !.stamp = @ + 1]
  <2>1. recoverer' = [recoverer EXCEPT ![w] = IdleRecoverer] /\ recoverer[w].at = "finishing"
        /\ \/ held' = held
           \/ ClaimIsCurrent(w) /\ held' = [held EXCEPT !.recovery = done]
    BY <1>4 DEF FinishRecovery
  <2>2. done \in RecoveryClaims
    <3>1. state \in {"unresolved", "pending"} /\ claim \in RecoveryClaims
      BY <1>1
    <3> HIDE DEF state, claim
    <3>2. claim.stamp + 1 \in Nat
      BY <3>1 DEF RecoveryClaims
    <3> QED
      BY <3>1, <3>2 DEF RecoveryClaims
  <2>3. ClaimIsCurrent(w) => ~ Unresolved
    BY <1>1, <2>1 DEF ClaimIsCurrent, Unresolved
  <2> HIDE DEF done
  <2>4. held' \in HeldRows
    BY <1>1, <2>1, <2>2, HeldFields
  <2> QED
    BY <2>1, <2>3, <2>4, IdleRecovererType, RecovererBecomes
<1>5. CASE RecovererDies(w)
  <2>1. held' = held /\ recoverer' = [recoverer EXCEPT ![w] = IdleRecoverer]
    BY <1>5 DEF RecovererDies
  <2> QED
    BY <1>1, <2>1, IdleRecovererType, RecovererBecomes
<1> QED
  BY <1>2, <1>3, <1>4, <1>5

LEMMA RecoveryNextInv ==
  ASSUME RecoveryInv, RecoveryNext
  PROVE  /\ RecoveryInv'
         /\ Unresolved /\ held'.attempt = held.attempt => held'.recovery = held.recovery
<1>1. CASE CheckBecomesDue
  BY <1>1 DEF CheckBecomesDue, RecoveryInv, RecoveryTypes, ClaimsSayChecking
<1>2. CASE ReceiptArrives \/ NewAttemptHeld
  <2>1. held \in HeldRows /\ held.attempt \in Nat /\ held.attempt + 1 \in Nat
    BY DEF RecoveryInv, RecoveryTypes, HeldRows
  <2>2. recoverer' = recoverer /\ (\/ held' = [held EXCEPT !.status = "submitted"]
                                   \/ held' = [held EXCEPT !.attempt = held.attempt + 1])
    BY <1>2 DEF ReceiptArrives, NewAttemptHeld
  <2>3. held' \in HeldRows /\ held'.recovery = held.recovery
    BY <2>1, <2>2, HeldFields
  <2> QED
    BY <2>2, <2>3 DEF RecoveryInv, RecoveryTypes, ClaimsSayChecking
<1> QED
  BY <1>1, <1>2, RecoverySteps DEF RecoveryNext

LEMMA RecoveryInitInv == ASSUME RecoveryInit \/ RecoveryAtRest PROVE RecoveryInv
<1>1. /\ held \in HeldRows /\ recoverer = [w \in RecoveryWorkers |-> IdleRecoverer]
  BY DEF RecoveryInit, RecoveryAtRest, RowInit, HeldRows, NoRecovery, RecoveryClaims
<1> QED
  BY <1>1, IdleRecovererType DEF RecoveryInv, RecoveryTypes, ClaimsSayChecking

\* An attempt that was given up as unresolved stays so, for any number of workers and attempts
\* (submissionOutcomeRecovery.ts): a claim is not taken of it, and a slow worker finishes only
\* the very claim it wrote, which says that a check is under way.
THEOREM UnresolvedStaysFinal == ServicesSpec => UnresolvedIsFinal
<1> DEFINE kept == Unresolved /\ held'.attempt = held.attempt => held'.recovery = held.recovery
<1>1. ServicesInit => RecoveryInv
  BY RecoveryInitInv DEF ServicesInit
<1>2. RecoveryInv /\ [ServicesNext]_serviceVars => RecoveryInv' /\ [kept]_recoveryVars
  <2> SUFFICES ASSUME RecoveryInv, [ServicesNext]_serviceVars
               PROVE  RecoveryInv' /\ [kept]_recoveryVars
    OBVIOUS
  <2>1. CASE UNCHANGED recoveryVars
    BY <2>1 DEF recoveryVars, RecoveryInv, RecoveryTypes, ClaimsSayChecking
  <2>2. CASE RecoveryNext
    BY <2>2, RecoveryNextInv
  <2> QED
    BY <2>1, <2>2 DEF ServicesNext, UsageStep, AccountStep, RecoveryStep, serviceVars
<1> QED
  BY <1>1, <1>2, PTL DEF ServicesSpec, UnresolvedIsFinal
=============================================================================
