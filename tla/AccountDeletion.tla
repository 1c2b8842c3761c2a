---------------------------- MODULE AccountDeletion ----------------------------
(***************************************************************************)
(* DELETE /account (src/src/routes/account.ts): the account's subscription *)
(* is cancelled, its employer sessions are closed, and only then is the    *)
(* user row deleted.  The request may fail or die after any step, and the  *)
(* student sends it again.  The first thing it writes, the drain row,      *)
(* stays: from then on no provider call may start.  It is written under    *)
(* the account's provider-call key, which a call holds while it runs       *)
(* (submissionAccountFence.ts, browserProviderResourceCleanup.ts).         *)
(*                                                                         *)
(* Beside it run the webhook of BillingEvents, the calls that open browser *)
(* sessions, and one managed run.  The provider is external.  Deleting the *)
(* stored files, which has no pointer left to check, is not a step here.   *)
(***************************************************************************)
EXTENDS BillingEvents

CONSTANTS
  Sessions,       \* calls of createFencedBrowserSession, each with a reservation
  LockTimeout,    \* PROVIDER_CALL_LOCK_TIMEOUT_MS, in ticks
  PostBound,      \* the provider request's own timeout, in ticks
  CreationWindow  \* RESOURCE_CREATION_RECOVERY_MS, in ticks

ASSUME WindowAssumption ==
  /\ LockTimeout \in Nat /\ PostBound \in Nat /\ CreationWindow \in Nat
  /\ LockTimeout + PostBound < CreationWindow

VARIABLES
  drained,   \* the drain row (managed_submission_account_deletion_drains)
  deletion,  \* the request: where it is, whether it planned a cancellation
  maker,     \* session call -> "unused", "idle", "reserved", "posting" or "over"
  resource,  \* session call -> its row in browser_provider_resource_cleanups
  session,   \* session call -> "none", "requested", "live" or "ended" (the provider)
  age,       \* session call -> ticks since its reservation
  managed    \* the managed run: what its call, its row and its process are at

sessionVars == <<maker, resource, session, age>>
accountVars == <<billingVars, drained, deletion, sessionVars, managed>>

NoResource == [row |-> "none", gone |-> FALSE, released |-> FALSE]
NoDeletion == [at |-> "idle", planned |-> FALSE]

NothingReserved ==
  /\ drained = FALSE
  /\ resource = [s \in Sessions |-> NoResource]
  /\ session = [s \in Sessions |-> "none"]
  /\ age = [s \in Sessions |-> 0]

WithoutEmployerWork ==
  NothingReserved /\ managed = "clean" /\ maker = [s \in Sessions |-> "unused"]

NoSubscription == BillingInit("canceled", {}) /\ script = {}

NeverDeleted == [NoDeletion EXCEPT !.at = "unused"]

\* Bound: a subscription with overlapping deliveries and no deletion, with a deletion
\* and one delivery at a time, or a deletion with employer work and no subscription.
AccountInit ==
  \/ /\ BillingInit("active", Deliveries) /\ script \in Scripts
     /\ deletion = NeverDeleted /\ WithoutEmployerWork
  \/ /\ \E d \in Deliveries : BillingInit("active", {d})
     /\ script \in Scripts
     /\ deletion = NoDeletion /\ WithoutEmployerWork
  \/ /\ NoSubscription /\ deletion = NoDeletion /\ NothingReserved
     /\ managed = "none" /\ maker = [s \in Sessions |-> "idle"]

\* An account where nothing of this happens.
AccountAtRest == NoSubscription /\ deletion = NeverDeleted /\ WithoutEmployerWork

\* Nobody holds the account's provider-call key.
ProviderKeyFree ==
  managed # "call" /\ \A s \in Sessions : maker[s] # "posting"

-----------------------------------------------------------------------------
(* A browser session *)

\* reserveBrowserProviderResource.
ReserveSession(s) ==
  /\ maker[s] = "idle" /\ account = "open" /\ ~ drained
  /\ maker' = [maker EXCEPT ![s] = "reserved"]
  /\ resource' = [resource EXCEPT ![s].row = "reserved"]
  /\ UNCHANGED <<billingVars, drained, deletion, session, age, managed>>

\* Mutant: the account's drain row is not asked again under the key.
DrainingUnasked == FALSE

\* assertSubmissionAccountNotDraining, once the key is held.
Draining == drained

\* The transaction has the key.  Under a drain the reservation is given up; without
\* its reservation (the account may be gone, and the drain row with it) it throws.
StartSession(s) ==
  LET mine == resource[s]
  IN /\ maker[s] = "reserved" /\ ProviderKeyFree
     /\ \/ /\ Draining
           /\ resource' = [resource EXCEPT ![s].gone = mine.row # "none"]
           /\ maker' = [maker EXCEPT ![s] = "over"] /\ UNCHANGED session
        \/ /\ ~ Draining /\ (mine.row # "reserved" \/ mine.gone)
           /\ maker' = [maker EXCEPT ![s] = "over"] /\ UNCHANGED <<resource, session>>
        \/ /\ ~ Draining /\ mine.row = "reserved" /\ ~ mine.gone
           /\ maker' = [maker EXCEPT ![s] = "posting"]
           /\ session' = [session EXCEPT ![s] = "requested"] /\ UNCHANGED resource
     /\ UNCHANGED <<billingVars, drained, deletion, age, managed>>

\* The provider creates the session, or does not.
SessionAnswered(s) ==
  /\ session[s] = "requested"
  /\ \E outcome \in {"live", "none"} : session' = [session EXCEPT ![s] = outcome]
  /\ UNCHANGED <<billingVars, drained, deletion, maker, resource, age, managed>>

\* The session's id is bound to the reservation, and the transaction commits.
BindSession(s) ==
  /\ maker[s] = "posting" /\ session[s] = "live"
  /\ resource' = [resource EXCEPT ![s].row = "bound"]
  /\ maker' = [maker EXCEPT ![s] = "over"]
  /\ UNCHANGED <<billingVars, drained, deletion, session, age, managed>>

\* The wait for the key times out, the request fails, or the process dies: the
\* transaction is gone and the key free, and the request may still be under way.
SessionCallLost(s) ==
  /\ maker[s] \in {"reserved", "posting"}
  /\ maker' = [maker EXCEPT ![s] = "over"]
  /\ UNCHANGED <<billingVars, drained, deletion, resource, session, age, managed>>

\* A session ends by itself or because its release was requested.
SessionEnds(s) ==
  /\ session[s] = "live"
  /\ session' = [session EXCEPT ![s] = "ended"]
  /\ UNCHANGED <<billingVars, drained, deletion, maker, resource, age, managed>>

\* Waiting for the key and for the provider is bounded by their timeouts.
SessionTicks(s) ==
  /\ resource[s].row = "reserved" /\ age[s] < CreationWindow
  /\ maker[s] = "reserved" => age[s] < LockTimeout
  /\ maker[s] = "posting" \/ session[s] = "requested" => age[s] < LockTimeout + PostBound
  /\ age' = [age EXCEPT ![s] = @ + 1]
  /\ UNCHANGED <<billingVars, drained, deletion, maker, resource, session, managed>>

-----------------------------------------------------------------------------
(* The managed run *)

\* "preparing": at work, no call made yet.  "between": its row is filling, or claimed,
\* and no call is under way.  "call": a call, under the key.  Of a dead process:
\* "stuck" is a filling row, "authorized" and "stranded" a claimed one with and without
\* its authorization.  "waiting" is a wait for the employer's security code, "outbox" a
\* result to acknowledge, "quarantined" a copy the row no longer says how to name.
ManagedRuns(from, to) ==
  /\ managed \in from /\ managed' \in to
  /\ UNCHANGED <<billingVars, drained, deletion, sessionVars>>

ManagedBegins == account = "open" /\ ManagedRuns({"none"}, {"preparing"})

\* withProviderCallFence asks for the drain row; the account itself it does not ask for,
\* and a run that still has its account has a row to come back to.
ManagedCalls ==
  ProviderKeyFree /\ ~ Draining /\ ManagedRuns({"preparing", "between"}, {"call"})

ManagedReturns ==
  \/ ManagedRuns({"call"}, {"between", "clean"})
  \/ account = "open" /\ ManagedRuns({"call"}, {"outbox", "waiting"})

\* A refused call, or any other failure, parks the row.
ManagedStops == ManagedRuns({"preparing", "between"}, {"clean"})

\* The applicant enters the code: the attempt goes on.
ManagedContinues == ~ Draining /\ ManagedRuns({"waiting"}, {"between"})

\* What a process leaves when it dies; of a run that made no call, nothing is open.
ManagedDies ==
  \/ ManagedRuns({"preparing"}, {"clean"})
  \/ account = "open" /\ ManagedRuns({"between"}, {"stuck", "authorized", "stranded"})
  \/ account = "open" /\ ManagedRuns({"call"}, {"stuck", "authorized"})
  \/ account = "deleted" /\ ManagedRuns({"between", "call"}, {"clean"})

\* A boot sweep or a dashboard poll releases a filling row (releaseStalledFillRun).
ManagedFreed == ManagedRuns({"stuck"}, {"clean"})

\* Mutant: the cron takes no claimed row.
RecoversNothing == {}

\* The cron takes a claimed row whose boundary was authorized, and no other.
Recovers == {"authorized"}

\* It retrieves the retained result; the drain does not keep it from that.
ManagedRecovered ==
  ManagedRuns(Recovers, {"outbox", "waiting", "quarantined", "clean"})

ManagedAcknowledged == ManagedRuns({"outbox"}, {"clean"})

-----------------------------------------------------------------------------
(* DELETE /account *)

At(place) == deletion.at = place
GoesOn(to) == deletion' = [deletion EXCEPT !.at = to]
Stops == deletion' = NoDeletion

\* accountDeletionBillingPlan: a row in another status is cancelled at Stripe.
Renewable(status) == status \notin {"canceled", "refunded", "none"}

\* Billing is read, outside any transaction.
PlanDeletion ==
  /\ At("idle") /\ account = "open"
  /\ deletion' = [at |-> "planned", planned |-> Renewable(subscription)]
  /\ UNCHANGED <<billingVars, drained, sessionVars, managed>>

\* Under both keys, the drain row.
FenceDeletion ==
  /\ At("planned") /\ ProviderKeyFree
  /\ drained' = TRUE
  /\ GoesOn("fenced")
  /\ UNCHANGED <<billingVars, sessionVars, managed>>

WriteTombstone ==
  /\ At("fenced")
  /\ tombstone' = [tombstone EXCEPT !.row = @ \/ deletion.planned]
  /\ GoesOn("tombstoned")
  /\ UNCHANGED <<script, stripe, raised, ledger, subscription, delivery, failures,
                 account, drained, sessionVars, managed>>

\* Stripe cancels; what is cancelled already it may refuse to cancel again.
CancelPlanned ==
  /\ At("tombstoned")
  /\ \/ /\ deletion.planned
        /\ stripe' = Cancelled /\ raised' = RaisedByCancel /\ GoesOn("cancelled")
     \/ /\ deletion.planned /\ stripe.status = "canceled"
        /\ Stops /\ UNCHANGED <<stripe, raised>>
     \/ /\ ~ deletion.planned
        /\ GoesOn("cancelled") /\ UNCHANGED <<stripe, raised>>
  /\ UNCHANGED <<script, ledger, subscription, delivery, failures, account, tombstone,
                 drained, sessionVars, managed>>

ConfirmCancellation ==
  /\ At("cancelled")
  /\ tombstone' = [tombstone EXCEPT !.confirmed = @ \/ deletion.planned]
  /\ GoesOn("confirmed")
  /\ UNCHANGED <<script, stripe, raised, ledger, subscription, delivery, failures,
                 account, drained, sessionVars, managed>>

\* Rows the drain lets pass: of a run that begins, only the filling one stops it.
Harmless == {"none", "preparing", "clean"}

\* drainManagedTerminalCleanupBeforeAccountDeletion: an outbox may be acknowledged; a
\* row that may still have an execution, or a quarantine, stops the deletion.
DrainManaged ==
  /\ At("confirmed")
  /\ \/ managed \in Harmless /\ GoesOn("draining") /\ UNCHANGED managed
     \/ managed = "outbox" /\ managed' = "clean" /\ GoesOn("draining")
     \/ managed \notin {"none", "clean"} /\ Stops /\ UNCHANGED managed
  /\ UNCHANGED <<billingVars, drained, sessionVars>>

\* Mutant: a reservation the provider knows no session of is kept.
WindowNeverOver(s) == FALSE

\* The creation window of the reservation is over.
WindowOver(s) == age[s] >= CreationWindow

Unconfirmed(s) == resource[s].row # "none" /\ ~ resource[s].gone

\* What the drain makes of a reservation: the provider knows its session and binds it,
\* or knows none after the window; a bound session that has ended is confirmed gone, a
\* live one is asked to end.
DrainedResource(s) ==
  LET r == resource[s]
      known == session[s] \in {"live", "ended"}
  IN CASE r.row = "reserved" /\ known -> [r EXCEPT !.row = "bound"]
       [] r.row = "reserved" /\ ~ known /\ WindowOver(s) -> [r EXCEPT !.gone = TRUE]
       [] r.row = "bound" /\ session[s] = "ended" -> [r EXCEPT !.gone = TRUE]
       [] r.row = "bound" /\ session[s] # "ended" -> [r EXCEPT !.released = TRUE]
       [] OTHER -> r

DrainResource(s) ==
  /\ At("draining") /\ Unconfirmed(s)
  /\ resource[s] # DrainedResource(s)
  /\ resource' = [resource EXCEPT ![s] = DrainedResource(s)]
  /\ UNCHANGED <<billingVars, drained, deletion, maker, session, age, managed>>

\* Every row has been looked at: go on, or answer 409.
FinishDrain ==
  /\ At("draining")
  /\ \A s \in Sessions : Unconfirmed(s) => resource[s] = DrainedResource(s)
  /\ IF \E s \in Sessions : Unconfirmed(s) THEN Stops ELSE GoesOn("drained")
  /\ UNCHANGED <<billingVars, drained, sessionVars, managed>>

\* Mutant: the tombstone is not told that the account is deleted.
TombstoneOfPlan == tombstone

\* account_deleted_at, for the subscriptions this request planned.
TombstoneAtDeletion ==
  [tombstone EXCEPT !.deleted = @ \/ (deletion.planned /\ tombstone.row)]

\* The last transaction asks for unconfirmed resources again and deletes the user.
\* Every row of the account goes with it, the drain row too.
DeleteAccount ==
  /\ At("drained")
  /\ IF \E s \in Sessions : Unconfirmed(s)
       THEN Stops /\ UNCHANGED <<billingVars, drained, resource>>
       ELSE /\ account' = "deleted" /\ subscription' = "none"
            /\ tombstone' = TombstoneAtDeletion
            /\ drained' = FALSE
            /\ resource' = [s \in Sessions |-> NoResource]
            /\ GoesOn("done")
            /\ UNCHANGED <<script, stripe, raised, ledger, delivery, failures>>
  /\ UNCHANGED <<maker, session, age, managed>>

\* A step fails or the process dies: the account stays, and so does the drain row.
DeletionAborts ==
  /\ deletion.at \notin {"idle", "done", "unused"}
  /\ failures < MaxFailures /\ failures' = failures + 1
  /\ Stops
  /\ UNCHANGED <<script, stripe, raised, ledger, subscription, delivery, account,
                 tombstone, drained, sessionVars, managed>>

DeletionStep ==
  \/ PlanDeletion \/ FenceDeletion \/ WriteTombstone \/ CancelPlanned
  \/ ConfirmCancellation \/ DrainManaged \/ FinishDrain \/ DeleteAccount
  \/ \E s \in Sessions : DrainResource(s)

\* What a live process, the sweeps and the cron do by themselves.
ManagedStep ==
  ManagedReturns \/ ManagedStops \/ ManagedFreed \/ ManagedRecovered \/ ManagedAcknowledged

\* What somebody starts, and what may befall a run.
ManagedOther == ManagedBegins \/ ManagedCalls \/ ManagedContinues \/ ManagedDies

AccountNext ==
  \/ BillingNext /\ UNCHANGED <<drained, deletion, sessionVars, managed>>
  \/ \E s \in Sessions :
       \/ ReserveSession(s) \/ StartSession(s) \/ SessionAnswered(s) \/ BindSession(s)
       \/ SessionCallLost(s) \/ SessionEnds(s) \/ SessionTicks(s)
  \/ ManagedOther \/ ManagedStep
  \/ DeletionStep \/ DeletionAborts

\* The student sends the request again until it succeeds; a call, a request to the
\* provider and a session come to their end; time passes.
AccountFairness ==
  /\ BillingFairness
  /\ WF_accountVars(DeletionStep) /\ WF_accountVars(ManagedStep)
  /\ \A s \in Sessions :
       /\ WF_accountVars(StartSession(s) \/ BindSession(s) \/ SessionCallLost(s))
       /\ WF_accountVars(SessionAnswered(s) \/ SessionEnds(s))
       /\ WF_accountVars(SessionTicks(s))

-----------------------------------------------------------------------------
(* Properties *)

\* Nothing that was under way when the account was fenced runs on at an employer: no
\* browser session is open or being opened, whatever calls died or were waiting for the
\* key, and no managed run is left with a copy to acknowledge or recover.  The exception
\* is a run that was preparing: the drain does not wait for it, and the drain row, which
\* its call would be refused for, goes with the account.
DeletedLeavesNothingOpen ==
  account = "deleted" =>
    /\ \A s \in Sessions : session[s] \notin {"requested", "live"}
    /\ managed \in Harmless \cup {"call", "between"}

\* A deletion that was begun and is asked for again ends: the drain row it left behind,
\* which refuses every employer call, is not left for ever on an account that stays.
\* The exceptions: a row that still reads disputed hides that Stripe has nothing left
\* to cancel, and a managed row that nothing in the code moves any more (stranded or
\* quarantined), or only the applicant's code would move, stops every drain,
\* however often the answer says "Retry shortly".
DeletionCompletes ==
  drained ~> \/ account = "deleted" \/ subscription = "disputed"
             \/ managed \in {"stranded", "waiting", "quarantined"}

\* When a deletion cancelled the subscription itself, Stripe's event of it is answered
\* even when it arrives after the account is gone, and is not refused for days.
CancellationSettles ==
  account = "deleted" /\ deletion.planned ~> ledger["deleted"] = "processed"

\* A deleted account is not billed: its subscription is cancelled at Stripe.
DeletedIsNotBilled == account = "deleted" => stripe.status = "canceled"

=============================================================================
