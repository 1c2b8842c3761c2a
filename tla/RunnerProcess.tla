----------------------------- MODULE RunnerProcess -----------------------------
(***************************************************************************)
(* processSubmissionApplication of src/src/routes/submissionRunner.ts, run *)
(* by the cron sweep and by the applicant's routes, several at a time; and *)
(* the browser provider that fills the employer's form and presses Send.   *)
(***************************************************************************)
EXTENDS SubmissionState

At(w, step) == worker[w].pc = step
Goto(w, step) == worker' = [worker EXCEPT ![w].pc = step]
GotoWith(w, step, review) ==
  worker' = [worker EXCEPT ![w].pc = step, ![w].snap = review]
Finish(w) == worker' = [worker EXCEPT ![w] = IdleProcess]

\* The error a step throws, on its way to fail(): the row acted on is the snapshot.
Throw(w, cause) ==
  worker' = [worker EXCEPT ![w].pc = "failing", ![w].cause = cause]

ClaimOf(w) == worker[w].snap.claim

-----------------------------------------------------------------------------
(* Reading the packet *)

\* The cron query's first arm alone.
UnclaimedWork(p) ==
  row[p].status \in {"submit_requested", "submitting"} /\ row[p].claim = None

\* The cron query: unclaimed work, and claims of a managed attempt whose
\* boundary was authorized.
NeedsRunner(p) ==
  \/ UnclaimedWork(p)
  \/ /\ Provider = "managed_browser"
     /\ ClaimIsHeld(row[p])
     /\ Has(ledger[row[p].claim], "boundary_authorized")

\* One sweep selects a batch and then runs through it, so the call that selects is
\* not in the middle of a packet.
CronSelects(p) ==
  /\ \E w \in Workers : At(w, "idle")
  /\ ~ queued[p] /\ NeedsRunner(p)
  /\ queued' = [queued EXCEPT ![p] = TRUE]
  /\ UNCHANGED <<now, row, runs, ledger, attempt, worker, provider, filed,
                 request, crashes>>

\* The step a process takes with the row it read: a held claim is recovered when
\* its boundary was authorized, and otherwise falls through to submit.
FirstStep(review) ==
  IF /\ Provider = "managed_browser" /\ ClaimIsHeld(review)
     /\ Has(ledger[review.claim], "boundary_authorized")
    THEN "recovering"
    ELSE "loaded"

LoadPacket(w, p) ==
  /\ At(w, "idle") /\ queued[p]
  /\ queued' = [queued EXCEPT ![p] = FALSE]
  /\ worker' = IF row[p].status \in {"submit_requested", "submitting"}
       THEN [worker EXCEPT ![w] = [pc |-> FirstStep(row[p]), packet |-> p,
                                   snap |-> row[p], cause |-> "none"]]
       ELSE worker
  /\ UNCHANGED <<now, row, runs, ledger, attempt, provider, filed, request,
                 crashes>>

-----------------------------------------------------------------------------
(* Preparation: filling the form *)

\* claimPreparation, guarded by the whole row that was read.
ClaimPreparation(w) ==
  LET p == worker[w].packet
      claimed == [worker[w].snap EXCEPT !.status = "preparing", !.claim = None]
  IN /\ At(w, "loaded") /\ worker[w].snap.status = "submit_requested"
     /\ IF row[p] = worker[w].snap
          THEN /\ row' = [row EXCEPT ![p] = claimed]
               /\ GotoWith(w, "preparing", claimed)
          ELSE UNCHANGED row /\ Finish(w)
     /\ UNCHANGED <<now, runs, queued, ledger, attempt, provider, filed, request,
                    crashes>>

\* Mutant: the confirmation is not asked about.
MayWriteReviewUnfolded(p, snap) == SameRunAndClaim(row[p], snap)

\* writeReview: a packet with a confirmation, or another run or claim, is left alone.
MayWriteReview(p, snap) == ~ PacketConfirmed(p) /\ SameRunAndClaim(row[p], snap)

WriteReview(p, snap, review) ==
  row' = IF MayWriteReview(p, snap) THEN [row EXCEPT ![p] = review] ELSE row

\* prepare ends: parked, waiting for approval, or (standing consent) going out.
PrepareParks(w, status) ==
  LET p == worker[w].packet
      snap == worker[w].snap
  IN /\ At(w, "preparing")
     /\ WriteReview(p, snap, [snap EXCEPT !.status = status])
     /\ Goto(w, "prepared")
     /\ UNCHANGED <<now, runs, queued, ledger, attempt, provider, filed, request,
                    crashes>>

\* Of an unclaimed row a run's proof that it pressed nothing reads the same in either
\* form, so one of them stands for both.
PrepareThrows(w, cause) ==
  /\ At(w, "preparing")
  /\ cause = "unconfigured" => Outages
  /\ Throw(w, cause)
  /\ UNCHANGED <<now, row, runs, queued, ledger, attempt, provider, filed,
                 request, crashes>>

\* The row is read again, whatever it now says.
Reload(w) ==
  LET p == worker[w].packet
  IN /\ At(w, "prepared")
     /\ IF row[p].status = "submitting"
          THEN GotoWith(w, "loaded", row[p])
          ELSE Finish(w)
     /\ UNCHANGED <<now, row, runs, queued, ledger, attempt, provider, filed,
                    request, crashes>>

-----------------------------------------------------------------------------
(* submit, up to the employer boundary *)

Submitting(w) == At(w, "loaded") /\ worker[w].snap.status = "submitting"

\* The packet audit, the lead, the consent or the duplicate gate refuses: the
\* review that was read is parked without its claim.  The lead is asked of a
\* packet that is to be prepared too.
HoldBeforeClaim(w, status) ==
  LET p == worker[w].packet
      snap == worker[w].snap
  IN /\ At(w, "loaded")
     /\ Submitting(w) \/ status = "needs_attention"
     /\ WriteReview(p, snap, [snap EXCEPT !.status = status, !.claim = None])
     /\ Finish(w)
     /\ UNCHANGED <<now, runs, queued, ledger, attempt, provider, filed, request,
                    crashes>>

\* claimSubmission: the claim on the row and the attempt's opening fact, together.
MayClaim(p, snap) ==
  snap.claim = None /\ row[p] = snap /\ Clear(p, {})

ClaimSubmission(w, a) ==
  LET p == worker[w].packet
      claimed == [worker[w].snap EXCEPT !.claim = a]
  IN /\ Submitting(w) /\ MayClaim(p, worker[w].snap)
     /\ attempt[a].packet = None
     /\ row' = [row EXCEPT ![p] = claimed]
     /\ attempt' = [attempt EXCEPT ![a] =
                      [packet |-> p, openedAt |-> now, lease |-> 0]]
     /\ AppendFact(a, Opened)
     /\ GotoWith(w, "claimed", claimed)
     /\ UNCHANGED <<now, runs, queued, provider, filed, request, crashes>>

\* A packet already claimed or changed, a duplicate, or the day's cap.
ClaimLost(w) ==
  /\ Submitting(w)
  /\ Finish(w)
  /\ UNCHANGED <<now, row, runs, queued, ledger, attempt, provider, filed,
                 request, crashes>>

\* An error before the claim or between the claim and the boundary.
ThrowBeforeBoundary(w, cause) ==
  /\ Submitting(w) \/ At(w, "claimed")
  /\ Throw(w, cause)
  /\ UNCHANGED <<now, row, runs, queued, ledger, attempt, provider, filed,
                 request, crashes>>

\* A typed stop after the claim: writeReviewWithRunnerNotSentFact closes the
\* attempt and parks the packet together, or does neither.
StopBeforeBoundary(w, status) ==
  LET p == worker[w].packet
      a == ClaimOf(w)
      snap == worker[w].snap
      owned == /\ SameRunAndClaim(row[p], snap)
               /\ NeverCrossedBoundary(a)
               /\ ~ Has(ledger[a], "submission_confirmed")
  IN /\ At(w, "claimed")
     /\ IF owned
          THEN /\ AppendFact(a, NotSent("typed_pre_click_stop"))
               /\ row' = [row EXCEPT ![p] =
                            [snap EXCEPT !.status = status, !.claim = None]]
          ELSE UNCHANGED <<ledger, row>>
     /\ Finish(w)
     /\ UNCHANGED <<now, runs, queued, attempt, provider, filed, request, crashes>>

\* finalRunnerReservationMatches, the duplicate gate over every other attempt, and
\* an attempt whose boundary was never authorized.
BoundaryClear(p, a, snap) ==
  /\ row[p] = snap
  /\ Clear(p, {a})
  /\ RetrySafety(ledger[a]) = "opened"

\* assertFinalRunnerBoundaryClear.  MaxTime is a bound: every lease expires before
\* the clock stops.
Authorize(w) ==
  LET p == worker[w].packet
      a == ClaimOf(w)
  IN /\ At(w, "claimed")
     /\ BoundaryClear(p, a, worker[w].snap)
     /\ now + LeaseTTL <= MaxTime
     /\ AppendFact(a, Authorized)
     /\ attempt' = [attempt EXCEPT ![a].lease = now + LeaseTTL]
     /\ Goto(w, "authorized")
     /\ UNCHANGED <<now, row, runs, queued, provider, filed, request, crashes>>

\* Its typed refusals, in the order the code asks.
AuthorizeRefused(w) ==
  LET p == worker[w].packet
  IN /\ At(w, "claimed")
     /\ \/ row[p] # worker[w].snap /\ Throw(w, "boundary_changed")
        \/ row[p] = worker[w].snap /\ Throw(w, "consent_changed")
        \/ /\ row[p] = worker[w].snap /\ ~ Clear(p, {ClaimOf(w)})
           /\ Throw(w, "boundary_blocked")
     /\ UNCHANGED <<now, row, runs, queued, ledger, attempt, provider, filed,
                    request, crashes>>

-----------------------------------------------------------------------------
(* The managed browser provider *)

\* The initial provider call.  Nothing is asked of the lease again: its expiry
\* went out with the call as providerDeadlineAt.
CallProvider(w) ==
  /\ At(w, "authorized") /\ Provider = "managed_browser"
  /\ provider' = [provider EXCEPT ![ClaimOf(w)].phase = "running"]
  /\ Goto(w, "calling")
  /\ UNCHANGED <<now, row, runs, queued, ledger, attempt, filed, request, crashes>>

\* The account fence refuses the call or no provider run comes of it.
CallRefused(w) ==
  /\ At(w, "authorized") /\ Provider = "managed_browser"
  /\ Goto(w, "recovering")
  /\ UNCHANGED <<now, row, runs, queued, ledger, attempt, provider, filed,
                 request, crashes>>

\* The provider's run presses Send, never past its deadline; the employer may
\* take the application or refuse it.
BeforeDeadline(a) == now < attempt[a].lease

ProviderPress(a, accepted) ==
  /\ provider[a].phase = "running" /\ ~ provider[a].pressed
  /\ BeforeDeadline(a)
  /\ provider' = [provider EXCEPT ![a].pressed = TRUE]
  /\ filed' = [filed EXCEPT ![a] = accepted]
  /\ UNCHANGED <<now, row, runs, queued, ledger, attempt, worker, request, crashes>>

ProviderEnds(a) ==
  /\ provider[a].phase = "running"
  /\ provider' = [provider EXCEPT ![a].phase = "ended"]
  /\ UNCHANGED <<now, row, runs, queued, ledger, attempt, worker, filed, request,
                 crashes>>

\* Mutant: an observed press is taken for a receipt.
ProvesOncePressed(a, step) ==
  CASE step = "confirming"  -> provider[a].pressed
    [] step = "refusing"    -> provider[a].pressed /\ ~ filed[a]
    [] step = "unverifying" -> TRUE

\* What the provider's result proves, by the step that records it: a receipt, an
\* employer's refusal of the pressed form, or nothing.
Proves(a, step) ==
  CASE step = "confirming"  -> filed[a]
    [] step = "refusing"    -> provider[a].pressed /\ ~ filed[a]
    [] step = "unverifying" -> TRUE

\* A proof comes with the press it is about; otherwise a press may go unreported.
Reports(a, step, reported) ==
  /\ reported => provider[a].pressed
  /\ step \in {"confirming", "refusing"} => reported

\* The call returns: the reported press is recorded, then the verdict's branch.
ReceiveAnswer(w, step, reported) ==
  LET a == ClaimOf(w)
  IN /\ At(w, "calling") /\ provider[a].phase = "ended"
     /\ Proves(a, step) /\ Reports(a, step, reported)
     /\ AppendPressOnce(a, reported)
     /\ Goto(w, step)
     /\ UNCHANGED <<now, row, runs, queued, attempt, provider, filed, request,
                    crashes>>

\* The call throws, perhaps carrying the run's own progress record; the retained
\* result is asked for next.
CallLost(w, reported) ==
  LET a == ClaimOf(w)
  IN /\ At(w, "calling")
     /\ reported => provider[a].pressed
     /\ AppendPressOnce(a, reported)
     /\ Goto(w, "recovering")
     /\ UNCHANGED <<now, row, runs, queued, attempt, provider, filed, request,
                    crashes>>

\* Mutant: a run that is over is taken for one that pressed nothing.
IsOver(a) == provider[a].phase = "ended"

\* The provider's record of a run that is over shows no press
\* (managedBrowserProgressAllowsPreSubmitRetry).
NeverPressed(a) == provider[a].phase = "ended" /\ ~ provider[a].pressed

\* The run's own error answer shows it, and the error is thrown on.  The recovery asked
\* for first nearly always has an answer of its own; that it has none is let happen
\* at any time.
CallStopped(w, cause) ==
  /\ At(w, "calling") /\ NeverPressed(ClaimOf(w))
  /\ Throw(w, cause)
  /\ UNCHANGED <<now, row, runs, queued, ledger, attempt, provider, filed,
                 request, crashes>>

\* recoverManagedSubmissionTerminalResult: the run is still going, or nothing is
\* retained yet and its authorization is active.
RecoverPending(w) ==
  LET a == ClaimOf(w)
  IN /\ At(w, "recovering")
     /\ provider[a].phase = "running" \/ LeaseActive(a)
     /\ Finish(w)
     /\ UNCHANGED <<now, row, runs, queued, ledger, attempt, provider, filed,
                    request, crashes>>

\* A retained result, or none although the authorization is over.
RecoverResult(w, step, reported) ==
  LET a == ClaimOf(w)
  IN /\ At(w, "recovering")
     /\ \/ provider[a].phase = "ended"
        \/ ~ LeaseActive(a) /\ step = "unverifying" /\ ~ reported
     /\ step # "refusing"
     /\ Proves(a, step) /\ Reports(a, step, reported)
     /\ AppendPressOnce(a, reported)
     /\ Goto(w, step)
     /\ UNCHANGED <<now, row, runs, queued, attempt, provider, filed, request,
                    crashes>>

-----------------------------------------------------------------------------
(* The direct browser: Send is pressed by the runner itself *)

\* clickFinalSubmit, after the boundary check returned.
ClickFinalSubmit(w, accepted) ==
  LET a == ClaimOf(w)
  IN /\ At(w, "authorized") /\ Provider = "direct_browser"
     /\ provider' = [provider EXCEPT ![a].pressed = TRUE]
     /\ filed' = [filed EXCEPT ![a] = accepted]
     /\ Goto(w, "clicked")
     /\ UNCHANGED <<now, row, runs, queued, ledger, attempt, request, crashes>>

\* No unique submit control: nothing was pressed.
NoSubmitControl(w) ==
  /\ At(w, "authorized") /\ Provider = "direct_browser"
  /\ Throw(w, "no_submit_control")
  /\ UNCHANGED <<now, row, runs, queued, ledger, attempt, provider, filed,
                 request, crashes>>

RecordPress(w) ==
  /\ At(w, "clicked")
  /\ AppendPressOnce(ClaimOf(w), TRUE)
  /\ Goto(w, "pressed")
  /\ UNCHANGED <<now, row, runs, queued, attempt, provider, filed, request,
                 crashes>>

\* The page shows an exact receipt.
ReadReceipt(w) ==
  /\ At(w, "pressed") /\ filed[ClaimOf(w)]
  /\ Goto(w, "confirming")
  /\ UNCHANGED <<now, row, runs, queued, ledger, attempt, provider, filed,
                 request, crashes>>

\* Any other error once the boundary was authorized: a page without a receipt, a
\* store that fails, a fact that conflicts with one on record.
ThrowAfterBoundary(w) ==
  /\ worker[w].pc \in {"clicked", "pressed", "recovering", "confirming",
                       "refusing", "unverifying"}
  /\ Throw(w, "untyped")
  /\ UNCHANGED <<now, row, runs, queued, ledger, attempt, provider, filed,
                 request, crashes>>

-----------------------------------------------------------------------------
(* Recording the outcome *)

\* commitVerifiedSubmissionConfirmed: the exact attempt's confirmation, whatever
\* the row's claim; the row is submitted, or parked with its receipt when the
\* application's projection needs repair.
RecordConfirmed(w, parked) ==
  LET p == worker[w].packet
      a == ClaimOf(w)
  IN /\ At(w, "confirming")
     /\ Has(ledger[a], "boundary_authorized") /\ Has(ledger[a], "press_observed")
     /\ AppendConfirmationOnce(a)
     /\ row' = [row EXCEPT ![p] =
          IF parked
            THEN [@ EXCEPT !.status = "needs_attention", !.unv = "open",
                           !.receipt = TRUE]
            ELSE MarkSubmitted(@, IF @.unv = "none" THEN "none" ELSE "sent")]
     /\ Finish(w)
     /\ UNCHANGED <<now, runs, queued, attempt, provider, filed, request, crashes>>

\* The row still carries this run and this claim, and the attempt is unsettled.
StillOwns(p, snap) ==
  SameRunAndClaim(row[p], snap) /\ Unsettled(snap.claim)

\* recordManagedAuthorizedAttemptRefused: the employer's own answer.
RecordRefused(w) ==
  LET p == worker[w].packet
      a == ClaimOf(w)
  IN /\ At(w, "refusing")
     /\ IF StillOwns(p, worker[w].snap)
          THEN /\ AppendFact(a, NotSent("employer_rejected_not_filed"))
               /\ row' = [row EXCEPT ![p] = ReleaseTo(@, "none")]
          ELSE UNCHANGED <<ledger, row>>
     /\ Finish(w)
     /\ UNCHANGED <<now, runs, queued, attempt, provider, filed, request, crashes>>

\* recordManagedAuthorizedAttemptUnverified: the claim stays held.
RecordUnverified(w) ==
  LET p == worker[w].packet
  IN /\ At(w, "unverifying")
     /\ row' = IF StillOwns(p, worker[w].snap)
                 THEN [row EXCEPT ![p] = MarkUnverified(@)]
                 ELSE row
     /\ Finish(w)
     /\ UNCHANGED <<now, runs, queued, ledger, attempt, provider, filed, request,
                    crashes>>

-----------------------------------------------------------------------------
(* recordSubmissionRunnerFailure *)

\* The stops that release the claim whatever the row holds.
ReleasingStops == {"boundary_changed", "boundary_blocked", "consent_changed",
                   "no_submit_control"}

\* submissionFailureReview.  neverReached: the ledger shows the acted-on attempt
\* stopped before its boundary.  A claim is released on the row's own evidence, the
\* ledger's or the run's; without a provider an unclaimed packet goes back to the queue.
FailureReview(latest, cause, neverReached) ==
  LET uncertain == latest.claim # None
      provablyNotSent == /\ cause = "pre_click_stop"
                         /\ ~ latest.receipt /\ latest.unv # "open"
                         /\ latest.unv # "sent"
      releases == uncertain
                    /\ (provablyNotSent \/ neverReached \/ cause \in ProvenStops)
      needsExit == uncertain /\ ~ releases /\ latest.unv = "none"
      over == uncertain \/ neverReached
  IN IF cause \in ReleasingStops
       THEN PreClickRelease(latest, IF cause = "consent_changed"
                                      THEN "ready_for_final_approval"
                                      ELSE "needs_attention")
       ELSE [latest EXCEPT
               !.status = CASE ~ over /\ cause = "untyped" -> "failed"
                            [] ~ over /\ cause = "unconfigured" -> "submit_requested"
                            [] OTHER -> "needs_attention",
               !.claim = IF releases THEN None ELSE @,
               !.unv = IF needsExit THEN "open" ELSE @]

\* The row is still this run's and, if the acted-on row was claimed, its claim's.
MayRecordFailure(p, snap) ==
  /\ row[p].run = snap.run
  /\ snap.claim # None => row[p].claim = snap.claim /\ Unsettled(snap.claim)

\* releasedClaimProofKind: what the run proved counts once a boundary was authorized.
ReleasedClaimProof(cause, authorized) ==
  CASE authorized /\ cause = "run_progress_stop"  -> "run_progress_proven_not_pressed"
    [] authorized /\ cause = "plan_position_stop" -> "plan_position_proven_not_pressed"
    [] OTHER -> "typed_pre_click_stop"

\* A release of the claim outranks the authorization; what stays held is marked.
RecordFailure(w) ==
  LET p == worker[w].packet
      snap == worker[w].snap
      a == snap.claim
      review == FailureReview(row[p], worker[w].cause,
                              a # None /\ NeverCrossedBoundary(a))
      closes == a # None /\ review.claim = None
      crossed == a # None /\ Has(ledger[a], "boundary_authorized")
  IN /\ At(w, "failing")
     /\ IF MayRecordFailure(p, snap)
          THEN /\ row' = [row EXCEPT ![p] =
                            IF ~ closes /\ crossed THEN MarkUnverified(@)
                                                   ELSE review]
               /\ IF closes
                    THEN AppendFact(a, NotSent(ReleasedClaimProof(worker[w].cause, crossed)))
                    ELSE UNCHANGED ledger
          ELSE UNCHANGED <<row, ledger>>
     /\ Finish(w)
     /\ UNCHANGED <<now, runs, queued, attempt, provider, filed, request, crashes>>

\* The process dies; what it held in memory is gone.
WorkerCrash(w) ==
  /\ ~ At(w, "idle") /\ crashes < MaxCrashes
  /\ Finish(w)
  /\ crashes' = crashes + 1
  /\ UNCHANGED <<now, row, runs, queued, ledger, attempt, provider, filed, request>>

-----------------------------------------------------------------------------

\* Every step of one process but reading a packet.
WorkerStep(w) ==
  \/ ClaimPreparation(w) \/ Reload(w)
  \/ \E s \in StopStatuses \cup {"submitting"} : PrepareParks(w, s)
  \/ \E s \in StopStatuses : HoldBeforeClaim(w, s) \/ StopBeforeBoundary(w, s)
  \/ \E c \in {"pre_click_stop", "untyped"} : ThrowBeforeBoundary(w, c)
  \/ \E c \in {"pre_click_stop", "untyped", "unconfigured", "run_progress_stop"} :
       PrepareThrows(w, c)
  \/ \E c \in ProvenStops : CallStopped(w, c)
  \/ \E a \in Attempts : ClaimSubmission(w, a)
  \/ ClaimLost(w) \/ Authorize(w) \/ AuthorizeRefused(w)
  \/ CallProvider(w) \/ CallRefused(w) \/ RecoverPending(w)
  \/ \E reported \in BOOLEAN :
       \/ CallLost(w, reported)
       \/ \E s \in {"confirming", "refusing", "unverifying"} :
            ReceiveAnswer(w, s, reported) \/ RecoverResult(w, s, reported)
  \/ \E accepted \in BOOLEAN : ClickFinalSubmit(w, accepted)
  \/ NoSubmitControl(w) \/ RecordPress(w) \/ ReadReceipt(w)
  \/ ThrowAfterBoundary(w)
  \/ \E parked \in BOOLEAN : RecordConfirmed(w, parked)
  \/ RecordRefused(w) \/ RecordUnverified(w) \/ RecordFailure(w)

ProviderStep ==
  \E a \in Attempts :
    (\E accepted \in BOOLEAN : ProviderPress(a, accepted)) \/ ProviderEnds(a)

RunnerNext ==
  \/ \E p \in Packets : CronSelects(p) \/ \E w \in Workers : LoadPacket(w, p)
  \/ \E w \in Workers : WorkerStep(w) \/ WorkerCrash(w)
  \/ ProviderStep
=============================================================================
