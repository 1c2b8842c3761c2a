---------------------------- MODULE ApplicantRoutes ----------------------------
(***************************************************************************)
(* What the applicant and her reads of a packet do to it: the routes of    *)
(* src/src/routes/applications.ts that start, approve and answer for a     *)
(* submission, and the repairs that run when a packet is loaded.           *)
(***************************************************************************)
EXTENDS SubmissionState

\* submitRequestDisposition answers start, or the applicant asked for a restart
\* of a filled, unclaimed form (preparedRunCanRestart).  Of a claimed row that itself
\* proves nothing was sent (submissionProvablyNotSent) the stop on record is not kept.
StartAllowed(review) ==
  \/ review.status = "submit_requested" /\ review.claim = None
  \/ review.status = "needs_attention"
       /\ \/ review.claim = None \/ review.unv = "not_sent"
          \/ review.unv = "none" /\ ~ review.receipt
  \/ review.status \in {"ready_to_submit", "failed"}
  \/ review.status = "ready_for_final_approval" /\ review.claim = None

\* A submit-request or approve call reads the row and decides it may go on.
RequestRead(r, p, kind) ==
  /\ request[r].phase = "idle"
  /\ IF kind = "submit"
       THEN StartAllowed(row[p]) /\ runs[p] < MaxRuns
       ELSE row[p].status = "ready_for_final_approval"
  /\ request' = [request EXCEPT ![r] =
       [kind |-> kind, phase |-> "read", packet |-> p, current |-> row[p]]]
  /\ UNCHANGED <<now, row, runs, queued, ledger, attempt, worker, provider,
                 filed, crashes>>

\* refuseDuplicateApplication asks the duplicate gate, holding no lock.
RequestVerdict(r) ==
  /\ request[r].phase = "read"
  /\ request' = [request EXCEPT ![r].phase =
       IF Clear(request[r].packet, {}) THEN "clear" ELSE "refused"]
  /\ UNCHANGED <<now, row, runs, queued, ledger, attempt, worker, provider,
                 filed, crashes>>

\* refuseDuplicateApplication writes the review it read, parked, if the row
\* still has the status it read.
RequestRefused(r) ==
  LET p == request[r].packet
      current == request[r].current
  IN /\ request[r].phase = "refused"
     /\ row' = IF row[p].status = current.status
                 THEN [row EXCEPT ![p] =
                         [current EXCEPT !.status = "needs_attention"]]
                 ELSE row
     /\ request' = [request EXCEPT ![r] = IdleCall]
     /\ UNCHANGED <<now, runs, queued, ledger, attempt, worker, provider,
                    filed, crashes>>

\* freshSubmitRequestReview over the review that was read, guarded by its status
\* alone; then processSubmissionApplication.
SubmitRequest(r) ==
  LET p == request[r].packet
  IN /\ request[r].phase = "clear" /\ request[r].kind = "submit"
     /\ runs[p] < MaxRuns
     /\ IF row[p].status = request[r].current.status
          THEN /\ row' = [row EXCEPT ![p] =
                     [status |-> "submit_requested", run |-> runs[p] + 1,
                      claim |-> None, unv |-> "none", receipt |-> FALSE]]
               /\ runs' = [runs EXCEPT ![p] = @ + 1]
               /\ queued' = [queued EXCEPT ![p] = TRUE]
          ELSE UNCHANGED <<row, runs, queued>>
     /\ request' = [request EXCEPT ![r] = IdleCall]
     /\ UNCHANGED <<now, ledger, attempt, worker, provider, filed, crashes>>

\* POST /submission/approve, guarded by the whole row it read.
Approve(r) ==
  LET p == request[r].packet
      current == request[r].current
  IN /\ request[r].phase = "clear" /\ request[r].kind = "approve"
     /\ IF row[p] = current
          THEN /\ row' = [row EXCEPT ![p] =
                     [current EXCEPT !.status = "submitting", !.claim = None]]
               /\ queued' = [queued EXCEPT ![p] = TRUE]
          ELSE UNCHANGED <<row, queued>>
     /\ request' = [request EXCEPT ![r] = IdleCall]
     /\ UNCHANGED <<now, runs, ledger, attempt, worker, provider, filed, crashes>>

\* What the employer shows the applicant who looks.
EmployerHolds(p) ==
  \E a \in Attempts : /\ attempt[a].packet # None
                      /\ PostingOf[attempt[a].packet] = PostingOf[p]
                      /\ filed[a]

SaysNotThere(p) == ApplicantErrs \/ ~ EmployerHolds(p)
SaysFound(p)    == ApplicantErrs \/ EmployerHolds(p)

\* POST /submission/unverified about the row's own record: the claim's attempt,
\* while its outcome is unknown.
AsksAboutClaim(p) ==
  /\ row[p].unv = "open" /\ row[p].claim # None
  /\ BlockedUnverified(ledger[row[p].claim])

\* found false: refused while the authorization is active; the appended proof
\* must settle the attempt or nothing is written.
AnswerNotThere(p) ==
  LET a == row[p].claim
      checked == NotSent("applicant_checked_not_sent")
  IN /\ AsksAboutClaim(p) /\ SaysNotThere(p)
     /\ \/ Has(ledger[a], "boundary_authorized")
        \/ NeverReachedEmployer(ledger[a])
     /\ ~ LeaseActive(a)
     /\ RetrySafety(Append(ledger[a], checked)) = "safe_not_sent"
     /\ AppendFact(a, checked)
     /\ row' = [row EXCEPT ![p] = ReleaseTo(@, "not_sent")]
     /\ UNCHANGED <<now, runs, queued, attempt, worker, provider, filed,
                    request, crashes>>

\* found true
AnswerFound(p) ==
  /\ AsksAboutClaim(p) /\ SaysFound(p)
  /\ AppendFact(row[p].claim, Confirmed)
  /\ row' = [row EXCEPT ![p] = MarkSubmitted(@, "sent")]
  /\ UNCHANGED <<now, runs, queued, attempt, worker, provider, filed, request,
                 crashes>>

\* readPacketAttempts: an attempt that may have pressed, outcome unknown.
MayHavePressed(a) ==
  RetrySafety(ledger[a]) \in {"boundary_authorized", "pressed", "invalid_sequence"}

\* The same route when the row carries no record but the packet's ledger holds a
\* press without an outcome (ledgerUnverifiedPressRecord), and no lease is active.
AsksAboutPacket(p) ==
  /\ row[p].unv = "none" /\ row[p].status = "needs_attention"
  /\ ~ row[p].receipt
  /\ ~ PacketConfirmed(p)
  /\ \E a \in AttemptsOf(p) : MayHavePressed(a)
  /\ \A a \in AttemptsOf(p) : MayHavePressed(a) => ~ LeaseActive(a)

\* found false closes every attempt without an outcome.  The fact's event id is
\* one per attempt: an attempt the applicant already closed refuses the answer.
AnswerPacketNotThere(p) ==
  LET closing == {a \in AttemptsOf(p) : \/ MayHavePressed(a)
                                        \/ NeverReachedEmployer(ledger[a])}
      checked == NotSent("applicant_checked_not_sent")
  IN /\ AsksAboutPacket(p) /\ SaysNotThere(p)
     /\ \A a \in closing : \A i \in DOMAIN ledger[a] : ledger[a][i] # checked
     /\ ledger' = [a \in Attempts |-> IF a \in closing
                                        THEN Append(ledger[a], checked)
                                        ELSE ledger[a]]
     /\ row' = [row EXCEPT ![p] = ReleaseTo(@, "not_sent")]
     /\ UNCHANGED <<now, runs, queued, attempt, worker, provider, filed,
                    request, crashes>>

\* found true confirms the one attempt that may have pressed.
AnswerPacketFound(p) ==
  /\ AsksAboutPacket(p) /\ SaysFound(p)
  /\ \E a \in AttemptsOf(p) :
       /\ {b \in AttemptsOf(p) : MayHavePressed(b)} = {a}
       /\ AppendFact(a, Confirmed)
  /\ row' = [row EXCEPT ![p] = MarkSubmitted(@, "sent")]
  /\ UNCHANGED <<now, runs, queued, attempt, worker, provider, filed, request,
                 crashes>>

-----------------------------------------------------------------------------
(* Repairs a read of the packet runs *)

\* repairExpiredAttendedHandoffClaim, for an attempt that never reached the
\* employer: the claim is released and the attempt closed together.
RepairOnLoad(p) ==
  LET a == row[p].claim
  IN /\ a # None /\ row[p].status = "needs_attention"
     /\ ~ row[p].receipt /\ row[p].unv \in {"none", "open"}
     /\ NeverReachedEmployer(ledger[a])
     /\ AppendFact(a, NotSent("typed_pre_click_stop"))
     /\ row' = [row EXCEPT ![p] = ReleaseTo(@, "none")]
     /\ UNCHANGED <<now, runs, queued, attempt, worker, provider, filed,
                    request, crashes>>

\* repairParkedConfirmedProjection: a parked receipt's projection is committed
\* again.  The row is read before the commit, whose writes ask only the ledger;
\* nothing unparks such a row in between, so the two are one step.
RepairParked(p) ==
  LET a == row[p].claim
  IN /\ row[p].status = "needs_attention" /\ row[p].receipt /\ a # None
     /\ row[p].unv \notin {"sent", "not_sent"}
     /\ \A kind \in {"boundary_authorized", "press_observed",
                      "submission_confirmed"} : Has(ledger[a], kind)
     /\ row' = [row EXCEPT ![p] = MarkSubmitted(@, "sent")]
     /\ UNCHANGED <<now, runs, queued, ledger, attempt, worker, provider, filed,
                    request, crashes>>

\* closeAbandonedPreBoundaryAttempts, for one candidate.
CloseAbandoned(a) ==
  LET p == attempt[a].packet
  IN /\ p # None
     /\ NeverReachedEmployer(ledger[a])
     /\ row[p].claim # a
     /\ ~ row[p].receipt /\ row[p].unv = "none"
     /\ row[p].status \notin {"submitting", "submitted"}
     /\ attempt[a].openedAt + AbandonAfter < now
     /\ AppendFact(a, NotSent("typed_pre_click_stop"))
     /\ UNCHANGED <<now, row, runs, queued, attempt, worker, provider, filed,
                    request, crashes>>

-----------------------------------------------------------------------------

ApplicantNext ==
  \/ \E r \in Requests :
       \/ \E p \in Packets : \E kind \in {"submit", "approve"} :
            RequestRead(r, p, kind)
       \/ RequestVerdict(r) \/ RequestRefused(r) \/ SubmitRequest(r) \/ Approve(r)
  \/ \E p \in Packets :
       \/ AnswerNotThere(p) \/ AnswerFound(p)
       \/ AnswerPacketNotThere(p) \/ AnswerPacketFound(p)
       \/ RepairOnLoad(p) \/ RepairParked(p)
  \/ \E a \in Attempts : CloseAbandoned(a)
=============================================================================
