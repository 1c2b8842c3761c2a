---------------------------- MODULE EmployerEvidence ----------------------------
(***************************************************************************)
(* Confirmations that come neither from the runner's process nor from the  *)
(* applicant: an employer's mail at the packet's alias                     *)
(* (src/src/lib/applicationEmail.ts), by the inbound webhook or replayed   *)
(* by the reconciler, and the verification sweep's reading of the submit   *)
(* response kept on the row (src/src/lib/submissionVerificationSweep.ts).  *)
(* Both may come at any moment after the press: while the process that     *)
(* pressed still waits for its answer, or long after it died.              *)
(***************************************************************************)
EXTENDS SubmissionState

\* The employer holds an application of this packet, and wrote to its alias.
EmployerWrote(p) == \E a \in AttemptsOf(p) : filed[a]

\* commitPacketConfirmationAtomically, in one transaction under the ledger key: the mail
\* counts for the claim the row carries, if it was received after that attempt's
\* authorization.  The row's record of the unknown outcome, if any, stays as it is.
MailConfirms(p) ==
  LET a == row[p].claim
  IN /\ row[p].status # "submitted" /\ a # None
     /\ EmployerWrote(p)
     /\ Has(ledger[a], "boundary_authorized")
     /\ ~ Has(ledger[a], "submission_confirmed")
     /\ AppendFact(a, Confirmed)
     /\ row' = [row EXCEPT ![p] = MarkSubmitted(@, @.unv)]
     /\ UNCHANGED <<now, runs, queued, attempt, worker, provider, filed, request,
                    crashes>>

\* applyStoredEvidence: the response the employer's server gave to the press is on the
\* row's record of the unknown outcome.
StoredResponseConfirms(p) ==
  LET a == row[p].claim
  IN /\ row[p].status = "needs_attention" /\ row[p].unv = "open" /\ a # None
     /\ filed[a] /\ BlockedUnverified(ledger[a])
     /\ AppendFact(a, Confirmed)
     /\ row' = [row EXCEPT ![p] = MarkSubmitted(@, "sent")]
     /\ UNCHANGED <<now, runs, queued, attempt, worker, provider, filed, request,
                    crashes>>

EvidenceNext ==
  \E p \in Packets : MailConfirms(p) \/ StoredResponseConfirms(p)
=============================================================================
