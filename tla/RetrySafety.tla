----------------------------- MODULE RetrySafety -----------------------------
(***************************************************************************)
(* The fold of src/src/lib/submissionAttemptLedger.ts: the immutable facts *)
(* of one employer attempt, read as the single answer a retry gate needs.  *)
(*                                                                         *)
(* The facts of an attempt are a sequence in (created_at, id) order.  Two  *)
(* facts of one attempt are always written by two transactions, so their   *)
(* position stands for created_at.  Identity, evidence and binding columns *)
(* are left out: every fact of a sequence is one attempt's, under one      *)
(* binding, with a kind and a proof of the vocabulary.                     *)
(***************************************************************************)
EXTENDS Naturals, Sequences

EventKinds == {"attempt_opened", "boundary_authorized", "press_observed",
               "not_sent_proven", "submission_confirmed"}

\* Proofs a press contradicts.
PreClickOnlyProofs ==
  {"typed_pre_click_stop", "extension_cancelled_before_press",
   "run_progress_proven_not_pressed", "plan_position_proven_not_pressed"}

\* Mutant: a runner's own stop closes an authorized attempt.
AdmissibleWithTypedStop ==
  {"applicant_checked_not_sent",
   "applicant_checked_all_possible_destinations_not_sent",
   "employer_rejected_not_filed", "typed_pre_click_stop",
   "run_progress_proven_not_pressed", "plan_position_proven_not_pressed"}

\* Proofs that may close an attempt although its employer boundary was authorized.
AuthorizationAdmissibleProofs ==
  {"applicant_checked_not_sent",
   "applicant_checked_all_possible_destinations_not_sent",
   "employer_rejected_not_filed",
   "run_progress_proven_not_pressed", "plan_position_proven_not_pressed"}

NotSentProofs ==
  PreClickOnlyProofs \cup AuthorizationAdmissibleProofs \cup
  {"employer_verification_pending_not_filed", "provider_definitive_rejection"}

NoProof == "no_proof"

\* A fact: only not_sent_proven carries a proof.
Fact == [kind : EventKinds, proof : NotSentProofs \cup {NoProof}]

Opened     == [kind |-> "attempt_opened",       proof |-> NoProof]
Authorized == [kind |-> "boundary_authorized",  proof |-> NoProof]
Pressed    == [kind |-> "press_observed",       proof |-> NoProof]
Confirmed  == [kind |-> "submission_confirmed", proof |-> NoProof]

\* Mutant: a kind outside the vocabulary.
NotSentUnderProofsName(proof) == [kind |-> proof, proof |-> proof]

NotSent(proof) == [kind |-> "not_sent_proven",  proof |-> proof]

Has(events, kind) == \E i \in DOMAIN events : events[i].kind = kind

AtMostOne(events, kind) ==
  \A i, j \in DOMAIN events :
    events[i].kind = kind /\ events[j].kind = kind => i = j

\* i is the resolution: a not-sent proof, the latest of them.
IsResolution(events, i) ==
  /\ events[i].kind = "not_sent_proven"
  /\ \A j \in DOMAIN events : events[j].kind = "not_sent_proven" => j <= i

Risk == {"attempt_opened", "boundary_authorized", "press_observed"}

\* A resolution the rest of the attempt's facts contradict.
Contradicted(events, i) ==
  \/ Has(events, "press_observed") /\ events[i].proof \in PreClickOnlyProofs
  \/ Has(events, "boundary_authorized")
       /\ events[i].proof \notin AuthorizationAdmissibleProofs
  \/ \E j \in DOMAIN events : events[j].kind \in Risk /\ j > i

InvalidSequence(events) ==
  \/ ~ Has(events, "attempt_opened")
  \/ ~ AtMostOne(events, "attempt_opened")
  \/ ~ AtMostOne(events, "boundary_authorized")
  \/ ~ AtMostOne(events, "not_sent_proven")
  \/ \E i, j \in DOMAIN events :
       /\ events[i].kind \in {"boundary_authorized", "press_observed"}
       /\ events[j].kind = "attempt_opened"
       /\ i < j
  \/ \E i \in DOMAIN events :
       IsResolution(events, i) /\ Contradicted(events, i)

\* submissionAttemptRetrySafety: its kind, or the reason of blocked_unverified.
RetrySafety(events) ==
  IF events = << >> THEN "no_evidence"
  ELSE IF Has(events, "submission_confirmed") THEN "blocked_confirmed"
  ELSE IF InvalidSequence(events) THEN "invalid_sequence"
  ELSE IF Has(events, "not_sent_proven") THEN "safe_not_sent"
  ELSE IF Has(events, "press_observed") THEN "pressed"
  ELSE IF Has(events, "boundary_authorized") THEN "boundary_authorized"
  ELSE "opened"

\* Mutant: an authorization without an observed press does not block.
BlockingOncePressed(events) ==
  RetrySafety(events) \in {"blocked_confirmed", "pressed", "invalid_sequence"}

\* What the duplicate gate refuses on.
Blocking(events) == RetrySafety(events) \notin {"no_evidence", "safe_not_sent"}

BlockedUnverified(events) ==
  RetrySafety(events) \in {"invalid_sequence", "pressed", "boundary_authorized",
                           "opened"}

\* Mutant: an attempt already closed is closed again.
NeverReachedEmployerOrClosed(events) ==
  /\ Has(events, "attempt_opened")
  /\ AtMostOne(events, "attempt_opened")
  /\ ~ Has(events, "boundary_authorized")
  /\ ~ Has(events, "press_observed")
  /\ ~ Has(events, "submission_confirmed")

\* attemptNeverReachedEmployer
NeverReachedEmployer(events) ==
  /\ Has(events, "attempt_opened")
  /\ AtMostOne(events, "attempt_opened")
  /\ ~ Has(events, "boundary_authorized")
  /\ ~ Has(events, "press_observed")
  /\ ~ Has(events, "submission_confirmed")
  /\ ~ Has(events, "not_sent_proven")

=============================================================================
