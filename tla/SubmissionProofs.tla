--------------------------- MODULE SubmissionProofs ---------------------------
(***************************************************************************)
(* Type correctness of Submission, what its claims, processes, calls and   *)
(* facts are bound to (BindingInv), and what its rows show (RowsInv), for  *)
(* every value of the constants.  It begins with what appending a fact to  *)
(* an attempt does to the fold.                                            *)
(***************************************************************************)
EXTENDS Submission, TLAPS

-----------------------------------------------------------------------------
(* The fold *)

\* The facts the code writes are of the vocabulary.
LEMMA FactTypes ==
  /\ Opened \in Fact /\ Authorized \in Fact /\ Pressed \in Fact
  /\ Confirmed \in Fact
  /\ \A proof \in NotSentProofs : NotSent(proof) \in Fact
  /\ \A proof \in {"typed_pre_click_stop", "applicant_checked_not_sent",
                   "employer_rejected_not_filed"} :
       proof \in NotSentProofs
  /\ \A cause, authorized : ReleasedClaimProof(cause, authorized) \in NotSentProofs
BY DEF Opened, Authorized, Pressed, Confirmed, NotSent, Fact, EventKinds,
       NotSentProofs, PreClickOnlyProofs, AuthorizationAdmissibleProofs,
       ReleasedClaimProof

\* A fact that is appended is the last one, and the others keep their place.
LEMMA AppendedFacts ==
  ASSUME NEW events \in Seq(Fact), NEW fact \in Fact
  PROVE  /\ Append(events, fact) \in Seq(Fact)
         /\ Append(events, fact) # << >>
         /\ Len(Append(events, fact)) = Len(events) + 1
         /\ DOMAIN Append(events, fact) = 1..(Len(events) + 1)
         /\ DOMAIN events = 1..Len(events)
         /\ \A i \in 1..Len(events) : Append(events, fact)[i] = events[i]
         /\ Append(events, fact)[Len(events) + 1] = fact
OBVIOUS

\* The kinds on record only grow.
LEMMA HasAppended ==
  ASSUME NEW events \in Seq(Fact), NEW fact \in Fact, NEW kind
  PROVE  Has(Append(events, fact), kind) <=> Has(events, kind) \/ fact.kind = kind
<1> DEFINE longer == Append(events, fact)
<1>1. /\ DOMAIN longer = 1..(Len(events) + 1) /\ DOMAIN events = 1..Len(events)
      /\ \A i \in 1..Len(events) : longer[i] = events[i]
      /\ longer[Len(events) + 1] = fact
      /\ Len(events) \in Nat
  BY AppendedFacts
<1>2. ASSUME Has(longer, kind) PROVE Has(events, kind) \/ fact.kind = kind
  <2>1. PICK i \in DOMAIN longer : longer[i].kind = kind
    BY <1>2 DEF Has
  <2>2. CASE i = Len(events) + 1
    BY <2>1, <2>2, <1>1
  <2>3. CASE i \in 1..Len(events)
    BY <2>1, <2>3, <1>1 DEF Has
  <2> QED
    BY <2>2, <2>3, <2>1, <1>1
<1>3. ASSUME Has(events, kind) PROVE Has(longer, kind)
  <2>1. PICK i \in DOMAIN events : events[i].kind = kind
    BY <1>3 DEF Has
  <2>2. i \in DOMAIN longer /\ longer[i] = events[i]
    BY <2>1, <1>1
  <2> QED
    BY <2>1, <2>2 DEF Has
<1>4. ASSUME fact.kind = kind PROVE Has(longer, kind)
  <2>1. Len(events) + 1 \in DOMAIN longer
    BY <1>1
  <2> QED
    BY <2>1, <1>1, <1>4 DEF Has
<1> QED
  BY <1>2, <1>3, <1>4

\* A kind that was written twice stays written twice.
LEMMA TwiceStaysTwice ==
  ASSUME NEW events \in Seq(Fact), NEW fact \in Fact, NEW kind,
         ~ AtMostOne(events, kind)
  PROVE  ~ AtMostOne(Append(events, fact), kind)
<1> DEFINE longer == Append(events, fact)
<1>1. /\ DOMAIN longer = 1..(Len(events) + 1) /\ DOMAIN events = 1..Len(events)
      /\ \A i \in 1..Len(events) : longer[i] = events[i]
      /\ Len(events) \in Nat
  BY AppendedFacts
<1>2. PICK i \in DOMAIN events, j \in DOMAIN events :
        events[i].kind = kind /\ events[j].kind = kind /\ i # j
  BY DEF AtMostOne
<1>3. i \in DOMAIN longer /\ j \in DOMAIN longer
      /\ longer[i] = events[i] /\ longer[j] = events[j]
  BY <1>1
<1> QED
  BY <1>2, <1>3 DEF AtMostOne

\* Once a not-sent proof is on record and nothing was written twice, it is the
\* resolution.
LEMMA SoleResolution ==
  ASSUME NEW events \in Seq(Fact), Has(events, "not_sent_proven"),
         AtMostOne(events, "not_sent_proven")
  PROVE  \E i \in DOMAIN events : IsResolution(events, i)
<1>1. PICK i \in DOMAIN events : events[i].kind = "not_sent_proven"
  BY DEF Has
<1>2. \A j \in DOMAIN events : events[j].kind = "not_sent_proven" => j <= i
  <2>1. \A j \in DOMAIN events : events[j].kind = "not_sent_proven" => j = i
    BY <1>1 DEF AtMostOne
  <2>2. DOMAIN events = 1..Len(events) /\ Len(events) \in Nat
    OBVIOUS
  <2>3. i <= i
    BY <1>1, <2>2
  <2> QED
    BY <2>1, <2>3
<1> QED
  BY <1>1, <1>2 DEF IsResolution

\* A closed sequence the fold rejects is not mended by a fact that is no resolution.
LEMMA InvalidStaysInvalid ==
  ASSUME NEW events \in Seq(Fact), NEW fact \in Fact,
         fact.kind # "not_sent_proven", InvalidSequence(events),
         Has(events, "not_sent_proven")
  PROVE  InvalidSequence(Append(events, fact))
<1> DEFINE longer == Append(events, fact)
           n == Len(events)
<1>1. /\ DOMAIN longer = 1..(n + 1) /\ DOMAIN events = 1..n
      /\ \A i \in 1..n : longer[i] = events[i]
      /\ longer[n + 1] = fact
      /\ n \in Nat
  BY AppendedFacts
<1>2. \A i \in DOMAIN events : i \in DOMAIN longer /\ longer[i] = events[i]
  BY <1>1
<1>3. \A kind : Has(events, kind) => Has(longer, kind)
  BY HasAppended
<1>4. ASSUME NEW i \in DOMAIN events, IsResolution(events, i)
      PROVE  IsResolution(longer, i)
  <2>1. longer[i].kind = "not_sent_proven"
    BY <1>2, <1>4 DEF IsResolution
  <2>2. ASSUME NEW j \in DOMAIN longer, longer[j].kind = "not_sent_proven"
        PROVE  j <= i
    <3>1. j # n + 1
      BY <2>2, <1>1
    <3>2. j \in DOMAIN events
      BY <3>1, <1>1
    <3> QED
      BY <3>2, <2>2, <1>2, <1>4 DEF IsResolution
  <2> QED
    BY <2>1, <2>2 DEF IsResolution
<1>5. ASSUME NEW kind \in {"attempt_opened", "boundary_authorized", "not_sent_proven"},
             ~ AtMostOne(events, kind)
      PROVE  InvalidSequence(longer)
  BY <1>5, TwiceStaysTwice DEF InvalidSequence
<1>6. ASSUME AtMostOne(events, "not_sent_proven"), ~ Has(events, "attempt_opened")
      PROVE  InvalidSequence(longer)
  <2>1. CASE Has(longer, "attempt_opened")
    <3>1. fact.kind = "attempt_opened"
      BY <1>6, <2>1, HasAppended
    <3>2. PICK i \in DOMAIN events : IsResolution(events, i)
      BY <1>6, SoleResolution
    <3>3. n + 1 \in DOMAIN longer /\ n + 1 > i /\ longer[n + 1].kind \in Risk
      BY <3>1, <1>1 DEF Risk
    <3>4. Contradicted(longer, i)
      BY <3>3 DEF Contradicted
    <3> QED
      BY <3>4, <3>2, <1>4, <1>2 DEF InvalidSequence
  <2> QED
    BY <2>1 DEF InvalidSequence
<1>7. ASSUME NEW i \in DOMAIN events, NEW j \in DOMAIN events,
             events[i].kind \in {"boundary_authorized", "press_observed"},
             events[j].kind = "attempt_opened", i < j
      PROVE  InvalidSequence(longer)
  BY <1>7, <1>2 DEF InvalidSequence
<1>8. ASSUME NEW i \in DOMAIN events, IsResolution(events, i), Contradicted(events, i)
      PROVE  InvalidSequence(longer)
  <2>1. Contradicted(longer, i)
    BY <1>8, <1>2, <1>3 DEF Contradicted
  <2> QED
    BY <2>1, <1>8, <1>4, <1>2 DEF InvalidSequence
<1> QED
  BY <1>5, <1>6, <1>7, <1>8 DEF InvalidSequence

\* What blocks a second send: a confirmation, or facts that no not-sent proof
\* settles, or that contradict each other.
LEMMA BlockingMeans ==
  ASSUME NEW events
  PROVE  Blocking(events) <=>
           /\ events # << >>
           /\ \/ Has(events, "submission_confirmed")
              \/ InvalidSequence(events)
              \/ ~ Has(events, "not_sent_proven")
BY DEF Blocking, RetrySafety

\* Only a not-sent proof can open the duplicate gate: every other fact leaves an
\* attempt that blocked blocking.
LEMMA BlockingSurvives ==
  ASSUME NEW events \in Seq(Fact), NEW fact \in Fact,
         fact.kind # "not_sent_proven", Blocking(events)
  PROVE  Blocking(Append(events, fact))
<1> DEFINE longer == Append(events, fact)
<1>1. longer # << >>
  BY AppendedFacts
<1>2. CASE Has(events, "submission_confirmed")
  BY <1>1, <1>2, HasAppended, BlockingMeans
<1>3. CASE ~ Has(events, "not_sent_proven")
  BY <1>1, <1>3, HasAppended, BlockingMeans
<1>4. CASE InvalidSequence(events) /\ Has(events, "not_sent_proven")
  BY <1>1, <1>4, InvalidStaysInvalid, BlockingMeans
<1> QED
  BY <1>2, <1>3, <1>4, BlockingMeans

\* A confirmation blocks for good.
LEMMA ConfirmedBlocks ==
  ASSUME NEW events \in Seq(Fact), Has(events, "submission_confirmed")
  PROVE  Blocking(events)
<1>1. events # << >>
  BY DEF Has
<1> QED
  BY <1>1, BlockingMeans

\* A stop the runner types itself never closes an attempt whose boundary was
\* authorized (AUTHORIZATION_ADMISSIBLE_PROOF_KINDS).
LEMMA TypedStopBlocks ==
  ASSUME NEW events \in Seq(Fact), Has(events, "boundary_authorized")
  PROVE  Blocking(Append(events, NotSent("typed_pre_click_stop")))
<1> DEFINE fact == NotSent("typed_pre_click_stop")
           longer == Append(events, fact)
           n == Len(events)
<1>0. fact \in Fact /\ fact.kind = "not_sent_proven"
      /\ fact.proof = "typed_pre_click_stop"
  BY FactTypes DEF NotSent
<1>1. /\ DOMAIN longer = 1..(n + 1) /\ longer[n + 1] = fact /\ n \in Nat
      /\ longer # << >>
  BY <1>0, AppendedFacts
<1>2. Has(longer, "boundary_authorized")
  BY <1>0, HasAppended
<1>3. n + 1 \in DOMAIN longer /\ IsResolution(longer, n + 1)
  BY <1>0, <1>1 DEF IsResolution
<1>4. Contradicted(longer, n + 1)
  <2>1. longer[n + 1].proof \notin AuthorizationAdmissibleProofs
    BY <1>0, <1>1 DEF AuthorizationAdmissibleProofs
  <2> QED
    BY <2>1, <1>2 DEF Contradicted
<1>5. InvalidSequence(longer)
  BY <1>3, <1>4 DEF InvalidSequence
<1> QED
  BY <1>1, <1>5, BlockingMeans

-----------------------------------------------------------------------------
(* Types *)

\* The reviews the code writes over a review are reviews.
LEMMA ReviewTypes ==
  ASSUME NEW review \in Review
  PROVE  /\ \A s \in Statuses : [review EXCEPT !.status = s] \in Review
         /\ \A s \in Statuses :
              [review EXCEPT !.status = s, !.claim = None] \in Review
         /\ \A a \in Attempts : [review EXCEPT !.claim = a] \in Review
         /\ \A s \in Statuses : PreClickRelease(review, s) \in Review
         /\ MarkUnverified(review) \in Review
         /\ \A u \in Unverified : /\ ReleaseTo(review, u) \in Review
                                  /\ MarkSubmitted(review, u) \in Review
         /\ [review EXCEPT !.status = "needs_attention", !.unv = "open",
                           !.receipt = TRUE] \in Review
BY DEF Review, Statuses, Unverified, PreClickRelease, MarkUnverified, ReleaseTo,
       MarkSubmitted

LEMMA FreshReviewType ==
  ASSUME NEW s \in {"ready_to_submit", "ready_for_final_approval", "submitting"}
  PROVE  FreshReview(s) \in Review /\ FreshReview(s).run \in 0..MaxRuns
BY BoundsAssumption DEF FreshReview, Review, Statuses, Unverified

LEMMA IdleTypes == IdleProcess \in Process /\ IdleCall \in Call
<1>1. AnyPacket \in Packets
  BY PacketsAssumption DEF AnyPacket
<1> QED
  BY <1>1, FreshReviewType DEF IdleProcess, IdleCall, Process, Call, Steps, Causes

\* The failure review of a claimed or unclaimed row is a review.
LEMMA FailureReviewType ==
  ASSUME NEW review \in Review, NEW cause \in Causes, NEW neverReached \in BOOLEAN
  PROVE  FailureReview(review, cause, neverReached) \in Review
BY DEF FailureReview, PreClickRelease, Review, Statuses, Unverified

\* Moving a process, with the review it now holds or the error it caught.
LEMMA WorkerTypes ==
  ASSUME worker \in [Workers -> Process], NEW w \in Workers
  PROVE  /\ \A s \in Steps : Goto(w, s) => worker' \in [Workers -> Process]
         /\ \A s \in Steps, review \in Review :
              GotoWith(w, s, review) => worker' \in [Workers -> Process]
         /\ \A c \in Causes : Throw(w, c) => worker' \in [Workers -> Process]
         /\ Finish(w) => worker' \in [Workers -> Process]
<1>1. ASSUME NEW s \in Steps, Goto(w, s) PROVE worker' \in [Workers -> Process]
  <2>1. [worker[w] EXCEPT !.pc = s] \in Process
    BY DEF Process
  <2> QED
    BY <1>1, <2>1 DEF Goto
<1>2. ASSUME NEW s \in Steps, NEW review \in Review, GotoWith(w, s, review)
      PROVE  worker' \in [Workers -> Process]
  <2>1. [[worker[w] EXCEPT !.pc = s] EXCEPT !.snap = review] \in Process
    BY DEF Process
  <2>2. worker' = [worker EXCEPT ![w] =
                     [[worker[w] EXCEPT !.pc = s] EXCEPT !.snap = review]]
    BY <1>2 DEF GotoWith
  <2> QED
    BY <2>1, <2>2
<1>3. ASSUME NEW c \in Causes, Throw(w, c) PROVE worker' \in [Workers -> Process]
  <2>1. [[worker[w] EXCEPT !.pc = "failing"] EXCEPT !.cause = c] \in Process
    BY DEF Process, Steps
  <2>2. worker' = [worker EXCEPT ![w] =
                     [[worker[w] EXCEPT !.pc = "failing"] EXCEPT !.cause = c]]
    BY <1>3 DEF Throw
  <2> QED
    BY <2>1, <2>2
<1>4. ASSUME Finish(w) PROVE worker' \in [Workers -> Process]
  BY <1>4, IdleTypes DEF Finish
<1> QED
  BY <1>1, <1>2, <1>3, <1>4

\* Recording a fact.
LEMMA LedgerTypes ==
  ASSUME ledger \in [Attempts -> Seq(Fact)], NEW a
  PROVE  /\ \A fact \in Fact :
              AppendFact(a, fact) => ledger' \in [Attempts -> Seq(Fact)]
         /\ \A reported \in BOOLEAN :
              AppendPressOnce(a, reported) => ledger' \in [Attempts -> Seq(Fact)]
         /\ AppendConfirmationOnce(a) => ledger' \in [Attempts -> Seq(Fact)]
<1>1. ASSUME NEW fact \in Fact, AppendFact(a, fact)
      PROVE  ledger' \in [Attempts -> Seq(Fact)]
  <2>1. \A b \in Attempts : Append(ledger[b], fact) \in Seq(Fact)
    BY AppendedFacts
  <2> QED
    BY <1>1, <2>1 DEF AppendFact
<1> QED
  BY <1>1, FactTypes DEF AppendPressOnce, AppendConfirmationOnce

LEMMA InitTypeOK == Init => TypeOK
<1> SUFFICES ASSUME Init PROVE TypeOK
  OBVIOUS
<1>1. row \in [Packets -> Review] /\ \A p \in Packets : row[p].run \in 0..MaxRuns
  BY FreshReviewType, StatusAssumption DEF Init
<1> QED
  BY <1>1, IdleTypes, BoundsAssumption
     DEF Init, TypeOK, Binding, ProviderRun

\* What an applicant's call or answer, or a repair, leaves well typed.
LEMMA ApplicantTypeOK == TypeOK /\ ApplicantNext => TypeOK'
<1> SUFFICES ASSUME TypeOK, ApplicantNext PROVE TypeOK'
  OBVIOUS
<1> USE DEF TypeOK
<1>1. ASSUME NEW r \in Requests, NEW p \in Packets, NEW kind \in {"submit", "approve"},
             RequestRead(r, p, kind)
      PROVE  TypeOK'
  BY <1>1 DEF RequestRead, Call
<1>2. ASSUME NEW r \in Requests, RequestVerdict(r)
      PROVE  TypeOK'
  BY <1>2 DEF RequestVerdict, Call
<1>3. ASSUME NEW r \in Requests, RequestRefused(r)
      PROVE  TypeOK'
  <2>1. [request[r].current EXCEPT !.status = "needs_attention"] \in Review
    BY ReviewTypes DEF Call, Statuses
  <2> QED
    BY <1>3, <2>1, IdleTypes DEF RequestRefused
<1>4. ASSUME NEW r \in Requests, SubmitRequest(r)
      PROVE  TypeOK'
  <2>1. request[r].packet \in Packets
    BY DEF Call
  <2>2. runs[request[r].packet] + 1 \in 0..MaxRuns
    BY <1>4, <2>1, BoundsAssumption DEF SubmitRequest
  <2>3. [status |-> "submit_requested", run |-> runs[request[r].packet] + 1,
         claim |-> None, unv |-> "none", receipt |-> FALSE] \in Review
    BY <2>2 DEF Review, Statuses, Unverified
  <2> QED
    BY <1>4, <2>1, <2>2, <2>3, IdleTypes DEF SubmitRequest
<1>5. ASSUME NEW r \in Requests, Approve(r)
      PROVE  TypeOK'
  <2>1. [request[r].current EXCEPT !.status = "submitting", !.claim = None] \in Review
    BY ReviewTypes DEF Call, Statuses
  <2> QED
    BY <1>5, <2>1, IdleTypes DEF Approve
<1>6. ASSUME NEW p \in Packets, AnswerNotThere(p)
      PROVE  TypeOK'
  BY <1>6, ReviewTypes, LedgerTypes, FactTypes DEF AnswerNotThere, Unverified
<1>7. ASSUME NEW p \in Packets, AnswerFound(p)
      PROVE  TypeOK'
  BY <1>7, ReviewTypes, LedgerTypes, FactTypes DEF AnswerFound, Unverified
<1>8. ASSUME NEW p \in Packets, AnswerPacketNotThere(p)
      PROVE  TypeOK'
  <2>1. \A a \in Attempts :
          Append(ledger[a], NotSent("applicant_checked_not_sent")) \in Seq(Fact)
    BY FactTypes, AppendedFacts
  <2> QED
    BY <1>8, <2>1, ReviewTypes DEF AnswerPacketNotThere, Unverified
<1>9. ASSUME NEW p \in Packets, AnswerPacketFound(p)
      PROVE  TypeOK'
  BY <1>9, ReviewTypes, LedgerTypes, FactTypes DEF AnswerPacketFound, Unverified
<1>10. ASSUME NEW p \in Packets, RepairOnLoad(p)
       PROVE  TypeOK'
  BY <1>10, ReviewTypes, LedgerTypes, FactTypes DEF RepairOnLoad, Unverified
<1>11. ASSUME NEW p \in Packets, RepairParked(p)
       PROVE  TypeOK'
  BY <1>11, ReviewTypes DEF RepairParked, Unverified
<1>12. ASSUME NEW a \in Attempts, CloseAbandoned(a)
       PROVE  TypeOK'
  BY <1>12, LedgerTypes, FactTypes DEF CloseAbandoned
<1> QED
  BY <1>1, <1>2, <1>3, <1>4, <1>5, <1>6, <1>7, <1>8, <1>9, <1>10, <1>11, <1>12
     DEF ApplicantNext

\* What a confirmation by mail or by a stored response leaves well typed.
LEMMA EvidenceTypeOK == TypeOK /\ EvidenceNext => TypeOK'
<1> SUFFICES ASSUME TypeOK, NEW p \in Packets,
                    MailConfirms(p) \/ StoredResponseConfirms(p)
             PROVE  TypeOK'
  BY DEF EvidenceNext
<1> USE DEF TypeOK
<1>1. row[p].unv \in Unverified
  BY DEF Review
<1>2. MarkSubmitted(row[p], row[p].unv) \in Review
  BY <1>1, ReviewTypes
<1>3. MarkSubmitted(row[p], "sent") \in Review
  BY ReviewTypes DEF Unverified
<1> QED
  BY <1>2, <1>3, LedgerTypes, FactTypes DEF MailConfirms, StoredResponseConfirms

\* A step that throws before the provider's answer is looked at.
EarlyThrow(w, c) ==
  \/ c \in {"pre_click_stop", "untyped"} /\ ThrowBeforeBoundary(w, c)
  \/ /\ c \in {"pre_click_stop", "untyped", "unconfigured", "run_progress_stop"}
     /\ PrepareThrows(w, c)
  \/ c \in ProvenStops /\ CallStopped(w, c)

LEMMA EarlyCauses ==
  ASSUME NEW w, NEW c, EarlyThrow(w, c)
  PROVE  c \in Causes /\ Throw(w, c)
BY DEF EarlyThrow, PrepareThrows, ThrowBeforeBoundary, CallStopped, Causes, ProvenStops

\* What a step of a process, or of the provider, leaves well typed.
LEMMA WorkerTypeOK ==
  ASSUME TypeOK, NEW w \in Workers, WorkerStep(w)
  PROVE  TypeOK'
<1> USE DEF TypeOK
<1> DEFINE p == worker[w].packet
           snap == worker[w].snap
           a == ClaimOf(w)
<1>0. /\ p \in Packets /\ snap \in Review /\ worker[w].cause \in Causes
      /\ row[p] \in Review
  BY DEF Process
<1>1. CASE ClaimPreparation(w)
  <2>1. [snap EXCEPT !.status = "preparing", !.claim = None] \in Review
    BY <1>0, ReviewTypes DEF Statuses
  <2> QED
    BY <1>1, <1>0, <2>1, WorkerTypes DEF ClaimPreparation, Steps
<1>2. CASE Reload(w)
  BY <1>2, <1>0, WorkerTypes DEF Reload, Steps
<1>3. ASSUME NEW s \in StopStatuses \cup {"submitting"}, PrepareParks(w, s)
      PROVE  TypeOK'
  <2>1. [snap EXCEPT !.status = s] \in Review
    BY <1>0, StopAssumption, ReviewTypes DEF Statuses
  <2> QED
    BY <1>3, <1>0, <2>1, WorkerTypes DEF PrepareParks, WriteReview, Steps
<1>4. ASSUME NEW s \in StopStatuses, HoldBeforeClaim(w, s) \/ StopBeforeBoundary(w, s)
      PROVE  TypeOK'
  <2>1. [snap EXCEPT !.status = s, !.claim = None] \in Review
    BY <1>0, StopAssumption, ReviewTypes DEF Statuses
  <2>2. CASE HoldBeforeClaim(w, s)
    BY <2>2, <1>0, <2>1, WorkerTypes DEF HoldBeforeClaim, WriteReview
  <2>3. CASE StopBeforeBoundary(w, s)
    BY <2>3, <1>0, <2>1, WorkerTypes, LedgerTypes, FactTypes DEF StopBeforeBoundary
  <2> QED
    BY <1>4, <2>2, <2>3
<1>5. ASSUME NEW c, EarlyThrow(w, c) PROVE TypeOK'
  <2>1. c \in Causes /\ Throw(w, c)
    BY <1>5, EarlyCauses
  <2> QED
    BY <1>5, <2>1, WorkerTypes
       DEF EarlyThrow, PrepareThrows, ThrowBeforeBoundary, CallStopped
<1>6. ASSUME NEW b \in Attempts, ClaimSubmission(w, b)
      PROVE  TypeOK'
  <2>1. [snap EXCEPT !.claim = b] \in Review
    BY <1>0, ReviewTypes
  <2>2. [packet |-> p, openedAt |-> now, lease |-> 0] \in Binding
    BY <1>0, BoundsAssumption DEF Binding
  <2> QED
    BY <1>6, <1>0, <2>1, <2>2, WorkerTypes, LedgerTypes, FactTypes
       DEF ClaimSubmission, Steps
<1>7. CASE ClaimLost(w)
  BY <1>7, WorkerTypes DEF ClaimLost
<1>8. CASE Authorize(w)
  <2>1. \A b \in Attempts : [attempt[b] EXCEPT !.lease = now + LeaseTTL] \in Binding
    <3>1. now + LeaseTTL \in Nat
      BY BoundsAssumption
    <3> QED
      BY <3>1 DEF Binding
  <2>2. attempt' \in [Attempts -> Binding]
    BY <1>8, <2>1 DEF Authorize
  <2> QED
    BY <1>8, <2>2, WorkerTypes, LedgerTypes, FactTypes DEF Authorize, Steps
<1>9. CASE AuthorizeRefused(w)
  BY <1>9, WorkerTypes DEF AuthorizeRefused, Causes
<1>10. CASE CallProvider(w)
  <2>1. \A b \in Attempts : [provider[b] EXCEPT !.phase = "running"] \in ProviderRun
    BY DEF ProviderRun
  <2> QED
    BY <1>10, <2>1, WorkerTypes DEF CallProvider, Steps
<1>11. CASE CallRefused(w)
  BY <1>11, WorkerTypes DEF CallRefused, Steps
<1>12. CASE RecoverPending(w)
  BY <1>12, WorkerTypes DEF RecoverPending
<1>13. ASSUME NEW reported \in BOOLEAN, CallLost(w, reported)
       PROVE  TypeOK'
  BY <1>13, WorkerTypes, LedgerTypes DEF CallLost, Steps
<1>14. ASSUME NEW reported \in BOOLEAN,
              NEW s \in {"confirming", "refusing", "unverifying"},
              ReceiveAnswer(w, s, reported) \/ RecoverResult(w, s, reported)
       PROVE  TypeOK'
  BY <1>14, WorkerTypes, LedgerTypes DEF ReceiveAnswer, RecoverResult, Steps
<1>15. ASSUME NEW accepted \in BOOLEAN, ClickFinalSubmit(w, accepted)
       PROVE  TypeOK'
  <2>1. \A b \in Attempts : [provider[b] EXCEPT !.pressed = TRUE] \in ProviderRun
    BY DEF ProviderRun
  <2> QED
    BY <1>15, <2>1, WorkerTypes DEF ClickFinalSubmit, Steps
<1>16. CASE NoSubmitControl(w)
  BY <1>16, WorkerTypes DEF NoSubmitControl, Causes
<1>17. CASE RecordPress(w)
  BY <1>17, WorkerTypes, LedgerTypes DEF RecordPress, Steps
<1>18. CASE ReadReceipt(w)
  BY <1>18, WorkerTypes DEF ReadReceipt, Steps
<1>19. CASE ThrowAfterBoundary(w)
  BY <1>19, WorkerTypes DEF ThrowAfterBoundary, Causes
<1>20. ASSUME NEW parked \in BOOLEAN, RecordConfirmed(w, parked)
       PROVE  TypeOK'
  <2>1. row' \in [Packets -> Review]
    BY <1>20, <1>0, ReviewTypes DEF RecordConfirmed, Unverified
  <2> QED
    BY <1>20, <2>1, WorkerTypes, LedgerTypes DEF RecordConfirmed
<1>21. CASE RecordRefused(w)
  BY <1>21, <1>0, ReviewTypes, WorkerTypes, LedgerTypes, FactTypes
     DEF RecordRefused, Unverified
<1>22. CASE RecordUnverified(w)
  BY <1>22, <1>0, ReviewTypes, WorkerTypes DEF RecordUnverified
<1>23. CASE RecordFailure(w)
  <2>1. FailureReview(row[p], worker[w].cause,
                      snap.claim # None /\ NeverCrossedBoundary(snap.claim)) \in Review
    BY <1>0, FailureReviewType
  <2> QED
    BY <1>23, <1>0, <2>1, ReviewTypes, WorkerTypes, LedgerTypes, FactTypes
       DEF RecordFailure
<1> QED
  BY <1>1, <1>2, <1>3, <1>4, <1>5, <1>6, <1>7, <1>8, <1>9, <1>10, <1>11, <1>12,
     <1>13, <1>14, <1>15, <1>16, <1>17, <1>18, <1>19, <1>20, <1>21, <1>22, <1>23
     DEF WorkerStep, EarlyThrow

LEMMA RunnerTypeOK == TypeOK /\ RunnerNext => TypeOK'
<1> SUFFICES ASSUME TypeOK, RunnerNext PROVE TypeOK'
  OBVIOUS
<1> USE DEF TypeOK
<1>1. ASSUME NEW p \in Packets, CronSelects(p)
      PROVE  TypeOK'
  BY <1>1 DEF CronSelects
<1>2. ASSUME NEW w \in Workers, NEW p \in Packets, LoadPacket(w, p)
      PROVE  TypeOK'
  <2>1. [pc |-> FirstStep(row[p]), packet |-> p, snap |-> row[p], cause |-> "none"]
          \in Process
    BY DEF Process, FirstStep, Steps, Causes
  <2> QED
    BY <1>2, <2>1 DEF LoadPacket
<1>3. ASSUME NEW w \in Workers, WorkerStep(w)
      PROVE  TypeOK'
  BY <1>3, WorkerTypeOK
<1>4. ASSUME NEW w \in Workers, WorkerCrash(w)
      PROVE  TypeOK'
  BY <1>4, WorkerTypes, BoundsAssumption DEF WorkerCrash
<1>5. ASSUME NEW a \in Attempts, NEW accepted \in BOOLEAN, ProviderPress(a, accepted)
      PROVE  TypeOK'
  BY <1>5 DEF ProviderPress, ProviderRun
<1>6. ASSUME NEW a \in Attempts, ProviderEnds(a)
      PROVE  TypeOK'
  BY <1>6 DEF ProviderEnds, ProviderRun
<1> QED
  BY <1>1, <1>2, <1>3, <1>4, <1>5, <1>6 DEF RunnerNext, ProviderStep

LEMMA NextTypeOK == TypeOK /\ [Next]_vars => TypeOK'
<1> SUFFICES ASSUME TypeOK, [Next]_vars PROVE TypeOK'
  OBVIOUS
<1>1. CASE Tick
  BY <1>1, BoundsAssumption DEF Tick, TypeOK
<1>2. CASE UNCHANGED vars
  BY <1>2 DEF vars, TypeOK
<1> QED
  BY <1>1, <1>2, ApplicantTypeOK, EvidenceTypeOK, RunnerTypeOK DEF Next

\* Every reachable state is well typed, whatever the packets, processes, calls and
\* bounds: the code never writes a fact, a review or a binding it could not read back.
THEOREM TypeCorrect == Spec => []TypeOK
<1>1. Init => TypeOK
  BY InitTypeOK
<1>2. TypeOK /\ [Next]_vars => TypeOK'
  BY NextTypeOK
<1> QED
  BY <1>1, <1>2, PTL DEF Spec

-----------------------------------------------------------------------------
(* What a step does to the ledger and to what its facts are bound to *)

\* Facts are only added, and an attempt keeps the packet it was opened for.
LedgerGrows ==
  \A a \in Attempts : \A kind \in EventKinds :
    Has(ledger[a], kind) => Has(ledger'[a], kind)

BindingsStay ==
  \A a \in Attempts :
    attempt[a].packet # None => attempt'[a].packet = attempt[a].packet

AttemptsBoundNext == \A a \in Attempts : AttemptBound(a)'

LEMMA KindsAreKinds ==
  /\ "boundary_authorized" \in EventKinds /\ "press_observed" \in EventKinds
  /\ "submission_confirmed" \in EventKinds
BY DEF EventKinds

-----------------------------------------------------------------------------
(* Frames *)

\* A step that touches neither the ledger nor what it is about.
LEMMA QuietStep ==
  ASSUME TypeOK, BindingInv, UNCHANGED <<ledger, attempt, provider, filed>>
  PROVE  LedgerGrows /\ BindingsStay /\ AttemptsBoundNext
BY DEF LedgerGrows, BindingsStay, AttemptsBoundNext, BindingInv, AttemptBound

\* A step that records at most one fact, of an attempt that is bound.
LEMMA RecordingStep ==
  ASSUME TypeOK, BindingInv, UNCHANGED <<attempt, provider, filed>>,
         NEW a \in Attempts, attempt[a].packet # None,
         NEW fact \in Fact, AppendFact(a, fact) \/ UNCHANGED ledger
  PROVE  LedgerGrows /\ BindingsStay /\ AttemptsBoundNext
<1>1. CASE UNCHANGED ledger
  BY <1>1, QuietStep
<1>2. CASE AppendFact(a, fact)
  <2>1. ledger' = [ledger EXCEPT ![a] = Append(ledger[a], fact)]
    BY <1>2 DEF AppendFact
  <2>2. ledger[a] \in Seq(Fact) /\ ledger'[a] = Append(ledger[a], fact)
        /\ \A b \in Attempts \ {a} : ledger'[b] = ledger[b]
    BY <2>1 DEF TypeOK
  <2>3. LedgerGrows
    <3> SUFFICES ASSUME NEW b \in Attempts, NEW kind \in EventKinds,
                        Has(ledger[b], kind)
                 PROVE  Has(ledger'[b], kind)
      BY DEF LedgerGrows
    <3>1. CASE b = a
      <4>1. Has(Append(ledger[a], fact), kind)
        BY <2>2, <3>1, HasAppended
      <4> QED
        BY <4>1, <2>2, <3>1
    <3>2. CASE b # a
      BY <2>2, <3>2
    <3> QED
      BY <3>1, <3>2
  <2>4. ASSUME NEW b \in Attempts PROVE AttemptBound(b)'
    <3>1. AttemptBound(b)
      BY DEF BindingInv
    <3>2. Has(ledger[b], "boundary_authorized") => Has(ledger'[b], "boundary_authorized")
      BY <2>3, KindsAreKinds DEF LedgerGrows
    <3>3. attempt[b].packet = None => ledger'[b] = ledger[b]
      BY <2>2
    <3> QED
      BY <3>1, <3>2, <3>3 DEF AttemptBound
  <2> QED
    BY <2>3, <2>4 DEF BindingsStay, AttemptsBoundNext
<1> QED
  BY <1>1, <1>2

\* Rows: one row is written, with the claim it had, none, or one that is bound to it.
LEMMA RowsStayBound ==
  ASSUME TypeOK, BindingInv, BindingsStay, NEW p \in Packets, NEW review,
         row' = [row EXCEPT ![p] = review] \/ UNCHANGED row,
         \/ review.claim = None
         \/ review.claim = row[p].claim
         \/ attempt'[review.claim].packet = p
  PROVE  \A q \in Packets : RowBound(q)'
<1> SUFFICES ASSUME NEW q \in Packets PROVE RowBound(q)'
  OBVIOUS
<1>1. \A o \in Packets : row[o].claim \in Attempts \cup {None}
  BY DEF TypeOK, Review
<1>2. row[q].claim # None => attempt'[row[q].claim].packet = q
  BY <1>1, NoneAssumption DEF BindingInv, RowBound, BindingsStay
<1>3. CASE row'[q] = row[q]
  BY <1>2, <1>3 DEF RowBound
<1>4. CASE row'[q] # row[q]
  <2>1. q = p /\ row'[p] = review
    BY <1>4 DEF TypeOK
  <2> QED
    BY <2>1, <1>2 DEF RowBound
<1> QED
  BY <1>3, <1>4

\* Calls: they are left alone, or one ends.
LEMMA RequestsStayBound ==
  ASSUME TypeOK, BindingInv, BindingsStay,
         UNCHANGED request
           \/ \E r \in Requests : request' = [request EXCEPT ![r] = IdleCall]
  PROVE  \A r \in Requests : RequestBound(r)'
<1> SUFFICES ASSUME NEW r \in Requests PROVE RequestBound(r)'
  OBVIOUS
<1>1. request[r].current.claim \in Attempts \cup {None} /\ request[r].packet \in Packets
  BY DEF TypeOK, Call, Review
<1>2. CASE request'[r] = request[r]
  BY <1>1, <1>2, NoneAssumption DEF BindingInv, RequestBound, BindingsStay
<1>3. CASE request'[r] = IdleCall
  BY <1>3 DEF RequestBound, IdleCall, FreshReview
<1> QED
  BY <1>2, <1>3 DEF TypeOK

\* Processes: what a process is bound to survives a step that is not its own.
LEMMA OthersStayBound ==
  ASSUME TypeOK, BindingInv, LedgerGrows, BindingsStay, NEW w \in Workers,
         worker'[w] = worker[w]
  PROVE  WorkerBound(w)'
<1> DEFINE a == worker[w].snap.claim
<1>1. a \in Attempts \cup {None} /\ worker[w].packet \in Packets
  BY DEF TypeOK, Process, Review
<1>2. worker[w].pc \in BoundSteps => a # None
  BY DEF BindingInv, WorkerBound
<1>3. a # None => attempt'[a].packet = worker[w].packet
  BY <1>1, NoneAssumption DEF BindingInv, WorkerBound, BindingsStay
<1>4. worker[w].pc \in BoundSteps \ {"claimed"} => Has(ledger'[a], "boundary_authorized")
  BY <1>1, <1>2, KindsAreKinds DEF BindingInv, WorkerBound, LedgerGrows
<1> QED
  BY <1>2, <1>3, <1>4 DEF WorkerBound

LEMMA WorkersStayBound ==
  ASSUME TypeOK, BindingInv, LedgerGrows, BindingsStay, UNCHANGED worker
  PROVE  \A w \in Workers : WorkerBound(w)'
BY OthersStayBound

\* A process ends, throws, or goes on to a step its attempt is ready for.
LEMMA MovedStaysBound ==
  ASSUME TypeOK, BindingInv, LedgerGrows, BindingsStay, NEW w \in Workers,
         \/ Finish(w)
         \/ \E c \in Causes : Throw(w, c)
         \/ \E s \in Steps :
              /\ Goto(w, s)
              /\ s \in BoundSteps => ClaimOf(w) # None
              /\ s \in BoundSteps \ {"claimed"}
                   => Has(ledger'[ClaimOf(w)], "boundary_authorized")
  PROVE  \A v \in Workers : WorkerBound(v)'
<1> SUFFICES ASSUME NEW v \in Workers PROVE WorkerBound(v)'
  OBVIOUS
<1> DEFINE a == worker[w].snap.claim
<1>0. a \in Attempts \cup {None} /\ worker[w].packet \in Packets /\ worker[w] \in Process
  BY DEF TypeOK, Process, Review
<1>1. a # None => attempt'[a].packet = worker[w].packet
  BY <1>0, NoneAssumption DEF BindingInv, WorkerBound, BindingsStay
<1>2. CASE v # w
  <2>1. worker'[v] = worker[v]
    BY <1>2 DEF TypeOK, Finish, Throw, Goto
  <2> QED
    BY <2>1, OthersStayBound
<1>3. CASE v = w /\ Finish(w)
  <2>1. worker'[w] = IdleProcess
    BY <1>3 DEF TypeOK, Finish
  <2> QED
    BY <2>1, <1>3 DEF WorkerBound, IdleProcess, FreshReview, BoundSteps
<1>4. ASSUME v = w, NEW c \in Causes, Throw(w, c) PROVE WorkerBound(v)'
  <2>1. /\ worker'[w].pc = "failing" /\ worker'[w].snap = worker[w].snap
        /\ worker'[w].packet = worker[w].packet
    BY <1>4, <1>0 DEF TypeOK, Throw, Process
  <2> QED
    BY <2>1, <1>1, <1>4 DEF WorkerBound, BoundSteps
<1>5. ASSUME v = w, NEW s \in Steps, Goto(w, s),
             s \in BoundSteps => ClaimOf(w) # None,
             s \in BoundSteps \ {"claimed"}
               => Has(ledger'[ClaimOf(w)], "boundary_authorized")
      PROVE  WorkerBound(v)'
  <2>1. /\ worker'[w].pc = s /\ worker'[w].snap = worker[w].snap
        /\ worker'[w].packet = worker[w].packet
    BY <1>5, <1>0 DEF TypeOK, Goto, Process
  <2> QED
    BY <2>1, <1>1, <1>5 DEF WorkerBound, ClaimOf
<1> QED
  BY <1>2, <1>3, <1>4, <1>5

\* A process takes another review: it is bound as the review's claim is.
LEMMA TakenIsBound ==
  ASSUME TypeOK, BindingInv, LedgerGrows, BindingsStay, NEW w \in Workers,
         NEW packet, NEW review,
         \A v \in Workers \ {w} : worker'[v] = worker[v],
         worker'[w].packet = packet, worker'[w].snap = review,
         review.claim # None => attempt'[review.claim].packet = packet,
         worker'[w].pc \in BoundSteps => review.claim # None,
         worker'[w].pc \in BoundSteps \ {"claimed"}
           => Has(ledger'[review.claim], "boundary_authorized")
  PROVE  \A v \in Workers : WorkerBound(v)'
BY OthersStayBound DEF WorkerBound

\* The claim a review carries after the code's writes.
LEMMA ClaimsOfReviews ==
  ASSUME NEW review \in Review
  PROVE  /\ \A s : /\ [review EXCEPT !.status = s].claim = review.claim
                   /\ [review EXCEPT !.status = s, !.claim = None].claim = None
                   /\ PreClickRelease(review, s).claim = None
         /\ MarkUnverified(review).claim = review.claim
         /\ \A u : /\ ReleaseTo(review, u).claim = None
                   /\ MarkSubmitted(review, u).claim = review.claim
         /\ \A a : [review EXCEPT !.claim = a].claim = a
         /\ [review EXCEPT !.status = "needs_attention", !.unv = "open",
                           !.receipt = TRUE].claim = review.claim
         /\ \A cause, neverReached :
              FailureReview(review, cause, neverReached).claim
                \in {None, review.claim}
BY DEF Review, PreClickRelease, MarkUnverified, ReleaseTo, MarkSubmitted, FailureReview

-----------------------------------------------------------------------------
(* BindingInv is inductive *)

LEMMA InitBinding == Init => BindingInv
<1> SUFFICES ASSUME Init PROVE BindingInv
  OBVIOUS
<1>1. \A w \in Workers : WorkerBound(w)
  BY DEF Init, WorkerBound, IdleProcess, FreshReview, BoundSteps
<1>2. \A p \in Packets : RowBound(p)
  BY DEF Init, RowBound, FreshReview
<1>3. \A r \in Requests : RequestBound(r)
  BY DEF Init, RequestBound, IdleCall, FreshReview
<1>4. \A a \in Attempts : AttemptBound(a)
  BY DEF Init, AttemptBound
<1> QED
  BY <1>1, <1>2, <1>3, <1>4 DEF BindingInv

\* An attempt with facts, or on a packet, is bound.
LEMMA BoundAttempts ==
  ASSUME TypeOK, BindingInv, NEW a \in Attempts,
         \/ ledger[a] # << >>
         \/ \E kind : Has(ledger[a], kind)
         \/ \E p \in Packets : attempt[a].packet = p
  PROVE  attempt[a].packet # None /\ attempt[a].packet \in Packets
<1>1. attempt[a].packet \in Packets \cup {None}
  BY DEF TypeOK, Binding
<1>2. \A kind : ~ Has(<< >>, kind)
  BY DEF Has
<1> QED
  BY <1>1, <1>2, NoneAssumption DEF BindingInv, AttemptBound

\* A row's claim is of a bound attempt.
LEMMA ClaimedAttempts ==
  ASSUME TypeOK, BindingInv, NEW p \in Packets, row[p].claim # None
  PROVE  row[p].claim \in Attempts /\ attempt[row[p].claim].packet # None
<1>1. row[p].claim \in Attempts
  BY DEF TypeOK, Review
<1> QED
  BY <1>1, NoneAssumption DEF BindingInv, RowBound

LEMMA ApplicantBinding == TypeOK /\ BindingInv /\ ApplicantNext => BindingInv'
<1> SUFFICES ASSUME TypeOK, BindingInv, ApplicantNext PROVE BindingInv'
  OBVIOUS
<1>0. \A p \in Packets : row[p] \in Review
  BY DEF TypeOK
<1>1. ASSUME NEW r \in Requests, NEW p \in Packets, NEW kind \in {"submit", "approve"},
             RequestRead(r, p, kind)
      PROVE  BindingInv'
  <2>1. LedgerGrows /\ BindingsStay /\ AttemptsBoundNext
    BY <1>1, QuietStep DEF RequestRead
  <2>2. \A s \in Requests : RequestBound(s)'
    BY <1>1 DEF RequestRead, TypeOK, BindingInv, RequestBound, RowBound
  <2>3. \A q \in Packets : RowBound(q)'
    BY <1>1 DEF RequestRead, BindingInv, RowBound
  <2> QED
    BY <1>1, <2>1, <2>2, <2>3, WorkersStayBound
       DEF BindingInv, AttemptsBoundNext, RequestRead
<1>2. ASSUME NEW r \in Requests, RequestVerdict(r)
      PROVE  BindingInv'
  <2>1. LedgerGrows /\ BindingsStay /\ AttemptsBoundNext
    BY <1>2, QuietStep DEF RequestVerdict
  <2>2. \A s \in Requests : /\ request'[s].current = request[s].current
                            /\ request'[s].packet = request[s].packet
    BY <1>2 DEF RequestVerdict, TypeOK, Call
  <2>3. \A s \in Requests : RequestBound(s)'
    BY <1>2, <2>2 DEF RequestVerdict, BindingInv, RequestBound
  <2>4. \A q \in Packets : RowBound(q)'
    BY <1>2 DEF RequestVerdict, BindingInv, RowBound
  <2> QED
    BY <1>2, <2>1, <2>3, <2>4, WorkersStayBound
       DEF BindingInv, AttemptsBoundNext, RequestVerdict
<1>3. ASSUME NEW r \in Requests,
             RequestRefused(r) \/ SubmitRequest(r) \/ Approve(r)
      PROVE  BindingInv'
  <2> DEFINE p == request[r].packet
             current == request[r].current
  <2>1. LedgerGrows /\ BindingsStay /\ AttemptsBoundNext
    BY <1>3, QuietStep DEF RequestRefused, SubmitRequest, Approve
  <2>2. p \in Packets /\ current \in Review
    BY DEF TypeOK, Call
  <2>3. \A q \in Packets : RowBound(q)'
    <3>1. CASE RequestRefused(r)
      <4> DEFINE review == [current EXCEPT !.status = "needs_attention"]
      <4>1. review.claim = current.claim
        BY <2>2, ClaimsOfReviews
      <4>2. review.claim = None \/ attempt'[review.claim].packet = p
        BY <4>1, <3>1 DEF BindingInv, RequestBound, RequestRefused
      <4>3. row' = [row EXCEPT ![p] = review] \/ UNCHANGED row
        BY <3>1 DEF RequestRefused
      <4> QED
        BY <4>2, <4>3, <2>1, <2>2, RowsStayBound
    <3>2. CASE SubmitRequest(r)
      <4> DEFINE review == [status |-> "submit_requested", run |-> runs[p] + 1,
                            claim |-> None, unv |-> "none", receipt |-> FALSE]
      <4>1. row' = [row EXCEPT ![p] = review] \/ UNCHANGED row
        BY <3>2 DEF SubmitRequest
      <4> QED
        BY <4>1, <2>1, <2>2, RowsStayBound
    <3>3. CASE Approve(r)
      <4> DEFINE review == [current EXCEPT !.status = "submitting", !.claim = None]
      <4>1. row' = [row EXCEPT ![p] = review] \/ UNCHANGED row
        BY <3>3 DEF Approve
      <4>2. review.claim = None
        BY <2>2, ClaimsOfReviews
      <4> QED
        BY <4>1, <4>2, <2>1, <2>2, RowsStayBound
    <3> QED
      BY <1>3, <3>1, <3>2, <3>3
  <2>4. request' = [request EXCEPT ![r] = IdleCall] /\ UNCHANGED worker
    BY <1>3 DEF RequestRefused, SubmitRequest, Approve
  <2> QED
    BY <2>1, <2>3, <2>4, RequestsStayBound, WorkersStayBound
       DEF BindingInv, AttemptsBoundNext
<1>4. ASSUME NEW p \in Packets,
             AnswerNotThere(p) \/ AnswerFound(p) \/ RepairOnLoad(p)
      PROVE  BindingInv'
  <2> DEFINE a == row[p].claim
  <2>1. a \in Attempts /\ attempt[a].packet # None
    BY <1>4, ClaimedAttempts
       DEF AnswerNotThere, AnswerFound, RepairOnLoad, AsksAboutClaim
  <2>2. /\ UNCHANGED <<attempt, provider, filed, worker, request>>
        /\ \E fact \in Fact : AppendFact(a, fact)
    BY <1>4, FactTypes DEF AnswerNotThere, AnswerFound, RepairOnLoad
  <2>3. LedgerGrows /\ BindingsStay /\ AttemptsBoundNext
    BY <2>1, <2>2, RecordingStep
  <2>4. \E review : /\ row' = [row EXCEPT ![p] = review]
                    /\ review.claim \in {None, row[p].claim}
    BY <1>4, <1>0, ClaimsOfReviews DEF AnswerNotThere, AnswerFound, RepairOnLoad
  <2>5. \A q \in Packets : RowBound(q)'
    BY <2>3, <2>4, RowsStayBound
  <2> QED
    BY <2>2, <2>3, <2>5, RequestsStayBound, WorkersStayBound
       DEF BindingInv, AttemptsBoundNext
<1>5. ASSUME NEW p \in Packets, AnswerPacketNotThere(p)
      PROVE  BindingInv'
  <2> DEFINE checked == NotSent("applicant_checked_not_sent")
  <2>1. \A a \in Attempts :
          \/ ledger'[a] = ledger[a]
          \/ a \in AttemptsOf(p) /\ ledger'[a] = Append(ledger[a], checked)
    BY <1>5 DEF AnswerPacketNotThere
  <2>2. checked \in Fact
    BY FactTypes
  <2>3. LedgerGrows
    <3> SUFFICES ASSUME NEW a \in Attempts, NEW kind \in EventKinds,
                        Has(ledger[a], kind)
                 PROVE  Has(ledger'[a], kind)
      BY DEF LedgerGrows
    <3>1. Has(Append(ledger[a], checked), kind)
      BY <2>2, HasAppended DEF TypeOK
    <3> QED
      BY <3>1, <2>1
  <2>4. UNCHANGED <<attempt, provider, filed, worker, request>>
    BY <1>5 DEF AnswerPacketNotThere
  <2>5. BindingsStay
    BY <2>4 DEF BindingsStay
  <2>6. ASSUME NEW a \in Attempts PROVE AttemptBound(a)'
    <3>1. attempt[a].packet = None => ledger'[a] = ledger[a]
      BY <2>1, NoneAssumption DEF AttemptsOf
    <3>2. Has(ledger[a], "boundary_authorized") => Has(ledger'[a], "boundary_authorized")
      BY <2>3, KindsAreKinds DEF LedgerGrows
    <3> QED
      BY <2>4, <3>1, <3>2 DEF BindingInv, AttemptBound
  <2>7. \A q \in Packets : RowBound(q)'
    <3>1. row' = [row EXCEPT ![p] = ReleaseTo(row[p], "not_sent")]
      BY <1>5 DEF AnswerPacketNotThere
    <3>2. ReleaseTo(row[p], "not_sent").claim = None
      BY <1>0, ClaimsOfReviews
    <3> QED
      BY <3>1, <3>2, <2>5, RowsStayBound
  <2> QED
    BY <2>3, <2>4, <2>5, <2>6, <2>7, RequestsStayBound, WorkersStayBound
       DEF BindingInv
<1>6. ASSUME NEW p \in Packets, AnswerPacketFound(p)
      PROVE  BindingInv'
  <2>1. PICK a \in AttemptsOf(p) : AppendFact(a, Confirmed)
    BY <1>6 DEF AnswerPacketFound
  <2>2. a \in Attempts /\ attempt[a].packet # None
    BY <2>1, NoneAssumption DEF AttemptsOf
  <2>3. UNCHANGED <<attempt, provider, filed, worker, request>>
    BY <1>6 DEF AnswerPacketFound
  <2>4. LedgerGrows /\ BindingsStay /\ AttemptsBoundNext
    BY <2>1, <2>2, <2>3, FactTypes, RecordingStep
  <2>5. \A q \in Packets : RowBound(q)'
    <3>1. row' = [row EXCEPT ![p] = MarkSubmitted(row[p], "sent")]
      BY <1>6 DEF AnswerPacketFound
    <3>2. MarkSubmitted(row[p], "sent").claim = row[p].claim
      BY <1>0, ClaimsOfReviews
    <3> QED
      BY <3>1, <3>2, <2>4, RowsStayBound
  <2> QED
    BY <2>3, <2>4, <2>5, RequestsStayBound, WorkersStayBound
       DEF BindingInv, AttemptsBoundNext
<1>7. ASSUME NEW p \in Packets, RepairParked(p)
      PROVE  BindingInv'
  <2>1. LedgerGrows /\ BindingsStay /\ AttemptsBoundNext
    BY <1>7, QuietStep DEF RepairParked
  <2>2. \A q \in Packets : RowBound(q)'
    <3>1. row' = [row EXCEPT ![p] = MarkSubmitted(row[p], "sent")]
      BY <1>7 DEF RepairParked
    <3>2. MarkSubmitted(row[p], "sent").claim = row[p].claim
      BY <1>0, ClaimsOfReviews
    <3> QED
      BY <3>1, <3>2, <2>1, RowsStayBound
  <2>3. UNCHANGED <<worker, request>>
    BY <1>7 DEF RepairParked
  <2> QED
    BY <2>1, <2>2, <2>3, RequestsStayBound, WorkersStayBound
       DEF BindingInv, AttemptsBoundNext
<1>8. ASSUME NEW a \in Attempts, CloseAbandoned(a)
      PROVE  BindingInv'
  <2>1. attempt[a].packet # None /\ UNCHANGED <<attempt, provider, filed>>
    BY <1>8 DEF CloseAbandoned
  <2>2. LedgerGrows /\ BindingsStay /\ AttemptsBoundNext
    BY <1>8, <2>1, FactTypes, RecordingStep DEF CloseAbandoned
  <2>3. UNCHANGED <<row, worker, request>>
    BY <1>8 DEF CloseAbandoned
  <2>4. \A q \in Packets : RowBound(q)'
    BY <2>1, <2>3 DEF BindingInv, RowBound
  <2> QED
    BY <2>2, <2>3, <2>4, RequestsStayBound, WorkersStayBound
       DEF BindingInv, AttemptsBoundNext
<1> QED
  BY <1>1, <1>2, <1>3, <1>4, <1>5, <1>6, <1>7, <1>8 DEF ApplicantNext

\* A process past its claim has a bound attempt.
LEMMA WorkersAttempts ==
  ASSUME TypeOK, BindingInv, NEW w \in Workers, worker[w].pc \in BoundSteps
  PROVE  /\ ClaimOf(w) \in Attempts
         /\ attempt[ClaimOf(w)].packet = worker[w].packet
         /\ attempt[ClaimOf(w)].packet # None
         /\ worker[w].pc # "claimed" => Has(ledger[ClaimOf(w)], "boundary_authorized")
<1>1. worker[w].snap.claim \in Attempts \cup {None} /\ worker[w].packet \in Packets
  BY DEF TypeOK, Process, Review
<1> QED
  BY <1>1, NoneAssumption DEF BindingInv, WorkerBound, ClaimOf

\* A step that leaves ledger and rows alone and moves one process.
LEMMA MovingStep ==
  ASSUME TypeOK, BindingInv, NEW w \in Workers,
         UNCHANGED <<row, ledger, attempt, provider, filed, request>>,
         \/ Finish(w)
         \/ \E c \in Causes : Throw(w, c)
         \/ \E s \in Steps :
              /\ Goto(w, s)
              /\ s \in BoundSteps => ClaimOf(w) # None
              /\ s \in BoundSteps \ {"claimed"}
                   => Has(ledger[ClaimOf(w)], "boundary_authorized")
  PROVE  BindingInv'
<1>1. LedgerGrows /\ BindingsStay /\ AttemptsBoundNext
  BY QuietStep
<1>2. \A q \in Packets : RowBound(q)'
  BY DEF BindingInv, RowBound
<1>3. \A v \in Workers : WorkerBound(v)'
  BY <1>1, MovedStaysBound
<1> QED
  BY <1>1, <1>2, <1>3, RequestsStayBound DEF BindingInv, AttemptsBoundNext

\* A process past its boundary that goes on, having recorded at most one fact.
LEMMA ReportingStep ==
  ASSUME TypeOK, BindingInv, NEW w \in Workers,
         worker[w].pc \in BoundSteps \ {"claimed"},
         UNCHANGED <<row, attempt, provider, filed, request>>,
         NEW reported \in BOOLEAN, AppendPressOnce(ClaimOf(w), reported),
         NEW s \in Steps, Goto(w, s)
  PROVE  BindingInv'
<1>1. /\ ClaimOf(w) \in Attempts /\ attempt[ClaimOf(w)].packet # None
      /\ Has(ledger[ClaimOf(w)], "boundary_authorized")
  BY WorkersAttempts
<1>2. AppendFact(ClaimOf(w), Pressed) \/ UNCHANGED ledger
  BY DEF AppendPressOnce
<1>3. LedgerGrows /\ BindingsStay /\ AttemptsBoundNext
  BY <1>1, <1>2, FactTypes, RecordingStep
<1>4. ClaimOf(w) # None /\ Has(ledger'[ClaimOf(w)], "boundary_authorized")
  BY <1>1, <1>3, KindsAreKinds, NoneAssumption DEF LedgerGrows
<1>5. \A v \in Workers : WorkerBound(v)'
  BY <1>3, <1>4, MovedStaysBound
<1>6. \A q \in Packets : RowBound(q)'
  BY <1>3 DEF BindingInv, RowBound
<1> QED
  BY <1>3, <1>5, <1>6, RequestsStayBound DEF BindingInv, AttemptsBoundNext

\* A process that ends with a row written and at most one fact recorded.
LEMMA OutcomeStep ==
  ASSUME TypeOK, BindingInv, NEW w \in Workers, Finish(w),
         UNCHANGED <<attempt, provider, filed, request>>,
         NEW p \in Packets, NEW review,
         row' = [row EXCEPT ![p] = review] \/ UNCHANGED row,
         review.claim \in {None, row[p].claim},
         \/ UNCHANGED ledger
         \/ \E a \in Attempts, fact \in Fact :
              attempt[a].packet # None /\ AppendFact(a, fact)
  PROVE  BindingInv'
<1>1. LedgerGrows /\ BindingsStay /\ AttemptsBoundNext
  BY QuietStep, RecordingStep
<1>2. \A q \in Packets : RowBound(q)'
  BY <1>1, RowsStayBound
<1>3. \A v \in Workers : WorkerBound(v)'
  BY <1>1, MovedStaysBound
<1> QED
  BY <1>1, <1>2, <1>3, RequestsStayBound DEF BindingInv, AttemptsBoundNext

LEMMA WorkerBinding ==
  ASSUME TypeOK, BindingInv, NEW w \in Workers, WorkerStep(w)
  PROVE  BindingInv'
<1> DEFINE p == worker[w].packet
           snap == worker[w].snap
           a == ClaimOf(w)
<1>0. /\ p \in Packets /\ snap \in Review /\ row[p] \in Review
      /\ worker[w] \in Process /\ a = snap.claim
  BY DEF TypeOK, Process, ClaimOf
<1>a. snap.claim # None => snap.claim \in Attempts /\ attempt[snap.claim].packet = p
  BY <1>0 DEF BindingInv, WorkerBound, Review
<1>1. CASE ClaimPreparation(w)
  <2> DEFINE claimed == [snap EXCEPT !.status = "preparing", !.claim = None]
  <2>1. LedgerGrows /\ BindingsStay /\ AttemptsBoundNext
    BY <1>1, QuietStep DEF ClaimPreparation
  <2>2. claimed.claim = None
    BY <1>0, ClaimsOfReviews
  <2>3. \A q \in Packets : RowBound(q)'
    <3>1. row' = [row EXCEPT ![p] = claimed] \/ UNCHANGED row
      BY <1>1 DEF ClaimPreparation
    <3> QED
      BY <3>1, <2>1, <2>2, <1>0, RowsStayBound
  <2>4. \A v \in Workers : WorkerBound(v)'
    <3>1. CASE GotoWith(w, "preparing", claimed)
      <4>1. /\ worker'[w].pc = "preparing" /\ worker'[w].snap = claimed
            /\ \A v \in Workers \ {w} : worker'[v] = worker[v]
        BY <3>1, <1>0 DEF GotoWith, TypeOK, Process
      <4> QED
        BY <4>1, <2>1, <2>2, TakenIsBound DEF BoundSteps
    <3>2. CASE Finish(w)
      BY <3>2, <2>1, MovedStaysBound
    <3> QED
      BY <1>1, <3>1, <3>2 DEF ClaimPreparation
  <2> QED
    BY <1>1, <2>1, <2>3, <2>4, RequestsStayBound
       DEF BindingInv, AttemptsBoundNext, ClaimPreparation
<1>2. CASE Reload(w)
  <2>1. LedgerGrows /\ BindingsStay /\ AttemptsBoundNext
    BY <1>2, QuietStep DEF Reload
  <2>2. \A q \in Packets : RowBound(q)'
    BY <1>2 DEF Reload, BindingInv, RowBound
  <2>3. \A v \in Workers : WorkerBound(v)'
    <3>1. CASE GotoWith(w, "loaded", row[p])
      <4>1. /\ worker'[w].pc = "loaded" /\ worker'[w].snap = row[p]
            /\ worker'[w].packet = p
            /\ \A v \in Workers \ {w} : worker'[v] = worker[v]
        BY <3>1, <1>0 DEF GotoWith, TypeOK, Process
      <4>2. row[p].claim # None => attempt'[row[p].claim].packet = p
        BY <1>0, <1>2 DEF BindingInv, RowBound, Reload
      <4> QED
        BY <4>1, <4>2, <2>1, TakenIsBound DEF BoundSteps
    <3>2. CASE Finish(w)
      BY <3>2, <2>1, MovedStaysBound
    <3> QED
      BY <1>2, <3>1, <3>2 DEF Reload
  <2> QED
    BY <1>2, <2>1, <2>2, <2>3, RequestsStayBound
       DEF BindingInv, AttemptsBoundNext, Reload
<1>3. ASSUME NEW s \in StopStatuses \cup {"submitting"}, PrepareParks(w, s)
      PROVE  BindingInv'
  <2> DEFINE review == [snap EXCEPT !.status = s]
  <2>1. LedgerGrows /\ BindingsStay /\ AttemptsBoundNext
    BY <1>3, QuietStep DEF PrepareParks
  <2>2. row' = [row EXCEPT ![p] = review] \/ UNCHANGED row
    BY <1>3 DEF PrepareParks, WriteReview
  <2>3. review.claim = None \/ attempt'[review.claim].packet = p
    BY <1>0, <1>a, <1>3, ClaimsOfReviews DEF PrepareParks
  <2>4. \A q \in Packets : RowBound(q)'
    BY <1>0, <2>1, <2>2, <2>3, RowsStayBound
  <2>5. \A v \in Workers : WorkerBound(v)'
    BY <1>3, <2>1, MovedStaysBound DEF PrepareParks, Steps, BoundSteps
  <2> QED
    BY <1>3, <2>1, <2>4, <2>5, RequestsStayBound
       DEF BindingInv, AttemptsBoundNext, PrepareParks
<1>4. ASSUME NEW s \in StopStatuses, HoldBeforeClaim(w, s) \/ StopBeforeBoundary(w, s)
      PROVE  BindingInv'
  <2> DEFINE review == [snap EXCEPT !.status = s, !.claim = None]
  <2>1. review.claim = None
    BY <1>0, ClaimsOfReviews
  <2>2. CASE HoldBeforeClaim(w, s)
    <3>1. row' = [row EXCEPT ![p] = review] \/ UNCHANGED row
      BY <2>2 DEF HoldBeforeClaim, WriteReview
    <3>2. Finish(w) /\ UNCHANGED <<ledger, attempt, provider, filed, request>>
      BY <2>2 DEF HoldBeforeClaim
    <3> QED
      BY <3>1, <3>2, <2>1, <1>0, OutcomeStep
  <2>3. CASE StopBeforeBoundary(w, s)
    <3>1. a \in Attempts /\ attempt[a].packet # None
      BY <2>3, WorkersAttempts DEF StopBeforeBoundary, At, BoundSteps
    <3>2. row' = [row EXCEPT ![p] = review] \/ UNCHANGED row
      BY <2>3 DEF StopBeforeBoundary
    <3>3. AppendFact(a, NotSent("typed_pre_click_stop")) \/ UNCHANGED ledger
      BY <2>3 DEF StopBeforeBoundary
    <3>4. Finish(w) /\ UNCHANGED <<attempt, provider, filed, request>>
      BY <2>3 DEF StopBeforeBoundary
    <3> QED
      BY <3>1, <3>2, <3>3, <3>4, <2>1, <1>0, FactTypes, OutcomeStep
  <2> QED
    BY <1>4, <2>2, <2>3
<1>5. ASSUME NEW c, EarlyThrow(w, c) PROVE BindingInv'
  <2>1. c \in Causes /\ Throw(w, c)
    BY <1>5, EarlyCauses
  <2> QED
    BY <1>5, <2>1, MovingStep
       DEF EarlyThrow, PrepareThrows, ThrowBeforeBoundary, CallStopped
<1>6. ASSUME NEW b \in Attempts, ClaimSubmission(w, b)
      PROVE  BindingInv'
  <2> DEFINE claimed == [snap EXCEPT !.claim = b]
  <2>1. claimed.claim = b /\ b # None
    BY <1>0, ClaimsOfReviews, NoneAssumption
  <2>2. /\ attempt[b].packet = None
        /\ attempt' = [attempt EXCEPT ![b] =
                         [packet |-> p, openedAt |-> now, lease |-> 0]]
        /\ ledger' = [ledger EXCEPT ![b] = Append(ledger[b], Opened)]
        /\ row' = [row EXCEPT ![p] = claimed]
        /\ GotoWith(w, "claimed", claimed)
        /\ UNCHANGED <<provider, filed, request>>
    BY <1>6 DEF ClaimSubmission, AppendFact
  <2>3. ledger[b] = << >>
    BY <2>2 DEF BindingInv, AttemptBound
  <2>4. BindingsStay
    BY <2>2 DEF BindingsStay, TypeOK
  <2>5. LedgerGrows
    <3>1. \A kind : ~ Has(<< >>, kind)
      BY DEF Has
    <3> QED
      BY <3>1, <2>2, <2>3 DEF LedgerGrows, TypeOK
  <2>6. attempt'[b].packet = p
    BY <2>2 DEF TypeOK
  <2>7. \A q \in Packets : RowBound(q)'
    BY <2>1, <2>2, <2>4, <2>6, <1>0, RowsStayBound
  <2>8. \A v \in Workers : WorkerBound(v)'
    <3>1. /\ worker'[w].pc = "claimed" /\ worker'[w].snap = claimed
          /\ worker'[w].packet = p
          /\ \A v \in Workers \ {w} : worker'[v] = worker[v]
      BY <2>2, <1>0 DEF GotoWith, TypeOK, Process
    <3>2. /\ claimed.claim # None => attempt'[claimed.claim].packet = p
          /\ worker'[w].pc \in BoundSteps => claimed.claim # None
          /\ ~ (worker'[w].pc \in BoundSteps \ {"claimed"})
      BY <3>1, <2>1, <2>6
    <3> HIDE DEF claimed
    <3> QED
      BY <3>1, <3>2, <2>4, <2>5, TakenIsBound
  <2>9. ASSUME NEW c \in Attempts PROVE AttemptBound(c)'
    <3>1. AttemptBound(c)
      BY DEF BindingInv
    <3>2. Has(ledger[c], "boundary_authorized") => Has(ledger'[c], "boundary_authorized")
      BY <2>5, KindsAreKinds DEF LedgerGrows
    <3>3. c # b => ledger'[c] = ledger[c] /\ attempt'[c] = attempt[c]
      BY <2>2 DEF TypeOK
    <3>4. attempt'[c].packet = None => c # b
      BY <2>6, <1>0, NoneAssumption
    <3> QED
      BY <2>2, <3>1, <3>2, <3>3, <3>4 DEF AttemptBound
  <2> QED
    BY <2>2, <2>4, <2>7, <2>8, <2>9, RequestsStayBound DEF BindingInv
<1>7. CASE ClaimLost(w)
  BY <1>7, MovingStep DEF ClaimLost
<1>8. CASE Authorize(w)
  <2>1. a \in Attempts /\ attempt[a].packet # None /\ a # None
    BY <1>8, WorkersAttempts, NoneAssumption DEF Authorize, At, BoundSteps
  <2>2. /\ ledger' = [ledger EXCEPT ![a] = Append(ledger[a], Authorized)]
        /\ attempt' = [attempt EXCEPT ![a].lease = now + LeaseTTL]
        /\ Goto(w, "authorized") /\ UNCHANGED <<row, provider, filed, request>>
    BY <1>8 DEF Authorize, AppendFact
  <2>3. \A b \in Attempts : attempt'[b].packet = attempt[b].packet
    BY <2>2 DEF TypeOK, Binding
  <2>4. LedgerGrows /\ Has(ledger'[a], "boundary_authorized")
    <3>1. ledger[a] \in Seq(Fact) /\ ledger'[a] = Append(ledger[a], Authorized)
          /\ \A b \in Attempts \ {a} : ledger'[b] = ledger[b]
      BY <2>1, <2>2 DEF TypeOK
    <3>2. \A kind : Has(ledger'[a], kind) <=>
                      Has(ledger[a], kind) \/ Authorized.kind = kind
      BY <3>1, FactTypes, HasAppended
    <3> QED
      BY <3>1, <3>2 DEF LedgerGrows, Authorized
  <2>5. BindingsStay
    BY <2>3 DEF BindingsStay
  <2>6. ASSUME NEW b \in Attempts PROVE AttemptBound(b)'
    <3>1. AttemptBound(b)
      BY DEF BindingInv
    <3>2. Has(ledger[b], "boundary_authorized") => Has(ledger'[b], "boundary_authorized")
      BY <2>4, KindsAreKinds DEF LedgerGrows
    <3>3. attempt'[b].packet = None => ledger'[b] = ledger[b]
      BY <2>1, <2>2, <2>3 DEF TypeOK
    <3> QED
      BY <2>2, <2>3, <3>1, <3>2, <3>3 DEF AttemptBound
  <2>7. \A q \in Packets : RowBound(q)'
    <3> SUFFICES ASSUME NEW q \in Packets PROVE RowBound(q)'
      OBVIOUS
    <3>1. row[q].claim \in Attempts \cup {None}
      BY DEF TypeOK, Review
    <3> QED
      BY <2>2, <2>3, <3>1 DEF BindingInv, RowBound
  <2>8. \A v \in Workers : WorkerBound(v)'
    BY <2>1, <2>2, <2>4, <2>5, MovedStaysBound DEF Steps
  <2> QED
    BY <2>2, <2>5, <2>6, <2>7, <2>8, RequestsStayBound DEF BindingInv
<1>9. CASE AuthorizeRefused(w)
  <2>1. \E c \in Causes : Throw(w, c)
    BY <1>9 DEF AuthorizeRefused, Causes
  <2> QED
    BY <1>9, <2>1, MovingStep DEF AuthorizeRefused
<1>10. CASE CallProvider(w) \/ ClickFinalSubmit(w, TRUE) \/ ClickFinalSubmit(w, FALSE)
  <2>1. /\ a \in Attempts /\ a # None /\ Has(ledger[a], "boundary_authorized")
    BY <1>10, WorkersAttempts, NoneAssumption
       DEF CallProvider, ClickFinalSubmit, At, BoundSteps
  <2>2. /\ UNCHANGED <<row, ledger, attempt, request>>
        /\ \E s \in Steps : Goto(w, s)
        /\ \A b \in Attempts \ {a} : provider'[b] = provider[b] /\ filed'[b] = filed[b]
        /\ \/ provider'[a].pressed
           \/ filed'[a] = filed[a] /\ provider'[a].pressed = provider[a].pressed
    BY <1>10, <2>1 DEF CallProvider, ClickFinalSubmit, Steps, TypeOK, ProviderRun
  <2>3. LedgerGrows /\ BindingsStay
    BY <2>2 DEF LedgerGrows, BindingsStay
  <2>4. \A b \in Attempts : AttemptBound(b)'
    BY <2>1, <2>2 DEF BindingInv, AttemptBound
  <2>5. \A q \in Packets : RowBound(q)'
    BY <2>2 DEF BindingInv, RowBound
  <2>6. \A v \in Workers : WorkerBound(v)'
    BY <2>1, <2>2, <2>3, MovedStaysBound
  <2> QED
    BY <2>2, <2>3, <2>4, <2>5, <2>6, RequestsStayBound DEF BindingInv
<1>11. CASE CallRefused(w) \/ RecoverPending(w) \/ NoSubmitControl(w)
             \/ ReadReceipt(w) \/ ThrowAfterBoundary(w)
  <2>1. worker[w].pc \in BoundSteps \ {"claimed"}
    BY <1>11 DEF CallRefused, RecoverPending, NoSubmitControl, ReadReceipt,
                 ThrowAfterBoundary, At, BoundSteps
  <2>2. a # None /\ Has(ledger[a], "boundary_authorized")
    BY <2>1, WorkersAttempts, NoneAssumption
  <2>3. UNCHANGED <<row, ledger, attempt, provider, filed, request>>
    BY <1>11 DEF CallRefused, RecoverPending, NoSubmitControl, ReadReceipt,
                 ThrowAfterBoundary
  <2>4. \/ Finish(w) \/ \E c \in Causes : Throw(w, c)
        \/ \E s \in Steps : Goto(w, s)
    BY <1>11 DEF CallRefused, RecoverPending, NoSubmitControl, ReadReceipt,
                 ThrowAfterBoundary, Causes, Steps
  <2> QED
    BY <2>2, <2>3, <2>4, MovingStep
<1>12. ASSUME NEW reported \in BOOLEAN,
              NEW s \in {"confirming", "refusing", "unverifying"},
              \/ CallLost(w, reported) \/ RecordPress(w)
              \/ ReceiveAnswer(w, s, reported) \/ RecoverResult(w, s, reported)
       PROVE  BindingInv'
  <2>1. worker[w].pc \in BoundSteps \ {"claimed"}
    BY <1>12 DEF CallLost, RecordPress, ReceiveAnswer, RecoverResult, At, BoundSteps
  <2>2. UNCHANGED <<row, attempt, provider, filed, request>>
    BY <1>12 DEF CallLost, RecordPress, ReceiveAnswer, RecoverResult
  <2>3. PICK r \in BOOLEAN, t \in Steps : AppendPressOnce(a, r) /\ Goto(w, t)
    BY <1>12 DEF CallLost, RecordPress, ReceiveAnswer, RecoverResult, Steps
  <2> QED
    BY <2>1, <2>2, <2>3, ReportingStep
<1>13. ASSUME NEW parked \in BOOLEAN, RecordConfirmed(w, parked)
       PROVE  BindingInv'
  <2>1. a \in Attempts /\ attempt[a].packet # None
    BY <1>13, WorkersAttempts DEF RecordConfirmed, At, BoundSteps
  <2>2. AppendFact(a, Confirmed) \/ UNCHANGED ledger
    BY <1>13 DEF RecordConfirmed, AppendConfirmationOnce
  <2>3. \E review : /\ row' = [row EXCEPT ![p] = review]
                    /\ review.claim = row[p].claim
    <3>1. CASE parked
      <4>1. row' = [row EXCEPT ![p] =
                      [row[p] EXCEPT !.status = "needs_attention", !.unv = "open",
                                     !.receipt = TRUE]]
        BY <1>13, <3>1 DEF RecordConfirmed
      <4> QED
        BY <4>1, <1>0, ClaimsOfReviews
    <3>2. CASE ~ parked
      <4>1. row' = [row EXCEPT ![p] = MarkSubmitted(row[p],
                      IF row[p].unv = "none" THEN "none" ELSE "sent")]
        BY <1>13, <3>2 DEF RecordConfirmed
      <4>2. \A u : MarkSubmitted(row[p], u).claim = row[p].claim
        BY <1>0, ClaimsOfReviews
      <4> QED
        BY <4>1, <4>2
    <3> QED
      BY <3>1, <3>2
  <2>4. Finish(w) /\ UNCHANGED <<attempt, provider, filed, request>>
    BY <1>13 DEF RecordConfirmed
  <2> QED
    BY <2>1, <2>2, <2>3, <2>4, <1>0, FactTypes, OutcomeStep
<1>14. CASE RecordRefused(w)
  <2>1. a \in Attempts /\ attempt[a].packet # None
    BY <1>14, WorkersAttempts DEF RecordRefused, At, BoundSteps
  <2>2. AppendFact(a, NotSent("employer_rejected_not_filed")) \/ UNCHANGED ledger
    BY <1>14 DEF RecordRefused
  <2>3. row' = [row EXCEPT ![p] = ReleaseTo(row[p], "none")] \/ UNCHANGED row
    BY <1>14 DEF RecordRefused
  <2>4. Finish(w) /\ UNCHANGED <<attempt, provider, filed, request>>
    BY <1>14 DEF RecordRefused
  <2> QED
    BY <2>1, <2>2, <2>3, <2>4, <1>0, FactTypes, ClaimsOfReviews, OutcomeStep
<1>15. CASE RecordUnverified(w)
  <2>1. row' = [row EXCEPT ![p] = MarkUnverified(row[p])] \/ UNCHANGED row
    BY <1>15 DEF RecordUnverified
  <2>2. Finish(w) /\ UNCHANGED <<ledger, attempt, provider, filed, request>>
    BY <1>15 DEF RecordUnverified
  <2> QED
    BY <2>1, <2>2, <1>0, ClaimsOfReviews, OutcomeStep
<1>16. CASE RecordFailure(w)
  <2> DEFINE review == FailureReview(row[p], worker[w].cause,
                         snap.claim # None /\ NeverCrossedBoundary(snap.claim))
  <2>1. review.claim \in {None, row[p].claim}
        /\ MarkUnverified(row[p]).claim = row[p].claim
    BY <1>0, ClaimsOfReviews
  <2>2. \/ row' = [row EXCEPT ![p] = review]
        \/ row' = [row EXCEPT ![p] = MarkUnverified(row[p])]
        \/ UNCHANGED row
    BY <1>16 DEF RecordFailure
  <2>3. \/ UNCHANGED ledger
        \/ /\ snap.claim # None
           /\ \E proof \in NotSentProofs : AppendFact(snap.claim, NotSent(proof))
    BY <1>16, FactTypes DEF RecordFailure
  <2>4. Finish(w) /\ UNCHANGED <<attempt, provider, filed, request>>
    BY <1>16 DEF RecordFailure
  <2>5. snap.claim # None => snap.claim \in Attempts /\ attempt[snap.claim].packet # None
    BY <1>0, <1>a, NoneAssumption
  <2>6. \/ UNCHANGED ledger
        \/ \E b \in Attempts, fact \in Fact :
             attempt[b].packet # None /\ AppendFact(b, fact)
    BY <2>3, <2>5, FactTypes
  <2>7. \E r : /\ row' = [row EXCEPT ![p] = r] \/ UNCHANGED row
               /\ r.claim \in {None, row[p].claim}
    BY <2>1, <2>2
  <2> QED
    BY <2>4, <2>6, <2>7, <1>0, OutcomeStep
<1> QED
  BY <1>1, <1>2, <1>3, <1>4, <1>5, <1>6, <1>7, <1>8, <1>9, <1>10, <1>11, <1>12,
     <1>13, <1>14, <1>15, <1>16 DEF WorkerStep, EarlyThrow

LEMMA RunnerBinding == TypeOK /\ BindingInv /\ RunnerNext => BindingInv'
<1> SUFFICES ASSUME TypeOK, BindingInv, RunnerNext PROVE BindingInv'
  OBVIOUS
<1>1. ASSUME NEW p \in Packets, CronSelects(p)
      PROVE  BindingInv'
  <2>1. UNCHANGED <<row, ledger, attempt, provider, filed, worker, request>>
    BY <1>1 DEF CronSelects
  <2>2. LedgerGrows /\ BindingsStay /\ AttemptsBoundNext
    BY <2>1, QuietStep
  <2>3. \A q \in Packets : RowBound(q)'
    BY <2>1 DEF BindingInv, RowBound
  <2> QED
    BY <2>1, <2>2, <2>3, RequestsStayBound, WorkersStayBound
       DEF BindingInv, AttemptsBoundNext
<1>2. ASSUME NEW w \in Workers, NEW p \in Packets, LoadPacket(w, p)
      PROVE  BindingInv'
  <2> DEFINE loaded == [pc |-> FirstStep(row[p]), packet |-> p, snap |-> row[p],
                        cause |-> "none"]
  <2>1. UNCHANGED <<row, ledger, attempt, provider, filed, request>>
    BY <1>2 DEF LoadPacket
  <2>2. LedgerGrows /\ BindingsStay /\ AttemptsBoundNext
    BY <2>1, QuietStep
  <2>3. \A q \in Packets : RowBound(q)'
    BY <2>1 DEF BindingInv, RowBound
  <2>4. \A v \in Workers : WorkerBound(v)'
    <3>1. CASE worker' = [worker EXCEPT ![w] = loaded]
      <4>1. /\ worker'[w] = loaded
            /\ \A v \in Workers \ {w} : worker'[v] = worker[v]
        BY <3>1 DEF TypeOK
      <4>2. worker'[w].pc \in BoundSteps
              => row[p].claim # None /\ Has(ledger'[row[p].claim], "boundary_authorized")
        BY <4>1, <2>1 DEF FirstStep, ClaimIsHeld, BoundSteps
      <4>3. row[p].claim # None => attempt'[row[p].claim].packet = p
        BY <2>1 DEF BindingInv, RowBound
      <4> QED
        BY <4>1, <4>2, <4>3, <2>2, TakenIsBound
    <3>2. CASE UNCHANGED worker
      BY <3>2, <2>2, WorkersStayBound
    <3> QED
      BY <1>2, <3>1, <3>2 DEF LoadPacket
  <2> QED
    BY <2>1, <2>2, <2>3, <2>4, RequestsStayBound DEF BindingInv, AttemptsBoundNext
<1>3. ASSUME NEW w \in Workers, WorkerStep(w)
      PROVE  BindingInv'
  BY <1>3, WorkerBinding
<1>4. ASSUME NEW w \in Workers, WorkerCrash(w)
      PROVE  BindingInv'
  BY <1>4, MovingStep DEF WorkerCrash
<1>5. ASSUME NEW a \in Attempts, NEW accepted \in BOOLEAN,
             ProviderPress(a, accepted) \/ ProviderEnds(a)
      PROVE  BindingInv'
  <2>1. UNCHANGED <<row, ledger, attempt, worker, request>>
    BY <1>5 DEF ProviderPress, ProviderEnds
  <2>2. LedgerGrows /\ BindingsStay
    BY <2>1 DEF LedgerGrows, BindingsStay
  <2>3. ASSUME NEW b \in Attempts PROVE AttemptBound(b)'
    <3>1. provider[a].phase = "running"
      BY <1>5 DEF ProviderPress, ProviderEnds
    <3>2. b # a => provider'[b] = provider[b] /\ filed'[b] = filed[b]
      BY <1>5 DEF ProviderPress, ProviderEnds, TypeOK
    <3>3. Has(ledger[a], "boundary_authorized")
      BY <3>1 DEF BindingInv, AttemptBound
    <3>4. \/ provider'[a].pressed
          \/ filed'[a] = filed[a] /\ provider'[a].pressed = provider[a].pressed
      BY <1>5 DEF ProviderPress, ProviderEnds, TypeOK, ProviderRun
    <3> QED
      BY <2>1, <3>2, <3>3, <3>4 DEF BindingInv, AttemptBound
  <2>4. \A q \in Packets : RowBound(q)'
    BY <2>1 DEF BindingInv, RowBound
  <2> QED
    BY <2>1, <2>2, <2>3, <2>4, RequestsStayBound, WorkersStayBound DEF BindingInv
<1> QED
  BY <1>1, <1>2, <1>3, <1>4, <1>5 DEF RunnerNext, ProviderStep

LEMMA EvidenceBinding == TypeOK /\ BindingInv /\ EvidenceNext => BindingInv'
<1> SUFFICES ASSUME TypeOK, BindingInv, NEW p \in Packets,
                    MailConfirms(p) \/ StoredResponseConfirms(p)
             PROVE  BindingInv'
  BY DEF EvidenceNext
<1> DEFINE a == row[p].claim
<1>1. a \in Attempts /\ attempt[a].packet # None
  BY ClaimedAttempts DEF MailConfirms, StoredResponseConfirms
<1>2. /\ UNCHANGED <<attempt, provider, filed, worker, request>>
      /\ AppendFact(a, Confirmed) /\ Confirmed \in Fact
  BY FactTypes DEF MailConfirms, StoredResponseConfirms
<1>3. LedgerGrows /\ BindingsStay /\ AttemptsBoundNext
  BY <1>1, <1>2, RecordingStep
<1>4. PICK u : row' = [row EXCEPT ![p] = MarkSubmitted(row[p], u)]
  BY DEF MailConfirms, StoredResponseConfirms
<1>5. MarkSubmitted(row[p], u).claim = row[p].claim
  BY ClaimsOfReviews DEF TypeOK
<1>6. \A q \in Packets : RowBound(q)'
  BY <1>3, <1>4, <1>5, RowsStayBound
<1> QED
  BY <1>2, <1>3, <1>6, RequestsStayBound, WorkersStayBound
     DEF BindingInv, AttemptsBoundNext

LEMMA NextBinding == TypeOK /\ BindingInv /\ [Next]_vars => BindingInv'
<1> SUFFICES ASSUME TypeOK, BindingInv, [Next]_vars PROVE BindingInv'
  OBVIOUS
<1>1. CASE Tick \/ UNCHANGED vars
  <2>1. UNCHANGED <<row, ledger, attempt, provider, filed, worker, request>>
    BY <1>1 DEF Tick, vars
  <2>2. LedgerGrows /\ BindingsStay /\ AttemptsBoundNext
    BY <2>1, QuietStep
  <2>3. \A q \in Packets : RowBound(q)'
    BY <2>1 DEF BindingInv, RowBound
  <2> QED
    BY <2>1, <2>2, <2>3, RequestsStayBound, WorkersStayBound
       DEF BindingInv, AttemptsBoundNext
<1> QED
  BY <1>1, ApplicantBinding, EvidenceBinding, RunnerBinding DEF Next

\* Every claim, process, call and fact belongs to the packet its attempt was opened
\* for, and nothing is sent for an attempt whose boundary was not authorized.
THEOREM BindingHolds == Spec => []BindingInv
<1>1. Init => TypeOK /\ BindingInv
  BY InitTypeOK, InitBinding
<1>2. TypeOK /\ BindingInv /\ [Next]_vars => (TypeOK /\ BindingInv)'
  BY NextTypeOK, NextBinding
<1> QED
  BY <1>1, <1>2, PTL DEF Spec

-----------------------------------------------------------------------------
(* The shape of a row, and what a row says is confirmed                    *)

\* Statuses a packet has on its way to the employer.
Underway == {"ready_to_submit", "submit_requested", "preparing",
             "ready_for_final_approval", "submitting"}

\* A claim is carried only once the form is to be sent.  While the provider's
\* configuration is there, none is carried by a row the applicant answered "not there"
\* for, one that needs attention says what is known of it, and a packet under way has no
\* record of an earlier send: a failure for want of it requeues the row as it is.
RowShape(review) ==
  /\ review.claim # None
       => review.status \in {"submitting", "needs_attention", "submitted"}
  /\ \/ Outages
     \/ /\ review.claim # None
             => /\ review.unv # "not_sent"
                /\ review.status = "needs_attention" => review.unv # "none" \/ review.receipt
        /\ review.status \in Underway => review.unv = "none" /\ ~ review.receipt

\* What the applicant is shown as sent.
Shown(review) == review.status = "submitted" \/ review.receipt

\* A review that may be written to the packet's row: it shows only what is confirmed.
ReviewSound(review, p) == RowShape(review) /\ (Shown(review) => PacketConfirmed(p))

\* The snapshot a process may write the row from, however stale.
ProcessSound(w) ==
  /\ ReviewSound(worker[w].snap, worker[w].packet)
  /\ worker[w].pc = "preparing" => worker[w].snap.status = "preparing"
  /\ worker[w].pc = "claimed" => worker[w].snap.status = "submitting"

\* A call holds no claim: it goes on only with a row that has none.
CallSound(r) ==
  /\ ReviewSound(request[r].current, request[r].packet)
  /\ Outages \/ request[r].current.claim = None
  /\ request[r].kind = "approve"
       => request[r].current.status = "ready_for_final_approval"

\* The strengthening ClaimIsOpen and SubmittedHasConfirmation need: every copy of a row
\* that may still be written back is as sound as the row.
RowsInv ==
  /\ \A p \in Packets : ReviewSound(row[p], p)
  /\ \A w \in Workers : ProcessSound(w)
  /\ \A r \in Requests : CallSound(r)
  /\ Outages \/ ClaimIsOpen

\* A step records facts, and closes no attempt whose claim a row keeps.
RecordsFacts ==
  \A a \in Attempts :
    \/ ledger'[a] = ledger[a]
    \/ \E fact \in Fact :
         /\ ledger'[a] = Append(ledger[a], fact)
         /\ fact.kind = "not_sent_proven" => \A p \in Packets : row'[p].claim # a

LEMMA FactsGrow == ASSUME TypeOK, RecordsFacts PROVE LedgerGrows
<1> SUFFICES ASSUME NEW a \in Attempts, NEW kind \in EventKinds, Has(ledger[a], kind)
             PROVE  Has(ledger'[a], kind)
  BY DEF LedgerGrows
<1>1. ledger[a] \in Seq(Fact)
  BY DEF TypeOK
<1>2. ASSUME NEW fact \in Fact, ledger'[a] = Append(ledger[a], fact)
      PROVE  Has(ledger'[a], kind)
  BY <1>1, <1>2, HasAppended
<1> QED
  BY <1>2 DEF RecordsFacts

\* One fact, of an attempt no row keeps if it closes it.
LEMMA AppendRecords ==
  ASSUME TypeOK, NEW a \in Attempts, NEW fact \in Fact,
         AppendFact(a, fact) \/ UNCHANGED ledger,
         fact.kind = "not_sent_proven" => UNCHANGED ledger \/ \A p \in Packets : row'[p].claim # a
  PROVE  RecordsFacts
<1>1. \A b \in Attempts : ledger'[b] = ledger[b] \/ (b = a /\ ledger'[b] = Append(ledger[b], fact))
  BY DEF TypeOK, AppendFact
<1> QED
  BY <1>1 DEF RecordsFacts

\* A claim that is released is no other row's.
LEMMA ReleasedClaims ==
  ASSUME TypeOK, BindingInv', NEW p \in Packets, NEW a \in Attempts,
         attempt'[a].packet = p, row'[p].claim # a
  PROVE  \A q \in Packets : row'[q].claim # a
<1> SUFFICES ASSUME NEW q \in Packets, row'[q].claim = a PROVE FALSE
  OBVIOUS
<1>1. a # None
  BY NoneAssumption
<1>2. attempt'[a].packet = q
  BY <1>1 DEF BindingInv, RowBound
<1> QED
  BY <1>2

LEMMA ConfirmedStays ==
  ASSUME TypeOK, LedgerGrows, BindingsStay, NEW p \in Packets, PacketConfirmed(p)
  PROVE  PacketConfirmed(p)'
<1>1. PICK a \in Attempts : attempt[a].packet = p /\ Has(ledger[a], "submission_confirmed")
  BY DEF PacketConfirmed, AttemptsOf
<1>2. attempt'[a].packet = p /\ Has(ledger'[a], "submission_confirmed")
  BY <1>1, NoneAssumption, KindsAreKinds DEF LedgerGrows, BindingsStay
<1> QED
  BY <1>2 DEF PacketConfirmed, AttemptsOf

\* Rows: at most one is written, with a sound review and the claim it had or none.
LEMMA RowsStaySound ==
  ASSUME TypeOK, BindingInv, RowsInv, RecordsFacts, BindingsStay,
         NEW p \in Packets, NEW review,
         row' = [row EXCEPT ![p] = review] \/ UNCHANGED row,
         RowShape(review), Shown(review) => PacketConfirmed(p)',
         Outages \/ review.claim \in {None, row[p].claim}
  PROVE  (\A q \in Packets : ReviewSound(row[q], q)') /\ (Outages \/ ClaimIsOpen')
<1>0. LedgerGrows
  BY FactsGrow
<1>1. ASSUME NEW q \in Packets PROVE ReviewSound(row[q], q)'
  <2>1. CASE row'[q] = row[q]
    <3>1. RowShape(row[q]) /\ (Shown(row[q]) => PacketConfirmed(q)')
      BY <1>0, ConfirmedStays DEF RowsInv, ReviewSound
    <3> QED
      BY <2>1, <3>1 DEF ReviewSound, RowShape, Shown
  <2>2. CASE q = p /\ row'[q] = review
    BY <2>2 DEF ReviewSound, RowShape, Shown
  <2> QED
    BY <2>1, <2>2 DEF TypeOK
<1>2. ASSUME ~ Outages, NEW q \in Packets, row'[q].claim # None
      PROVE  attempt'[row'[q].claim].packet = q /\ Blocking(ledger'[row'[q].claim])
  <2>1. row'[q].claim = row[q].claim
    BY <1>2 DEF TypeOK
  <2>2. PICK a \in Attempts : a = row[q].claim /\ a # None
    BY <1>2, <2>1 DEF TypeOK, Review
  <2>3. attempt[a].packet = q /\ q # None /\ Blocking(ledger[a]) /\ ledger[a] \in Seq(Fact)
    BY <1>2, <2>2, NoneAssumption DEF TypeOK, RowsInv, ClaimIsOpen
  <2>4. attempt'[a].packet = q
    BY <2>3 DEF BindingsStay
  <2>5. Blocking(ledger'[a])
    <3>1. CASE ledger'[a] = ledger[a]
      BY <2>3, <3>1
    <3>2. ASSUME NEW fact \in Fact, ledger'[a] = Append(ledger[a], fact),
                 fact.kind # "not_sent_proven"
          PROVE  Blocking(ledger'[a])
      <4>1. Blocking(Append(ledger[a], fact))
        BY <2>3, <3>2, BlockingSurvives
      <4> QED
        BY <3>2, <4>1
    <3> QED
      BY <2>1, <2>2, <3>1, <3>2 DEF RecordsFacts
  <2> QED
    BY <2>1, <2>2, <2>4, <2>5
<1>3. ~ Outages => ClaimIsOpen'
  BY <1>2 DEF ClaimIsOpen
<1> QED
  BY <1>1, <1>3

\* Calls are left alone, go on with the review they hold, take an unclaimed row, or end.
CallMoves ==
  \A r \in Requests :
    \/ request'[r] = request[r] \/ request'[r] = IdleCall
    \/ /\ request'[r].packet = request[r].packet
       /\ request'[r].current = request[r].current
       /\ request'[r].kind = request[r].kind
    \/ \E p \in Packets :
         /\ request'[r].packet = p /\ request'[r].current = row[p]
         /\ Outages \/ row[p].claim = None
         /\ request'[r].kind = "approve" => row[p].status = "ready_for_final_approval"

LEMMA CallsStaySound ==
  ASSUME TypeOK, RowsInv, LedgerGrows, BindingsStay, CallMoves
  PROVE  \A r \in Requests : CallSound(r)'
<1> SUFFICES ASSUME NEW r \in Requests PROVE CallSound(r)'
  OBVIOUS
<1>p. PICK p \in Packets, current \in Review :
        p = request[r].packet /\ current = request[r].current
  BY DEF TypeOK, Call
<1>1. /\ Outages \/ current.claim = None
      /\ RowShape(current) /\ (Shown(current) => PacketConfirmed(p)')
      /\ request[r].kind = "approve" => current.status = "ready_for_final_approval"
  BY <1>p, ConfirmedStays DEF RowsInv, CallSound, ReviewSound
<1>2. CASE /\ request'[r].packet = p /\ request'[r].current = current
           /\ request'[r].kind = request[r].kind
  <2>1. PacketConfirmed(p)' => PacketConfirmed(request[r].packet)'
    BY <1>2 DEF PacketConfirmed, AttemptsOf
  <2> QED
    BY <1>p, <1>1, <1>2, <2>1 DEF CallSound, ReviewSound, RowShape, Shown
<1>3. CASE request'[r] = IdleCall
  BY <1>3 DEF CallSound, ReviewSound, RowShape, Shown, IdleCall, FreshReview, Underway
<1>4. ASSUME NEW q \in Packets, request'[r].packet = q, request'[r].current = row[q],
             Outages \/ row[q].claim = None,
             request'[r].kind = "approve" => row[q].status = "ready_for_final_approval"
      PROVE  CallSound(r)'
  <2>1. RowShape(row[q]) /\ (Shown(row[q]) => PacketConfirmed(q)')
    BY ConfirmedStays DEF RowsInv, ReviewSound
  <2>2. PacketConfirmed(q)' => PacketConfirmed(request[r].packet)'
    BY <1>4 DEF PacketConfirmed, AttemptsOf
  <2> QED
    BY <1>4, <2>1, <2>2 DEF CallSound, ReviewSound, RowShape, Shown
<1> QED
  BY <1>p, <1>2, <1>3, <1>4 DEF CallMoves

\* A process ends, throws, goes on, or takes a sound review.
ProcessMoves(w) ==
  \/ Finish(w)
  \/ \E c \in Causes : Throw(w, c)
  \/ \E s \in Steps \ {"preparing", "claimed"} : Goto(w, s)
  \/ \E s \in Steps, review \in Review :
       /\ GotoWith(w, s, review)
       /\ ReviewSound(review, worker[w].packet)
       /\ s = "preparing" => review.status = "preparing"
       /\ s = "claimed" => review.status = "submitting"

LEMMA ProcessesStaySound ==
  ASSUME TypeOK, RowsInv, LedgerGrows, BindingsStay,
         \/ UNCHANGED worker
         \/ \E w \in Workers : ProcessMoves(w)
         \/ \E w \in Workers, p \in Packets, s \in Steps \ {"preparing", "claimed"} :
              worker' = [worker EXCEPT ![w] = [pc |-> s, packet |-> p, snap |-> row[p],
                                               cause |-> "none"]]
  PROVE  \A v \in Workers : ProcessSound(v)'
<1>1. ASSUME NEW v \in Workers, NEW p \in Packets, NEW review,
             worker'[v].packet = p, worker'[v].snap = review, ReviewSound(review, p),
             worker'[v].pc = "preparing" => review.status = "preparing",
             worker'[v].pc = "claimed" => review.status = "submitting"
      PROVE  ProcessSound(v)'
  <2>1. RowShape(review) /\ (Shown(review) => PacketConfirmed(p)')
    BY <1>1, ConfirmedStays DEF ReviewSound
  <2>2. PacketConfirmed(p)' => PacketConfirmed(worker[v].packet)'
    BY <1>1 DEF PacketConfirmed, AttemptsOf
  <2> QED
    BY <1>1, <2>1, <2>2 DEF ProcessSound, ReviewSound, RowShape, Shown
<1>2. ASSUME NEW v \in Workers, worker'[v] = worker[v] PROVE ProcessSound(v)'
  <2>1. worker[v].packet \in Packets
    BY DEF TypeOK, Process
  <2> QED
    BY <1>1, <1>2, <2>1 DEF RowsInv, ProcessSound
<1>3. ASSUME NEW w \in Workers, ProcessMoves(w) PROVE \A v \in Workers : ProcessSound(v)'
  <2>1. \A v \in Workers \ {w} : worker'[v] = worker[v]
    BY <1>3 DEF TypeOK, ProcessMoves, Finish, Throw, Goto, GotoWith
  <2>2. worker[w] \in Process /\ worker[w].packet \in Packets /\ ProcessSound(w)
    BY DEF TypeOK, Process, RowsInv
  <2>3. CASE Finish(w)
    <3>1. worker'[w] = IdleProcess
      BY <2>3 DEF TypeOK, Finish
    <3> QED
      BY <1>2, <2>1, <3>1
         DEF ProcessSound, ReviewSound, RowShape, Shown, IdleProcess, FreshReview, Underway
  <2>4. CASE \/ \E c \in Causes : Throw(w, c)
             \/ \E s \in Steps \ {"preparing", "claimed"} : Goto(w, s)
    <3>1. /\ worker'[w].packet = worker[w].packet /\ worker'[w].snap = worker[w].snap
          /\ worker'[w].pc \notin {"preparing", "claimed"}
      BY <2>2, <2>4 DEF TypeOK, Throw, Goto, Process
    <3>2. ProcessSound(w)'
      BY <1>1, <2>2, <3>1 DEF ProcessSound
    <3> QED
      BY <1>2, <2>1, <3>2
  <2>5. ASSUME NEW s \in Steps, NEW review \in Review, GotoWith(w, s, review),
               ReviewSound(review, worker[w].packet),
               s = "preparing" => review.status = "preparing",
               s = "claimed" => review.status = "submitting"
        PROVE  ProcessSound(w)'
    <3>1. /\ worker'[w].packet = worker[w].packet /\ worker'[w].snap = review
          /\ worker'[w].pc = s
      BY <2>2, <2>5 DEF TypeOK, GotoWith, Process
    <3> QED
      BY <1>1, <2>2, <2>5, <3>1
  <2> QED
    BY <1>2, <1>3, <2>1, <2>3, <2>4, <2>5 DEF ProcessMoves
<1>4. ASSUME NEW w \in Workers, NEW p \in Packets, NEW s \in Steps \ {"preparing", "claimed"},
             worker' = [worker EXCEPT ![w] = [pc |-> s, packet |-> p, snap |-> row[p],
                                              cause |-> "none"]]
      PROVE  \A v \in Workers : ProcessSound(v)'
  <2>1. \A v \in Workers \ {w} : worker'[v] = worker[v]
    BY <1>4 DEF TypeOK
  <2>2. worker'[w].packet = p /\ worker'[w].snap = row[p] /\ worker'[w].pc = s
    BY <1>4 DEF TypeOK
  <2>3. ProcessSound(w)'
    BY <1>1, <2>2 DEF RowsInv
  <2> QED
    BY <1>2, <2>1, <2>3
<1> QED
  BY <1>2, <1>3, <1>4

\* The reviews the code writes keep the shape, and show nothing the one they were made
\* from did not.
LEMMA ShapesOfReviews ==
  ASSUME NEW review \in Review, RowShape(review)
  PROVE  /\ Outages \/ review.claim = None
              => LET parked == [review EXCEPT !.status = "needs_attention"]
                 IN RowShape(parked) /\ (Shown(parked) => Shown(review))
         /\ \A s : s \in Underway \cup {"needs_attention"}
                   /\ review.status \in Underway /\ review.claim = None
              => LET moved == [review EXCEPT !.status = s]
                 IN RowShape(moved) /\ (Shown(moved) => Shown(review))
         /\ \A s : \/ s \in Underway /\ review.status \in Underway
                   \/ s = "needs_attention"
              => LET moved == [review EXCEPT !.status = s, !.claim = None]
                 IN RowShape(moved) /\ (Shown(moved) => Shown(review))
         /\ \A a : review.status = "submitting"
              => LET moved == [review EXCEPT !.claim = a]
                 IN RowShape(moved) /\ (Shown(moved) => Shown(review))
         /\ RowShape(MarkUnverified(review)) /\ (Shown(MarkUnverified(review)) => Shown(review))
         /\ \A u : LET released == ReleaseTo(review, u)
                   IN RowShape(released) /\ (Shown(released) => Shown(review))
         /\ \A u : Outages \/ u # "not_sent" \/ review.claim = None
              => RowShape(MarkSubmitted(review, u))
         /\ RowShape([review EXCEPT !.status = "needs_attention", !.unv = "open",
                                    !.receipt = TRUE])
<1> USE DEF Review, RowShape, Shown
<1>1. Outages \/ review.claim = None
        => LET parked == [review EXCEPT !.status = "needs_attention"]
           IN RowShape(parked) /\ (Shown(parked) => Shown(review))
  BY DEF Underway
<1>2. \A s : s \in Underway \cup {"needs_attention"}
             /\ review.status \in Underway /\ review.claim = None
        => LET moved == [review EXCEPT !.status = s]
           IN RowShape(moved) /\ (Shown(moved) => Shown(review))
  BY DEF Underway
<1>3. \A s : \/ s \in Underway /\ review.status \in Underway
             \/ s = "needs_attention"
        => LET moved == [review EXCEPT !.status = s, !.claim = None]
           IN RowShape(moved) /\ (Shown(moved) => Shown(review))
  BY DEF Underway
<1>4. \A a : review.status = "submitting"
        => LET moved == [review EXCEPT !.claim = a]
           IN RowShape(moved) /\ (Shown(moved) => Shown(review))
  BY DEF Underway
<1>5. RowShape(MarkUnverified(review)) /\ (Shown(MarkUnverified(review)) => Shown(review))
  BY DEF Underway, MarkUnverified
<1>6. \A u : LET released == ReleaseTo(review, u)
             IN RowShape(released) /\ (Shown(released) => Shown(review))
  BY DEF Underway, ReleaseTo
<1>7. \A u : Outages \/ u # "not_sent" \/ review.claim = None
        => RowShape(MarkSubmitted(review, u))
  BY DEF Underway, MarkSubmitted
<1>8. RowShape([review EXCEPT !.status = "needs_attention", !.unv = "open",
                              !.receipt = TRUE])
  BY DEF Underway
<1> QED
  BY <1>1, <1>2, <1>3, <1>4, <1>5, <1>6, <1>7, <1>8

\* The applicant's answer and the release of a claim.
LEMMA ReleasedShape ==
  ASSUME NEW review \in Review, RowShape(review), NEW u, NEW released,
         released = ReleaseTo(review, u)
  PROVE  /\ RowShape(released) /\ (Shown(released) => Shown(review))
         /\ released.claim = None
<1>1. RowShape(ReleaseTo(review, u)) /\ (Shown(ReleaseTo(review, u)) => Shown(review))
  BY ShapesOfReviews
<1>2. ReleaseTo(review, u).claim = None
  BY ClaimsOfReviews
<1> QED
  BY <1>1, <1>2

LEMMA FailureShape ==
  ASSUME NEW review \in Review, RowShape(review), NEW cause \in Causes,
         NEW neverReached \in BOOLEAN
  PROVE  LET failed == FailureReview(review, cause, neverReached)
         IN RowShape(failed) /\ (Shown(failed) => Shown(review))
<1> DEFINE failed == FailureReview(review, cause, neverReached)
<1>1. CASE cause \in ReleasingStops
  BY <1>1 DEF FailureReview, PreClickRelease, Review, RowShape, Shown, Underway
<1>2. CASE cause \notin ReleasingStops
  <2>1. /\ failed.receipt = review.receipt
        /\ failed.status \in {"failed", "submit_requested", "needs_attention"}
        /\ failed.status = "submit_requested" => Outages
        /\ failed.claim # None
             => /\ failed.claim = review.claim /\ failed.status = "needs_attention"
                /\ failed.unv = review.unv \/ failed.unv = "open"
                /\ failed.unv # "none"
    BY <1>2, NoneAssumption DEF FailureReview, Review, Causes, ProvenStops, Unverified
  <2> HIDE DEF failed
  <2>2. Shown(failed) => Shown(review)
    BY <2>1 DEF Shown
  <2>3. RowShape(failed)
    BY <2>1 DEF RowShape, Underway
  <2> QED
    BY <2>2, <2>3 DEF failed
<1> QED
  BY <1>1, <1>2

\* A process's step that writes one row at most.
LEMMA OutcomeSound ==
  ASSUME TypeOK, BindingInv, RowsInv, RecordsFacts, BindingsStay,
         NEW w \in Workers, ProcessMoves(w), UNCHANGED request,
         NEW p \in Packets, NEW review,
         row' = [row EXCEPT ![p] = review] \/ UNCHANGED row,
         RowShape(review), Shown(review) => PacketConfirmed(p)',
         review.claim \in {None, row[p].claim}
  PROVE  RowsInv'
<1>1. LedgerGrows
  BY FactsGrow
<1>2. (\A q \in Packets : ReviewSound(row[q], q)') /\ (Outages \/ ClaimIsOpen')
  BY RowsStaySound
<1>3. \A v \in Workers : ProcessSound(v)'
  BY <1>1, ProcessesStaySound
<1>4. \A r \in Requests : CallSound(r)'
  BY <1>1, CallsStaySound DEF CallMoves
<1> QED
  BY <1>2, <1>3, <1>4 DEF RowsInv

\* A process's step that leaves every row alone.
LEMMA RowlessSound ==
  ASSUME TypeOK, BindingInv, RowsInv, RecordsFacts, BindingsStay,
         UNCHANGED <<row, request>>,
         \/ UNCHANGED worker
         \/ \E w \in Workers : ProcessMoves(w)
         \/ \E w \in Workers, p \in Packets, s \in Steps \ {"preparing", "claimed"} :
              worker' = [worker EXCEPT ![w] = [pc |-> s, packet |-> p, snap |-> row[p],
                                               cause |-> "none"]]
  PROVE  RowsInv'
<1>1. LedgerGrows
  BY FactsGrow
<1>2. PICK p \in Packets : TRUE
  BY PacketsAssumption
<1>3. RowShape(row[p]) /\ (Shown(row[p]) => PacketConfirmed(p)')
  BY <1>1, ConfirmedStays DEF RowsInv, ReviewSound
<1>4. (\A q \in Packets : ReviewSound(row[q], q)') /\ (Outages \/ ClaimIsOpen')
  BY <1>3, RowsStaySound
<1>5. \A v \in Workers : ProcessSound(v)'
  BY <1>1, ProcessesStaySound
<1>6. \A r \in Requests : CallSound(r)'
  BY <1>1, CallsStaySound DEF CallMoves
<1> QED
  BY <1>4, <1>5, <1>6 DEF RowsInv

\* A step of the applicant: calls move, and one row is written at most.
LEMMA CallSoundStep ==
  ASSUME TypeOK, BindingInv, RowsInv, RecordsFacts, BindingsStay, CallMoves,
         UNCHANGED worker,
         NEW p \in Packets, NEW review,
         row' = [row EXCEPT ![p] = review] \/ UNCHANGED row,
         RowShape(review), Shown(review) => PacketConfirmed(p)',
         Outages \/ review.claim \in {None, row[p].claim}
  PROVE  RowsInv'
<1>1. LedgerGrows
  BY FactsGrow
<1>2. (\A q \in Packets : ReviewSound(row[q], q)') /\ (Outages \/ ClaimIsOpen')
  BY RowsStaySound
<1>3. \A v \in Workers : ProcessSound(v)'
  BY <1>1, ProcessesStaySound
<1>4. \A r \in Requests : CallSound(r)'
  BY <1>1, CallsStaySound
<1> QED
  BY <1>2, <1>3, <1>4 DEF RowsInv

\* Once an attempt of the packet is confirmed, the packet is.
LEMMA ConfirmsPacket ==
  ASSUME TypeOK, NEW p \in Packets, NEW a \in Attempts,
         attempt[a].packet = p, UNCHANGED attempt, AppendFact(a, Confirmed)
  PROVE  PacketConfirmed(p)'
<1>1. ledger[a] \in Seq(Fact) /\ ledger'[a] = Append(ledger[a], Confirmed)
  BY DEF TypeOK, AppendFact
<1>2. Has(ledger'[a], "submission_confirmed")
  BY <1>1, FactTypes, HasAppended DEF Confirmed
<1> QED
  BY <1>2 DEF PacketConfirmed, AttemptsOf

LEMMA ConfirmationRecords ==
  ASSUME TypeOK, NEW a \in Attempts, AppendFact(a, Confirmed)
  PROVE  RecordsFacts
<1>1. Confirmed \in Fact /\ Confirmed.kind # "not_sent_proven"
  BY FactTypes DEF Confirmed
<1> QED
  BY <1>1, AppendRecords

\* The applicant's calls, her answers and the repairs, one by one.
LEMMA ApplicantRows ==
  ASSUME TypeOK, BindingInv, BindingInv', RowsInv, ApplicantNext
  PROVE  RowsInv'
<1> DEFINE checked == NotSent("applicant_checked_not_sent")
           stop == NotSent("typed_pre_click_stop")
<1>a. UNCHANGED <<attempt, worker>> /\ BindingsStay
  BY DEF ApplicantNext, RequestRead, RequestVerdict, RequestRefused, SubmitRequest,
         Approve, AnswerNotThere, AnswerFound, AnswerPacketNotThere,
         AnswerPacketFound, RepairOnLoad, RepairParked, CloseAbandoned, BindingsStay
<1>b. checked \in Fact /\ stop \in Fact
  BY FactTypes
<1>c. \A p \in Packets : /\ row[p] \in Review /\ RowShape(row[p])
                         /\ Shown(row[p]) => PacketConfirmed(p)
                         /\ p # None
  BY NoneAssumption DEF TypeOK, RowsInv, ReviewSound
<1> HIDE DEF checked, stop
<1>1. ASSUME NEW r \in Requests,
             \/ \E p \in Packets : \E kind \in {"submit", "approve"} :
                  RequestRead(r, p, kind)
             \/ RequestVerdict(r)
      PROVE  RowsInv'
  <2>1. RecordsFacts /\ UNCHANGED row
    BY <1>1 DEF RequestRead, RequestVerdict, RecordsFacts
  <2>2. CallMoves
    <3>1. ASSUME NEW p \in Packets, NEW kind \in {"submit", "approve"},
                 RequestRead(r, p, kind)
          PROVE  CallMoves
      <4>1. /\ request'[r].packet = p /\ request'[r].current = row[p]
            /\ request'[r].kind = kind
            /\ \A v \in Requests \ {r} : request'[v] = request[v]
        BY <3>1 DEF RequestRead, TypeOK
      <4>2. /\ Outages \/ row[p].claim = None
            /\ kind = "approve" => row[p].status = "ready_for_final_approval"
        BY <3>1, <1>c DEF RequestRead, StartAllowed, RowShape
      <4> QED
        BY <4>1, <4>2 DEF CallMoves
    <3>2. CASE RequestVerdict(r)
      <4>1. /\ request'[r].packet = request[r].packet
            /\ request'[r].current = request[r].current
            /\ request'[r].kind = request[r].kind
            /\ \A v \in Requests \ {r} : request'[v] = request[v]
        BY <3>2 DEF RequestVerdict, TypeOK, Call
      <4> QED
        BY <4>1 DEF CallMoves
    <3> QED
      BY <1>1, <3>1, <3>2
  <2>3. PICK p \in Packets : TRUE
    BY PacketsAssumption
  <2>4. Shown(row[p]) => PacketConfirmed(p)'
    BY <1>a, <1>c, <2>1, FactsGrow, ConfirmedStays
  <2> QED
    BY <1>a, <1>c, <2>1, <2>2, <2>4, CallSoundStep
<1>2. ASSUME NEW r \in Requests, RequestRefused(r) \/ SubmitRequest(r) \/ Approve(r)
      PROVE  RowsInv'
  <2>1. PICK p \in Packets, current \in Review :
          p = request[r].packet /\ current = request[r].current
    BY DEF TypeOK, Call
  <2>2. /\ RowShape(current) /\ (Outages \/ current.claim = None)
        /\ Shown(current) => PacketConfirmed(p)
        /\ request[r].kind = "approve" => current.status = "ready_for_final_approval"
    BY <2>1 DEF RowsInv, CallSound, ReviewSound
  <2>3. RecordsFacts /\ CallMoves
    BY <1>2 DEF RequestRefused, SubmitRequest, Approve, RecordsFacts, CallMoves, TypeOK
  <2>4. Shown(current) => PacketConfirmed(p)'
    BY <1>a, <2>2, <2>3, FactsGrow, ConfirmedStays
  <2>5. PICK review : /\ row' = [row EXCEPT ![p] = review] \/ UNCHANGED row
                      /\ RowShape(review) /\ (Shown(review) => Shown(current))
                      /\ Outages \/ review.claim = None
    <3>1. CASE RequestRefused(r)
      <4> DEFINE review == [current EXCEPT !.status = "needs_attention"]
      <4>1. RowShape(review) /\ (Shown(review) => Shown(current))
        BY <2>2, ShapesOfReviews
      <4>2. Outages \/ review.claim = None
        BY <2>2, ClaimsOfReviews
      <4>3. row' = [row EXCEPT ![p] = review] \/ UNCHANGED row
        BY <2>1, <3>1 DEF RequestRefused
      <4> QED
        BY <4>1, <4>2, <4>3
    <3>2. CASE SubmitRequest(r)
      <4> DEFINE review == [status |-> "submit_requested", run |-> runs[p] + 1,
                            claim |-> None, unv |-> "none", receipt |-> FALSE]
      <4>1. row' = [row EXCEPT ![p] = review] \/ UNCHANGED row
        BY <2>1, <3>2 DEF SubmitRequest
      <4>2. RowShape(review) /\ ~ Shown(review) /\ review.claim = None
        BY DEF RowShape, Shown
      <4> QED
        BY <4>1, <4>2
    <3>3. CASE Approve(r)
      <4> DEFINE review == [current EXCEPT !.status = "submitting", !.claim = None]
      <4>1. row' = [row EXCEPT ![p] = review] \/ UNCHANGED row
        BY <2>1, <3>3 DEF Approve
      <4>2. current.status = "ready_for_final_approval"
        BY <2>2, <3>3 DEF Approve
      <4>3. RowShape(review) /\ (Shown(review) => Shown(current))
        BY <2>2, <4>2, ShapesOfReviews DEF Underway
      <4>4. review.claim = None
        BY ClaimsOfReviews
      <4> QED
        BY <4>1, <4>3, <4>4
    <3> QED
      BY <1>2, <3>1, <3>2, <3>3
  <2> QED
    BY <1>a, <2>3, <2>4, <2>5, CallSoundStep
<1>3. ASSUME UNCHANGED request PROVE CallMoves
  BY <1>3 DEF CallMoves
<1>4. ASSUME NEW p \in Packets, AnswerNotThere(p) \/ RepairOnLoad(p) PROVE RowsInv'
  <2>1. PICK a \in Attempts : a = row[p].claim /\ attempt[a].packet = p
    BY <1>4, ClaimedAttempts DEF AnswerNotThere, RepairOnLoad, AsksAboutClaim, BindingInv, RowBound
  <2>2. PICK fact \in Fact : AppendFact(a, fact)
    BY <1>4, <1>b, <2>1 DEF AnswerNotThere, RepairOnLoad, checked, stop
  <2>3. PICK u : row' = [row EXCEPT ![p] = ReleaseTo(row[p], u)]
    BY <1>4 DEF AnswerNotThere, RepairOnLoad
  <2>4. PICK review : review = ReleaseTo(row[p], u)
    OBVIOUS
  <2>5. RowShape(review) /\ (Shown(review) => Shown(row[p])) /\ review.claim = None
    BY <1>c, <2>4, ReleasedShape
  <2>6. row'[p].claim # a
    BY <2>1, <2>3, <2>4, <2>5, NoneAssumption DEF TypeOK
  <2>7. \A q \in Packets : row'[q].claim # a
    BY <1>a, <2>1, <2>6, ReleasedClaims
  <2>8. RecordsFacts
    BY <2>2, <2>7, AppendRecords
  <2>9. Shown(row[p]) => PacketConfirmed(p)'
    BY <1>a, <1>c, <2>8, FactsGrow, ConfirmedStays
  <2>10. CallMoves
    BY <1>3, <1>4 DEF AnswerNotThere, RepairOnLoad
  <2> QED
    BY <1>a, <2>3, <2>4, <2>5, <2>8, <2>9, <2>10, CallSoundStep
<1>5. ASSUME NEW p \in Packets, AnswerFound(p) \/ AnswerPacketFound(p) PROVE RowsInv'
  <2>1. PICK a \in Attempts : attempt[a].packet = p /\ AppendFact(a, Confirmed)
    <3>1. CASE AnswerFound(p)
      BY <3>1, ClaimedAttempts DEF AnswerFound, AsksAboutClaim, BindingInv, RowBound
    <3>2. CASE AnswerPacketFound(p)
      BY <3>2 DEF AnswerPacketFound, AttemptsOf
    <3> QED
      BY <1>5, <3>1, <3>2
  <2>2. PICK review : review = MarkSubmitted(row[p], "sent")
    OBVIOUS
  <2>3. row' = [row EXCEPT ![p] = review]
    BY <1>5, <2>2 DEF AnswerFound, AnswerPacketFound
  <2>4. RowShape(review) /\ review.claim = row[p].claim
    BY <1>c, <2>2, ShapesOfReviews, ClaimsOfReviews
  <2>5. RecordsFacts /\ PacketConfirmed(p)'
    BY <1>a, <2>1, ConfirmationRecords, ConfirmsPacket
  <2>6. CallMoves
    BY <1>3, <1>5 DEF AnswerFound, AnswerPacketFound
  <2> QED
    BY <1>a, <2>3, <2>4, <2>5, <2>6, CallSoundStep
<1>6. ASSUME NEW p \in Packets, AnswerPacketNotThere(p) PROVE RowsInv'
  <2>1. \A a \in Attempts :
          \/ ledger'[a] = ledger[a]
          \/ attempt[a].packet = p /\ ledger'[a] = Append(ledger[a], checked)
    BY <1>6 DEF AnswerPacketNotThere, checked, AttemptsOf
  <2>2. PICK review : review = ReleaseTo(row[p], "not_sent")
    OBVIOUS
  <2>3. row' = [row EXCEPT ![p] = review]
    BY <1>6, <2>2 DEF AnswerPacketNotThere
  <2>4. RowShape(review) /\ (Shown(review) => Shown(row[p])) /\ review.claim = None
    BY <1>c, <2>2, ReleasedShape
  <2>5. row'[p].claim = None
    BY <2>3, <2>4 DEF TypeOK
  <2>6. RecordsFacts
    <3>1. ASSUME NEW a \in Attempts, attempt[a].packet = p
          PROVE  \A q \in Packets : row'[q].claim # a
      BY <1>a, <2>5, <3>1, ReleasedClaims, NoneAssumption
    <3> QED
      BY <1>b, <2>1, <3>1 DEF RecordsFacts
  <2>7. Shown(row[p]) => PacketConfirmed(p)'
    BY <1>a, <1>c, <2>6, FactsGrow, ConfirmedStays
  <2>8. CallMoves
    BY <1>3, <1>6 DEF AnswerPacketNotThere
  <2> QED
    BY <1>a, <2>3, <2>4, <2>6, <2>7, <2>8, CallSoundStep
<1>7. ASSUME NEW p \in Packets, RepairParked(p) PROVE RowsInv'
  <2>1. PICK review : review = MarkSubmitted(row[p], "sent")
    OBVIOUS
  <2>2. row' = [row EXCEPT ![p] = review] /\ Shown(row[p])
    BY <1>7, <2>1 DEF RepairParked, Shown
  <2>3. RowShape(review) /\ review.claim = row[p].claim
    BY <1>c, <2>1, ShapesOfReviews, ClaimsOfReviews
  <2>4. RecordsFacts /\ CallMoves
    BY <1>3, <1>7 DEF RepairParked, RecordsFacts
  <2>5. PacketConfirmed(p)'
    BY <1>a, <1>c, <2>2, <2>4, FactsGrow, ConfirmedStays
  <2> QED
    BY <1>a, <2>2, <2>3, <2>4, <2>5, CallSoundStep
<1>8. ASSUME NEW a \in Attempts, CloseAbandoned(a) PROVE RowsInv'
  <2>1. PICK p \in Packets : p = attempt[a].packet
    BY <1>8 DEF CloseAbandoned, TypeOK, Binding
  <2>2. /\ AppendFact(a, stop) /\ UNCHANGED <<row, request>> /\ row[p].claim # a
    BY <1>8, <2>1 DEF CloseAbandoned, stop
  <2>3. \A q \in Packets : row'[q].claim # a
    BY <1>a, <2>1, <2>2, ReleasedClaims
  <2>4. RecordsFacts
    BY <1>b, <2>2, <2>3, AppendRecords
  <2>5. Shown(row[p]) => PacketConfirmed(p)'
    BY <1>a, <1>c, <2>4, FactsGrow, ConfirmedStays
  <2> QED
    BY <1>a, <1>c, <1>3, <2>2, <2>4, <2>5, CallSoundStep
<1> QED
  BY <1>1, <1>2, <1>4, <1>5, <1>6, <1>7, <1>8 DEF ApplicantNext

\* The employer's mail and stored response confirm the attempt the row carries.
LEMMA EvidenceRows ==
  ASSUME TypeOK, BindingInv, RowsInv, EvidenceNext
  PROVE  RowsInv'
<1>1. PICK p \in Packets : MailConfirms(p) \/ StoredResponseConfirms(p)
  BY DEF EvidenceNext
<1>2. PICK a \in Attempts : /\ a = row[p].claim /\ attempt[a].packet = p
                            /\ AppendFact(a, Confirmed)
  BY <1>1, ClaimedAttempts DEF MailConfirms, StoredResponseConfirms, BindingInv, RowBound
<1>3. UNCHANGED <<attempt, worker, request>> /\ BindingsStay /\ CallMoves
  BY <1>1 DEF MailConfirms, StoredResponseConfirms, BindingsStay, CallMoves
<1>4. row[p] \in Review /\ RowShape(row[p]) /\ row[p].claim # None
  BY <1>2, NoneAssumption DEF TypeOK, RowsInv, ReviewSound
<1>5. PICK u : /\ row' = [row EXCEPT ![p] = MarkSubmitted(row[p], u)]
               /\ Outages \/ u # "not_sent"
  BY <1>1, <1>4 DEF MailConfirms, StoredResponseConfirms, RowShape
<1>6. PICK review : review = MarkSubmitted(row[p], u)
  OBVIOUS
<1>7. RowShape(review) /\ review.claim = row[p].claim
  BY <1>4, <1>5, <1>6, ShapesOfReviews, ClaimsOfReviews
<1>8. RecordsFacts /\ PacketConfirmed(p)'
  BY <1>2, <1>3, ConfirmationRecords, ConfirmsPacket
<1> QED
  BY <1>3, <1>5, <1>6, <1>7, <1>8, CallSoundStep

\* A process that only moves, having recorded no closing fact.
LEMMA MovedRows ==
  ASSUME TypeOK, BindingInv, RowsInv, NEW w \in Workers, ProcessMoves(w),
         UNCHANGED <<row, attempt, request>>,
         \/ UNCHANGED ledger
         \/ \E a \in Attempts : AppendPressOnce(a, TRUE) \/ AppendPressOnce(a, FALSE)
  PROVE  RowsInv'
<1>1. Pressed \in Fact /\ Pressed.kind # "not_sent_proven"
  BY FactTypes DEF Pressed
<1>2. RecordsFacts
  <2>1. CASE UNCHANGED ledger
    BY <2>1 DEF RecordsFacts
  <2>2. ASSUME NEW a \in Attempts, AppendPressOnce(a, TRUE) \/ AppendPressOnce(a, FALSE)
        PROVE  RecordsFacts
    <3>1. AppendFact(a, Pressed) \/ UNCHANGED ledger
      BY <2>2 DEF AppendPressOnce
    <3> QED
      BY <1>1, <3>1, AppendRecords
  <2> QED
    BY <2>1, <2>2
<1>3. BindingsStay
  BY DEF BindingsStay
<1> QED
  BY <1>2, <1>3, RowlessSound

\* Outcomes that close the attempt of the row they release.
LEMMA ClosingRows ==
  ASSUME TypeOK, BindingInv, BindingInv', RowsInv, NEW w \in Workers, Finish(w),
         UNCHANGED <<attempt, request>>,
         NEW p \in Packets, NEW review,
         row' = [row EXCEPT ![p] = review],
         RowShape(review), Shown(review) => PacketConfirmed(p), review.claim = None,
         NEW a \in Attempts, attempt[a].packet = p,
         NEW proof, NotSent(proof) \in Fact, AppendFact(a, NotSent(proof))
  PROVE  RowsInv'
<1>1. row'[p].claim # a
  BY NoneAssumption DEF TypeOK
<1>2. \A q \in Packets : row'[q].claim # a
  BY <1>1, ReleasedClaims
<1>3. RecordsFacts /\ BindingsStay
  BY <1>2, AppendRecords DEF BindingsStay
<1>4. Shown(review) => PacketConfirmed(p)'
  BY <1>3, FactsGrow, ConfirmedStays
<1> QED
  BY <1>3, <1>4, OutcomeSound DEF ProcessMoves

\* Outcomes that write a row and record nothing.
LEMMA WrittenRows ==
  ASSUME TypeOK, BindingInv, RowsInv, NEW w \in Workers, ProcessMoves(w),
         UNCHANGED <<ledger, attempt, request>>,
         NEW p \in Packets, NEW review,
         row' = [row EXCEPT ![p] = review] \/ UNCHANGED row,
         RowShape(review), Shown(review) => PacketConfirmed(p),
         review.claim \in {None, row[p].claim}
  PROVE  RowsInv'
<1>1. RecordsFacts /\ BindingsStay
  BY DEF RecordsFacts, BindingsStay
<1>2. Shown(review) => PacketConfirmed(p)'
  BY <1>1, FactsGrow, ConfirmedStays
<1> QED
  BY <1>1, <1>2, OutcomeSound

\* The claim: the attempt is new, so its opening fact is its only one.
LEMMA ClaimRows ==
  ASSUME TypeOK, BindingInv, RowsInv, NEW w \in Workers, NEW b \in Attempts,
         ClaimSubmission(w, b)
  PROVE  RowsInv'
<1>1. PICK p \in Packets, snap \in Review : p = worker[w].packet /\ snap = worker[w].snap
  BY DEF TypeOK, Process
<1>2. PICK claimed : claimed = [snap EXCEPT !.claim = b]
  OBVIOUS
<1>3. /\ attempt[b].packet = None
      /\ attempt' = [attempt EXCEPT ![b] = [packet |-> p, openedAt |-> now, lease |-> 0]]
      /\ AppendFact(b, Opened)
      /\ row' = [row EXCEPT ![p] = claimed]
      /\ GotoWith(w, "claimed", claimed)
      /\ UNCHANGED request
      /\ snap.status = "submitting" /\ snap.claim = None /\ row[p] = snap
  BY <1>1, <1>2 DEF ClaimSubmission, Submitting, MayClaim
<1>4. RowShape(snap) /\ (Shown(snap) => PacketConfirmed(p))
  BY <1>1 DEF RowsInv, ProcessSound, ReviewSound
<1>5. RowShape(claimed) /\ (Shown(claimed) => PacketConfirmed(p)) /\ claimed.claim = b /\ claimed \in Review
      /\ claimed.status = "submitting"
  <2>1. /\ RowShape([snap EXCEPT !.claim = b])
        /\ Shown([snap EXCEPT !.claim = b]) => PacketConfirmed(p)
    BY <1>3, <1>4, ShapesOfReviews
  <2>2. [snap EXCEPT !.claim = b].claim = b
    BY ClaimsOfReviews
  <2>3. [snap EXCEPT !.claim = b] \in Review
    BY ReviewTypes
  <2>4. claimed.status = "submitting"
    BY <1>2, <1>3 DEF Review
  <2> QED
    BY <1>2, <2>1, <2>2, <2>3, <2>4
<1>6. RecordsFacts
  BY <1>3, FactTypes, AppendRecords DEF Opened
<1>7. LedgerGrows
  BY <1>6, FactsGrow
<1>8. BindingsStay /\ attempt'[b].packet = p
  BY <1>3 DEF BindingsStay, TypeOK
<1>9. Blocking(ledger'[b])
  <2>1. ledger[b] = << >> /\ ledger'[b] = Append(ledger[b], Opened)
    BY <1>3 DEF BindingInv, AttemptBound, AppendFact, TypeOK
  <2>2. ledger[b] \in Seq(Fact)
    BY DEF TypeOK
  <2>3. ledger'[b] # << >> /\ ~ Has(ledger'[b], "not_sent_proven")
    <3>1. ~ Has(<< >>, "not_sent_proven")
      BY DEF Has
    <3>2. ~ Has(ledger[b], "not_sent_proven")
      BY <2>1, <3>1
    <3>3. PICK opened \in Fact : opened = Opened /\ opened.kind # "not_sent_proven"
      BY FactTypes DEF Opened
    <3>4. /\ Append(ledger[b], opened) # << >>
          /\ ~ Has(Append(ledger[b], opened), "not_sent_proven")
      BY <2>2, <3>2, <3>3, AppendedFacts, HasAppended
    <3> QED
      BY <2>1, <3>3, <3>4
  <2>4. ledger'[b] \in Seq(Fact)
    BY <2>1, <2>2, FactTypes, AppendedFacts
  <2> QED
    BY <2>3, <2>4, BlockingMeans
<1>10. ASSUME NEW q \in Packets, q # p
       PROVE  ReviewSound(row[q], q)' /\ row'[q] = row[q]
  <2>1. row'[q] = row[q]
    BY <1>3, <1>10 DEF TypeOK
  <2>2. RowShape(row[q]) /\ (Shown(row[q]) => PacketConfirmed(q)')
    BY <1>7, <1>8, ConfirmedStays DEF RowsInv, ReviewSound
  <2> QED
    BY <2>1, <2>2 DEF ReviewSound, RowShape, Shown
<1>11. row'[p] = claimed
  BY <1>3 DEF TypeOK
<1>12. \A q \in Packets : ReviewSound(row[q], q)'
  <2>1. ReviewSound(row[p], p)'
    <3>1. Shown(claimed) => PacketConfirmed(p)'
      BY <1>5, <1>7, <1>8, ConfirmedStays
    <3> QED
      BY <1>5, <1>11, <3>1 DEF ReviewSound, RowShape, Shown
  <2> QED
    BY <2>1, <1>10
<1>13. Outages \/ ClaimIsOpen'
  <2>1. ASSUME ~ Outages, NEW q \in Packets, row'[q].claim # None, q # p
        PROVE  attempt'[row'[q].claim].packet = q /\ Blocking(ledger'[row'[q].claim])
    <3>1. PICK c \in Attempts : c = row[q].claim /\ c = row'[q].claim
      BY <1>10, <2>1 DEF TypeOK, Review
    <3>2. attempt[c].packet = q /\ Blocking(ledger[c]) /\ q # None
      BY <1>10, <2>1, <3>1, NoneAssumption DEF RowsInv, ClaimIsOpen
    <3>3. c # b
      BY <1>3, <3>2
    <3>4. ledger'[c] = ledger[c] /\ attempt'[c].packet = q
      BY <1>3, <1>8, <3>2, <3>3 DEF AppendFact, TypeOK, BindingsStay
    <3>5. Blocking(ledger'[c])
      BY <3>2, <3>4
    <3> QED
      BY <3>1, <3>4, <3>5
  <2>2. attempt'[row'[p].claim].packet = p /\ Blocking(ledger'[row'[p].claim])
    <3>1. row'[p].claim = b
      BY <1>5, <1>11
    <3> QED
      BY <3>1, <1>8, <1>9
  <2>3. ASSUME ~ Outages, NEW q \in Packets, row'[q].claim # None
        PROVE  attempt'[row'[q].claim].packet = q /\ Blocking(ledger'[row'[q].claim])
    <3>1. CASE q = p
      BY <2>2, <3>1
    <3>2. CASE q # p
      BY <2>1, <2>3, <3>2
    <3> QED
      BY <3>1, <3>2
  <2>4. ~ Outages => ClaimIsOpen'
    BY <2>3 DEF ClaimIsOpen
  <2> QED
    BY <2>4
<1>14. \A v \in Workers : ProcessSound(v)'
  <2>1. ReviewSound(claimed, worker[w].packet)
    BY <1>1, <1>5 DEF ReviewSound
  <2>2. ProcessMoves(w)
    BY <1>3, <1>5, <2>1 DEF ProcessMoves, Steps
  <2> QED
    BY <1>7, <1>8, <2>2, ProcessesStaySound
<1>15. \A r \in Requests : CallSound(r)'
  BY <1>3, <1>7, <1>8, CallsStaySound DEF CallMoves
<1> QED
  BY <1>12, <1>13, <1>14, <1>15 DEF RowsInv

\* The runner's steps, one by one.
LEMMA WorkerRows ==
  ASSUME TypeOK, BindingInv, BindingInv', RowsInv, NEW w \in Workers, WorkerStep(w)
  PROVE  RowsInv'
<1>1. PICK p \in Packets, snap \in Review :
        p = worker[w].packet /\ snap = worker[w].snap
  BY DEF TypeOK, Process
<1>2. /\ RowShape(snap) /\ (Shown(snap) => PacketConfirmed(p))
      /\ worker[w].pc = "preparing" => snap.status = "preparing"
      /\ worker[w].pc = "claimed" => snap.status = "submitting"
  BY <1>1 DEF RowsInv, ProcessSound, ReviewSound
<1>3. /\ row[p] \in Review /\ RowShape(row[p])
      /\ Shown(row[p]) => PacketConfirmed(p)
  BY DEF TypeOK, RowsInv, ReviewSound
<1>4. ClaimOf(w) = snap.claim
  BY <1>1 DEF ClaimOf
<1>5. \A s \in StopStatuses \cup {"submitting"} : s \in Underway \cup {"needs_attention"}
  BY StopAssumption DEF Underway
<1>6. \A review \in Review : \A s :
        LET held == [review EXCEPT !.status = s, !.claim = None]
        IN /\ held.claim = None
           /\ RowShape(review) /\ (\/ s \in Underway /\ review.status \in Underway
                                   \/ s = "needs_attention")
                => RowShape(held) /\ (Shown(held) => Shown(review))
  <2>1. ASSUME NEW review \in Review, NEW s
        PROVE  [review EXCEPT !.status = s, !.claim = None].claim = None
    BY ClaimsOfReviews
  <2>2. ASSUME NEW review \in Review, NEW s, RowShape(review),
               \/ s \in Underway /\ review.status \in Underway
               \/ s = "needs_attention"
        PROVE  LET held == [review EXCEPT !.status = s, !.claim = None]
               IN RowShape(held) /\ (Shown(held) => Shown(review))
    BY <2>2, ShapesOfReviews
  <2> QED
    BY <2>1, <2>2
<1>7. CASE ClaimPreparation(w)
  <2>1. PICK claimed : claimed = [snap EXCEPT !.status = "preparing", !.claim = None]
    OBVIOUS
  <2>2. snap.status = "submit_requested"
    BY <1>1, <1>7 DEF ClaimPreparation
  <2>3. RowShape(claimed) /\ (Shown(claimed) => Shown(snap)) /\ claimed.claim = None
    BY <1>2, <1>6, <2>1, <2>2 DEF Underway
  <2>4. claimed \in Review /\ claimed.status = "preparing"
    <3>1. claimed \in Review
      BY <2>1, ReviewTypes DEF Statuses
    <3> QED
      BY <2>1, <3>1 DEF Review
  <2>5. row' = [row EXCEPT ![p] = claimed] \/ UNCHANGED row
    BY <1>1, <1>7, <2>1 DEF ClaimPreparation
  <2>6. ProcessMoves(w)
    <3>1. GotoWith(w, "preparing", claimed) \/ Finish(w)
      BY <1>1, <1>7, <2>1 DEF ClaimPreparation
    <3>2. ReviewSound(claimed, worker[w].packet)
      BY <1>1, <1>2, <2>3 DEF ReviewSound
    <3> QED
      BY <2>4, <3>1, <3>2 DEF ProcessMoves, Steps
  <2>7. UNCHANGED <<ledger, attempt, request>>
    BY <1>7 DEF ClaimPreparation
  <2> QED
    BY <1>2, <2>3, <2>5, <2>6, <2>7, WrittenRows
<1>8. CASE Reload(w)
  <2>1. GotoWith(w, "loaded", row[p]) \/ Finish(w)
    BY <1>1, <1>8 DEF Reload
  <2>2. ReviewSound(row[p], worker[w].packet)
    BY <1>1, <1>3 DEF ReviewSound
  <2>3. ProcessMoves(w)
    BY <1>3, <2>1, <2>2 DEF ProcessMoves, Steps
  <2> QED
    BY <1>8, <2>3, MovedRows DEF Reload
<1>9. ASSUME NEW s \in StopStatuses \cup {"submitting"}, PrepareParks(w, s)
      PROVE  RowsInv'
  <2>1. PICK review : review = [snap EXCEPT !.status = s]
    OBVIOUS
  <2>2. snap.status = "preparing" /\ snap.claim = None
    BY <1>2, <1>9 DEF PrepareParks, At, RowShape
  <2>3. RowShape(review) /\ (Shown(review) => PacketConfirmed(p)) /\ review.claim = None
    <3>1. /\ RowShape([snap EXCEPT !.status = s])
          /\ Shown([snap EXCEPT !.status = s]) => Shown(snap)
      <4>1. snap.status \in Underway
        BY <2>2 DEF Underway
      <4> QED
        BY <1>2, <1>5, <2>2, <4>1, ShapesOfReviews
    <3>2. [snap EXCEPT !.status = s].claim = None
      BY <2>2, ClaimsOfReviews
    <3> QED
      BY <1>2, <2>1, <3>1, <3>2
  <2>4. row' = [row EXCEPT ![p] = review] \/ UNCHANGED row
    BY <1>1, <1>9, <2>1 DEF PrepareParks, WriteReview
  <2>5. ProcessMoves(w) /\ UNCHANGED <<ledger, attempt, request>>
    BY <1>9 DEF PrepareParks, ProcessMoves, Steps
  <2> QED
    BY <2>3, <2>4, <2>5, WrittenRows
<1>10. ASSUME NEW s \in StopStatuses, HoldBeforeClaim(w, s) \/ StopBeforeBoundary(w, s)
       PROVE  RowsInv'
  <2>1. PICK review : review = [snap EXCEPT !.status = s, !.claim = None]
    OBVIOUS
  <2>2. review.claim = None
    BY <1>6, <2>1
  <2>3. snap.status = "submitting" \/ s = "needs_attention"
    BY <1>1, <1>2, <1>10 DEF HoldBeforeClaim, StopBeforeBoundary, Submitting, At
  <2>4. RowShape(review) /\ (Shown(review) => PacketConfirmed(p))
    BY <1>2, <1>5, <1>6, <2>1, <2>3 DEF Underway
  <2>5. Finish(w) /\ UNCHANGED <<attempt, request>>
    BY <1>10 DEF HoldBeforeClaim, StopBeforeBoundary
  <2>6. CASE UNCHANGED ledger
    <3>1. row' = [row EXCEPT ![p] = review] \/ UNCHANGED row
      BY <1>1, <1>10, <2>1 DEF HoldBeforeClaim, StopBeforeBoundary, WriteReview
    <3> QED
      BY <2>2, <2>4, <2>5, <2>6, <3>1, WrittenRows DEF ProcessMoves
  <2>7. CASE ~ UNCHANGED ledger
    <3>1. PICK a \in Attempts : a = snap.claim /\ attempt[a].packet = p
      BY <1>1, <1>4, <1>10, <2>7, WorkersAttempts
         DEF HoldBeforeClaim, StopBeforeBoundary, At, BoundSteps
    <3>2. /\ row' = [row EXCEPT ![p] = review]
          /\ AppendFact(a, NotSent("typed_pre_click_stop"))
      BY <1>1, <1>4, <1>10, <2>1, <2>7, <3>1 DEF HoldBeforeClaim, StopBeforeBoundary
    <3>3. NotSent("typed_pre_click_stop") \in Fact
      BY FactTypes
    <3> QED
      BY <2>2, <2>4, <2>5, <3>1, <3>2, <3>3, ClosingRows
  <2> QED
    BY <2>6, <2>7
<1>11. ASSUME NEW c, EarlyThrow(w, c) PROVE RowsInv'
  <2>1. ProcessMoves(w)
    BY <1>11, EarlyCauses DEF ProcessMoves
  <2> QED
    BY <1>11, <2>1, MovedRows
       DEF EarlyThrow, PrepareThrows, ThrowBeforeBoundary, CallStopped
<1>12. ASSUME NEW b \in Attempts, ClaimSubmission(w, b) PROVE RowsInv'
  BY <1>12, ClaimRows
<1>13. CASE Authorize(w)
  <2>1. PICK a \in Attempts : a = ClaimOf(w)
    BY <1>13, WorkersAttempts DEF Authorize, At, BoundSteps
  <2>2. /\ AppendFact(a, Authorized) /\ Goto(w, "authorized") /\ UNCHANGED <<row, request>>
        /\ attempt' = [attempt EXCEPT ![a].lease = now + LeaseTTL]
    BY <1>13, <2>1 DEF Authorize
  <2>3. RecordsFacts
    BY <2>2, FactTypes, AppendRecords DEF Authorized
  <2>4. BindingsStay
    BY <2>2 DEF BindingsStay, TypeOK, Binding
  <2>5. ProcessMoves(w)
    BY <2>2 DEF ProcessMoves, Steps
  <2> QED
    BY <2>2, <2>3, <2>4, <2>5, RowlessSound
<1>14. CASE \/ ClaimLost(w) \/ AuthorizeRefused(w) \/ CallProvider(w) \/ CallRefused(w)
            \/ RecoverPending(w) \/ NoSubmitControl(w) \/ ReadReceipt(w)
            \/ ThrowAfterBoundary(w)
  <2>1. UNCHANGED <<row, ledger, attempt, request>>
    BY <1>14 DEF ClaimLost, AuthorizeRefused, CallProvider, CallRefused, RecoverPending,
                 NoSubmitControl, ReadReceipt, ThrowAfterBoundary
  <2>2. \/ Finish(w) \/ \E c \in Causes : Throw(w, c)
        \/ \E s \in Steps \ {"preparing", "claimed"} : Goto(w, s)
    BY <1>14 DEF ClaimLost, AuthorizeRefused, CallProvider, CallRefused, RecoverPending,
                 NoSubmitControl, ReadReceipt, ThrowAfterBoundary, Causes, Steps
  <2> QED
    BY <2>1, <2>2, MovedRows DEF ProcessMoves
<1>15. ASSUME NEW accepted \in BOOLEAN, ClickFinalSubmit(w, accepted) PROVE RowsInv'
  <2>1. UNCHANGED <<row, ledger, attempt, request>> /\ Goto(w, "clicked")
    BY <1>15 DEF ClickFinalSubmit
  <2>2. ProcessMoves(w)
    BY <2>1 DEF ProcessMoves, Steps
  <2> QED
    BY <2>1, <2>2, MovedRows
<1>16. ASSUME NEW reported \in BOOLEAN,
              NEW s \in {"confirming", "refusing", "unverifying"},
              \/ CallLost(w, reported) \/ RecordPress(w)
              \/ ReceiveAnswer(w, s, reported) \/ RecoverResult(w, s, reported)
       PROVE  RowsInv'
  <2>1. PICK a \in Attempts : a = ClaimOf(w)
    BY <1>16, WorkersAttempts
       DEF CallLost, RecordPress, ReceiveAnswer, RecoverResult, At, BoundSteps
  <2>2. /\ UNCHANGED <<row, attempt, request>>
        /\ AppendPressOnce(a, TRUE) \/ AppendPressOnce(a, FALSE)
    BY <1>16, <2>1 DEF CallLost, RecordPress, ReceiveAnswer, RecoverResult
  <2>3. \E t \in Steps \ {"preparing", "claimed"} : Goto(w, t)
    BY <1>16 DEF CallLost, RecordPress, ReceiveAnswer, RecoverResult, Steps
  <2> QED
    BY <2>2, <2>3, MovedRows DEF ProcessMoves
<1>17. ASSUME NEW parked \in BOOLEAN, RecordConfirmed(w, parked) PROVE RowsInv'
  <2>1. PICK a \in Attempts : a = ClaimOf(w) /\ attempt[a].packet = p
    BY <1>1, <1>17, WorkersAttempts DEF RecordConfirmed, At, BoundSteps
  <2>2. Finish(w) /\ UNCHANGED <<attempt, request>> /\ BindingsStay
    BY <1>17 DEF RecordConfirmed, BindingsStay
  <2>3. RecordsFacts /\ PacketConfirmed(p)'
    <3>1. CASE AppendFact(a, Confirmed)
      BY <2>1, <2>2, <3>1, ConfirmationRecords, ConfirmsPacket
    <3>2. CASE UNCHANGED ledger /\ Has(ledger[a], "submission_confirmed")
      <4>1. RecordsFacts /\ PacketConfirmed(p)
        BY <2>1, <3>2 DEF RecordsFacts, PacketConfirmed, AttemptsOf
      <4> QED
        BY <2>2, <4>1, FactsGrow, ConfirmedStays
    <3> QED
      BY <1>17, <2>1, <3>1, <3>2 DEF RecordConfirmed, AppendConfirmationOnce
  <2>4. PICK review : row' = [row EXCEPT ![p] = review] /\ RowShape(review)
                      /\ review.claim = row[p].claim
    <3>1. CASE parked
      <4>1. PICK review : review = [row[p] EXCEPT !.status = "needs_attention",
                                                  !.unv = "open", !.receipt = TRUE]
        OBVIOUS
      <4>2. row' = [row EXCEPT ![p] = review]
        BY <1>1, <1>17, <3>1, <4>1 DEF RecordConfirmed
      <4>3. RowShape(review)
        BY <1>3, <4>1, ShapesOfReviews
      <4>4. review.claim = row[p].claim
        BY <1>3, <4>1, ClaimsOfReviews
      <4> QED
        BY <4>2, <4>3, <4>4
    <3>2. CASE ~ parked
      <4>1. PICK u : u = (IF row[p].unv = "none" THEN "none" ELSE "sent")
        OBVIOUS
      <4>2. PICK review : review = MarkSubmitted(row[p], u)
        OBVIOUS
      <4>3. row' = [row EXCEPT ![p] = review]
        BY <1>1, <1>17, <3>2, <4>1, <4>2 DEF RecordConfirmed
      <4>4. RowShape(review)
        <5>1. u # "not_sent"
          BY <4>1
        <5> QED
          BY <1>3, <4>2, <5>1, ShapesOfReviews
      <4>5. review.claim = row[p].claim
        BY <1>3, <4>2, ClaimsOfReviews
      <4> QED
        BY <4>3, <4>4, <4>5
    <3> QED
      BY <3>1, <3>2
  <2> QED
    BY <2>2, <2>3, <2>4, OutcomeSound DEF ProcessMoves
<1>18. CASE RecordRefused(w)
  <2>1. PICK a \in Attempts : a = ClaimOf(w) /\ attempt[a].packet = p
    BY <1>1, <1>18, WorkersAttempts DEF RecordRefused, At, BoundSteps
  <2>2. PICK review : review = ReleaseTo(row[p], "none")
    OBVIOUS
  <2>3. RowShape(review) /\ (Shown(review) => Shown(row[p])) /\ review.claim = None
    BY <1>3, <2>2, ReleasedShape
  <2>4. Finish(w) /\ UNCHANGED <<attempt, request>>
    BY <1>18 DEF RecordRefused
  <2>5. CASE /\ row' = [row EXCEPT ![p] = review]
             /\ AppendFact(a, NotSent("employer_rejected_not_filed"))
    BY <1>3, <2>1, <2>3, <2>4, <2>5, FactTypes, ClosingRows
  <2>6. CASE UNCHANGED <<ledger, row>>
    BY <2>4, <2>6, MovedRows DEF ProcessMoves
  <2> QED
    BY <1>1, <1>18, <2>1, <2>2, <2>5, <2>6 DEF RecordRefused
<1>19. CASE RecordUnverified(w)
  <2>1. PICK review : review = MarkUnverified(row[p])
    OBVIOUS
  <2>2. row' = [row EXCEPT ![p] = review] \/ UNCHANGED row
    BY <1>1, <1>19, <2>1 DEF RecordUnverified
  <2>3. RowShape(review) /\ (Shown(review) => Shown(row[p]))
    BY <1>3, <2>1, ShapesOfReviews
  <2>4. review.claim = row[p].claim
    BY <1>3, <2>1, ClaimsOfReviews
  <2>5. Finish(w) /\ UNCHANGED <<ledger, attempt, request>>
    BY <1>19 DEF RecordUnverified
  <2> QED
    BY <1>3, <2>2, <2>3, <2>4, <2>5, WrittenRows DEF ProcessMoves
<1>20. CASE RecordFailure(w)
  <2>1. PICK neverReached \in BOOLEAN :
          neverReached = (snap.claim # None /\ NeverCrossedBoundary(snap.claim))
    OBVIOUS
  <2>2. PICK failed : failed = FailureReview(row[p], worker[w].cause, neverReached)
    OBVIOUS
  <2>3. PICK parked : parked = MarkUnverified(row[p])
    OBVIOUS
  <2>4. /\ RowShape(failed) /\ (Shown(failed) => PacketConfirmed(p))
        /\ failed.claim \in {None, row[p].claim}
    <3>1. PICK cause \in Causes : cause = worker[w].cause
      BY DEF TypeOK, Process
    <3>2. /\ RowShape(FailureReview(row[p], cause, neverReached))
          /\ Shown(FailureReview(row[p], cause, neverReached)) => Shown(row[p])
      BY <1>3, FailureShape
    <3>3. FailureReview(row[p], cause, neverReached).claim \in {None, row[p].claim}
      BY <1>3, ClaimsOfReviews
    <3> QED
      BY <1>3, <2>2, <3>1, <3>2, <3>3
  <2>5. /\ RowShape(parked) /\ (Shown(parked) => PacketConfirmed(p))
        /\ parked.claim = row[p].claim
    <3>1. RowShape(MarkUnverified(row[p])) /\ (Shown(MarkUnverified(row[p])) => Shown(row[p]))
      BY <1>3, ShapesOfReviews
    <3>2. MarkUnverified(row[p]).claim = row[p].claim
      BY <1>3, ClaimsOfReviews
    <3> QED
      BY <1>3, <2>3, <3>1, <3>2
  <2>6. Finish(w) /\ UNCHANGED <<attempt, request>>
    BY <1>20 DEF RecordFailure
  <2>7. CASE MayRecordFailure(p, snap) /\ snap.claim # None /\ failed.claim = None
    <3>1. PICK a \in Attempts : a = snap.claim /\ attempt[a].packet = p
      BY <1>1, <2>7 DEF Review, BindingInv, WorkerBound
    <3>2. /\ row' = [row EXCEPT ![p] = failed]
          /\ \E proof \in NotSentProofs : AppendFact(a, NotSent(proof))
      BY <1>1, <1>20, <2>1, <2>2, <2>7, <3>1, FactTypes DEF RecordFailure
    <3>3. \A proof \in NotSentProofs : NotSent(proof) \in Fact
      BY FactTypes
    <3> QED
      BY <2>4, <2>6, <2>7, <3>1, <3>2, <3>3, ClosingRows
  <2>8. CASE ~ (MayRecordFailure(p, snap) /\ snap.claim # None /\ failed.claim = None)
    <3>1. UNCHANGED ledger
      BY <1>1, <1>20, <2>1, <2>2, <2>8 DEF RecordFailure
    <3>2. \/ row' = [row EXCEPT ![p] = failed] \/ row' = [row EXCEPT ![p] = parked]
          \/ UNCHANGED row
      BY <1>1, <1>20, <2>1, <2>2, <2>3 DEF RecordFailure
    <3> QED
      BY <2>4, <2>5, <2>6, <3>1, <3>2, WrittenRows DEF ProcessMoves
  <2> QED
    BY <2>7, <2>8
<1> QED
  BY <1>7, <1>8, <1>9, <1>10, <1>11, <1>12, <1>13, <1>14, <1>15, <1>16, <1>17, <1>18,
     <1>19, <1>20 DEF WorkerStep, EarlyThrow

\* RowsInv is inductive.
LEMMA NextRows ==
  ASSUME TypeOK, BindingInv, BindingInv', RowsInv, [Next]_vars
  PROVE  RowsInv'
<1>1. ASSUME UNCHANGED <<row, ledger, attempt, request>>,
             \/ UNCHANGED worker
             \/ \E w \in Workers : ProcessMoves(w)
             \/ \E w \in Workers, p \in Packets, s \in Steps \ {"preparing", "claimed"} :
                  worker' = [worker EXCEPT ![w] = [pc |-> s, packet |-> p,
                                                   snap |-> row[p], cause |-> "none"]]
      PROVE  RowsInv'
  BY <1>1, RowlessSound DEF RecordsFacts, BindingsStay
<1>2. CASE Tick \/ UNCHANGED vars
  BY <1>1, <1>2 DEF Tick, vars
<1>3. ASSUME NEW p \in Packets, CronSelects(p) PROVE RowsInv'
  BY <1>1, <1>3 DEF CronSelects
<1>4. ASSUME NEW w \in Workers, NEW p \in Packets, LoadPacket(w, p) PROVE RowsInv'
  <2>1. FirstStep(row[p]) \in Steps \ {"preparing", "claimed"}
    BY DEF FirstStep, Steps
  <2>2. PICK s \in Steps \ {"preparing", "claimed"} : s = FirstStep(row[p])
    BY <2>1
  <2> QED
    BY <1>1, <1>4, <2>2 DEF LoadPacket
<1>5. ASSUME NEW w \in Workers, WorkerCrash(w) PROVE RowsInv'
  BY <1>1, <1>5 DEF WorkerCrash, ProcessMoves
<1>6. CASE ProviderStep
  BY <1>1, <1>6 DEF ProviderStep, ProviderPress, ProviderEnds
<1> QED
  BY <1>2, <1>3, <1>4, <1>5, <1>6, WorkerRows, ApplicantRows, EvidenceRows
     DEF Next, RunnerNext

LEMMA InitRows == Init => RowsInv
<1> SUFFICES ASSUME Init PROVE RowsInv
  OBVIOUS
<1>1. \A s : FreshReview(s).claim = None /\ FreshReview(s).unv = "none"
             /\ FreshReview(s).receipt = FALSE /\ FreshReview(s).status = s
  BY DEF FreshReview
<1>2. \A s : s # "submitted" => \A p : ReviewSound(FreshReview(s), p)
  BY <1>1 DEF ReviewSound, RowShape, Shown
<1>3. ASSUME NEW p \in Packets PROVE ReviewSound(row[p], p) /\ row[p].claim = None
  <2>1. PICK s \in InitialStatuses : row[p] = FreshReview(s)
    BY DEF Init
  <2>2. s # "submitted"
    BY StatusAssumption
  <2> QED
    BY <1>1, <1>2, <2>1, <2>2
<1>4. ASSUME NEW w \in Workers PROVE ProcessSound(w)
  <2>1. worker[w].snap = FreshReview("ready_to_submit") /\ worker[w].pc = "idle"
    BY DEF Init, IdleProcess
  <2> QED
    BY <1>2, <2>1 DEF ProcessSound
<1>5. ASSUME NEW r \in Requests PROVE CallSound(r)
  <2>1. request[r].current = FreshReview("ready_to_submit") /\ request[r].kind = "submit"
    BY DEF Init, IdleCall
  <2> QED
    BY <1>1, <1>2, <2>1 DEF CallSound
<1> QED
  BY <1>3, <1>4, <1>5 DEF RowsInv, ClaimIsOpen

\* The rows, and the snapshots that processes and calls will write them from, keep their
\* shape and show only what is confirmed, through every step of the applicant, the
\* employer's mail, the runner and its crashes.
LEMMA RowsHold == Spec => [](TypeOK /\ BindingInv /\ RowsInv)
<1>1. Init => TypeOK /\ BindingInv /\ RowsInv
  BY InitTypeOK, InitBinding, InitRows
<1>2. TypeOK /\ BindingInv /\ RowsInv /\ [Next]_vars => (TypeOK /\ BindingInv /\ RowsInv)'
  BY NextTypeOK, NextBinding, NextRows
<1> QED
  BY <1>1, <1>2, PTL DEF Spec

\* A row never carries the claim of an attempt the ledger has closed, or one opened for
\* another packet: whoever releases the claim closes the attempt in the same transaction,
\* and a stale writer cannot put a closed claim back.  Code: releaseSubmissionClaim's
\* callers, recordSubmissionRunnerFailure, repairExpiredAttendedHandoffClaim.  It needs
\* the provider's configuration to be there: a failure for want of it, recorded late on a
\* row of the same run that the applicant has answered for since, requeues the row with
\* its answer, and a later claim then looks like one that was answered for.
THEOREM ClaimsStayOpen ==
  ASSUME Outages = FALSE
  PROVE  Spec => []ClaimIsOpen
<1>1. RowsInv => ClaimIsOpen
  BY DEF RowsInv
<1> QED
  BY <1>1, RowsHold, PTL

\* A packet shown as submitted, or holding a receipt, has a confirmation on its ledger,
\* although the review a process or a call writes is one it read some steps before.
\* Code: writeReview, refuseDuplicateApplication, commitVerifiedSubmissionConfirmed.
THEOREM ShownIsConfirmed == Spec => []SubmittedHasConfirmation
<1>1. RowsInv => SubmittedHasConfirmation
  BY DEF RowsInv, ReviewSound, Shown, SubmittedHasConfirmation
<1> QED
  BY <1>1, RowsHold, PTL
=============================================================================
