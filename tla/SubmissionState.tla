--------------------------- MODULE SubmissionState ---------------------------
(***************************************************************************)
(* One applicant's packets on their way to employers: the rows             *)
(* (generated_resumes.spec._review), the immutable attempt ledger, the     *)
(* runner processes of src/src/routes/submissionRunner.ts that fill and    *)
(* send, the browser provider that presses Send for them, the routes of    *)
(* src/src/routes/applications.ts the applicant drives, and the repairs    *)
(* that run when a packet is read.                                         *)
(*                                                                         *)
(* A step is one database transaction under the user's advisory lock, one  *)
(* unlocked statement, or one external effect.  Everything a process holds *)
(* between two of its steps is a snapshot another process may have made    *)
(* stale; which comparison protects each write is what the code relies on  *)
(* and what is modelled here.                                              *)
(***************************************************************************)
EXTENDS RetrySafety

CONSTANTS
  Packets,         \* generated_resumes rows of one user
  Attempts,        \* attempt ids the runner may mint
  Workers,         \* concurrent calls of processSubmissionApplication
  Requests,        \* concurrent submit-request and approve calls
  PostingOf,       \* the employer posting each packet applies to
  Provider,        \* "managed_browser" or "direct_browser"
  ApplicantErrs,   \* whether the applicant may misreport what the employer holds
  Outages,         \* whether the provider's configuration may be missing for a while
  InitialStatuses, \* statuses a packet may start in
  StopStatuses,    \* statuses a preparation or a stop may park a packet in
  None,            \* no attempt, no packet
  LeaseTTL,        \* ticks an employer-boundary authorization stays active
  AbandonAfter,    \* ticks before an opened attempt counts as abandoned
  MaxTime,         \* bound: the clock stops here
  MaxRuns,         \* bound: submission_run_id values per packet
  MaxCrashes       \* bound: processes that die mid-step

ASSUME NoneAssumption == None \notin Attempts \cup Packets
ASSUME PacketsAssumption == Packets # {}
ASSUME ProviderAssumption == Provider \in {"managed_browser", "direct_browser"}
ASSUME ApplicantAssumption == ApplicantErrs \in BOOLEAN
ASSUME OutageAssumption == Outages \in BOOLEAN
ASSUME PostingAssumption == DOMAIN PostingOf = Packets
ASSUME StatusAssumption ==
  InitialStatuses \subseteq
    {"ready_to_submit", "ready_for_final_approval", "submitting"}
ASSUME StopAssumption ==
  StopStatuses \subseteq {"needs_attention", "ready_for_final_approval"}
ASSUME BoundsAssumption ==
  /\ LeaseTTL \in Nat \ {0} /\ AbandonAfter \in Nat
  /\ MaxTime \in Nat /\ MaxRuns \in Nat \ {0} /\ MaxCrashes \in Nat

VARIABLES
  now,      \* the database clock
  row,      \* packet -> its review
  runs,     \* packet -> submission_run_id values used
  queued,   \* packet -> a call of processSubmissionApplication is about to read it
  ledger,   \* attempt -> its facts in created_at order
  attempt,  \* attempt -> its binding: packet, opening time, boundary_expires_at
  worker,   \* process -> where it is, the row it acts on, the error it caught
  provider, \* attempt -> the provider's run of it
  filed,    \* attempt -> whether the employer holds an application from it
  request,  \* call -> where it is and the review it read
  crashes   \* processes lost so far

vars == <<now, row, runs, queued, ledger, attempt, worker, provider, filed,
          request, crashes>>

-----------------------------------------------------------------------------
(* Types *)

Statuses == {"ready_to_submit", "submit_requested", "preparing",
             "ready_for_final_approval", "submitting", "needs_attention",
             "failed", "submitted"}

\* unverified_submission with submission_attempted_at, which is written and
\* cleared beside it: absent, unresolved, or resolved.
Unverified == {"none", "open", "sent", "not_sent"}

Review == [status : Statuses, run : 0..MaxRuns, claim : Attempts \cup {None},
           unv : Unverified, receipt : BOOLEAN]

\* A provider run's own record, or its place in the plan, shows that it is over and
\* pressed nothing.
ProvenStops == {"run_progress_stop", "plan_position_stop"}

Causes == {"none", "boundary_changed", "boundary_blocked", "consent_changed",
           "no_submit_control", "pre_click_stop", "untyped"}
          \cup ProvenStops \cup (IF Outages THEN {"unconfigured"} ELSE {})

Steps == {"idle", "loaded", "preparing", "prepared", "claimed", "authorized",
          "calling", "recovering", "confirming", "refusing", "unverifying",
          "clicked", "pressed", "failing"}

\* The steps a process takes between its claim and the outcome it records.
BoundSteps == {"claimed", "authorized", "calling", "recovering", "confirming",
               "refusing", "unverifying", "clicked", "pressed"}

Process == [pc : Steps, packet : Packets, snap : Review, cause : Causes]

Binding == [packet : Packets \cup {None}, openedAt : Nat, lease : Nat]

ProviderRun == [phase : {"none", "running", "ended"}, pressed : BOOLEAN]

Call == [kind : {"submit", "approve"},
         phase : {"idle", "read", "clear", "refused"},
         packet : Packets, current : Review]

-----------------------------------------------------------------------------
(* Initial state *)

FreshReview(status) ==
  [status |-> status, run |-> IF status = "ready_to_submit" THEN 0 ELSE 1,
   claim |-> None, unv |-> "none", receipt |-> FALSE]

AnyPacket == CHOOSE p \in Packets : TRUE

IdleProcess == [pc |-> "idle", packet |-> AnyPacket,
                snap |-> FreshReview("ready_to_submit"), cause |-> "none"]

IdleCall == [kind |-> "submit", phase |-> "idle", packet |-> AnyPacket,
             current |-> FreshReview("ready_to_submit")]

Init ==
  /\ now = 0
  /\ row \in [Packets -> {FreshReview(s) : s \in InitialStatuses}]
  /\ runs = [p \in Packets |-> row[p].run]
  /\ queued = [p \in Packets |-> FALSE]
  /\ ledger = [a \in Attempts |-> << >>]
  /\ attempt = [a \in Attempts |-> [packet |-> None, openedAt |-> 0, lease |-> 0]]
  /\ worker = [w \in Workers |-> IdleProcess]
  /\ provider = [a \in Attempts |-> [phase |-> "none", pressed |-> FALSE]]
  /\ filed = [a \in Attempts |-> FALSE]
  /\ request = [r \in Requests |-> IdleCall]
  /\ crashes = 0

-----------------------------------------------------------------------------
(* The ledger *)

\* appendSubmissionAttemptEvent
AppendFact(a, fact) == ledger' = [ledger EXCEPT ![a] = Append(@, fact)]

AttemptsOf(p) == {a \in Attempts : attempt[a].packet = p}

\* Mutant: the last tick of the authorization is not counted.
LeaseActiveOffByOne(a) ==
  Has(ledger[a], "boundary_authorized") /\ now + 1 < attempt[a].lease

\* The attempt's employer-boundary authorization is on record and unexpired.
LeaseActive(a) == Has(ledger[a], "boundary_authorized") /\ now < attempt[a].lease

\* Mutant: only this packet's own attempts are asked about.
ClearOfOwnAttempts(p, except) ==
  \A a \in AttemptsOf(p) \ except : ~ Blocking(ledger[a])

\* duplicateApplicationVerdict is clear: no attempt of this user on the same
\* posting, this packet's included, blocks a send; except is the caller's own.
Clear(p, except) ==
  \A a \in Attempts \ except :
    (attempt[a].packet # None /\ PostingOf[attempt[a].packet] = PostingOf[p])
      => ~ Blocking(ledger[a])

PacketConfirmed(p) ==
  \E a \in AttemptsOf(p) : Has(ledger[a], "submission_confirmed")

\* No fact yet settles the attempt.
Unsettled(a) == /\ ~ Has(ledger[a], "submission_confirmed")
                /\ ~ Has(ledger[a], "not_sent_proven")

NeverCrossedBoundary(a) == /\ ~ Has(ledger[a], "boundary_authorized")
                           /\ ~ Has(ledger[a], "press_observed")

\* press_observed has one event id per attempt: writing it again is a replay.
AppendPressOnce(a, reported) ==
  IF reported /\ ~ Has(ledger[a], "press_observed")
    THEN AppendFact(a, Pressed)
    ELSE UNCHANGED ledger

\* Mutant: the confirmation is written under the press's event id.
AppendConfirmationAsPress(a) == AppendPressOnce(a, TRUE)

\* submission_confirmed has one event id per source.  The applicant's and the
\* provider's confirmation of one attempt count as one here: the fold reads no
\* difference between one and two.
AppendConfirmationOnce(a) ==
  IF Has(ledger[a], "submission_confirmed") THEN UNCHANGED ledger
                                            ELSE AppendFact(a, Confirmed)

-----------------------------------------------------------------------------
(* The row *)

\* A review whose claim and send evidence are wiped: preClickNoSubmitReleasePatch.
PreClickRelease(review, status) ==
  [review EXCEPT !.status = status, !.claim = None, !.unv = "none",
                 !.receipt = FALSE]

\* unverifiedSubmissionPatch
MarkUnverified(review) ==
  [review EXCEPT !.status = "needs_attention", !.unv = "open"]

\* Mutant: the claim is not cleared.
ReleaseKeepingClaim(review, unv) ==
  [review EXCEPT !.status = "needs_attention", !.unv = unv]

\* The applicant's answer, or the claim's release, parks the packet unclaimed.
ReleaseTo(review, unv) ==
  [review EXCEPT !.status = "needs_attention", !.claim = None, !.unv = unv]

MarkSubmitted(review, unv) ==
  [review EXCEPT !.status = "submitted", !.unv = unv, !.receipt = TRUE]

\* The run and claim a writer expects are still the row's.
SameRunAndClaim(review, snap) ==
  review.run = snap.run /\ review.claim = snap.claim

\* submissionClaimIsHeld
ClaimIsHeld(review) == review.status = "submitting" /\ review.claim # None

=============================================================================
