---------------------------- MODULE OutcomeRecovery ----------------------------
(***************************************************************************)
(* Automatic recovery of a held attempt's outcome (src/src/lib/            *)
(* submissionOutcomeRecovery.ts and recoverUnverifiedSubmission in         *)
(* src/src/routes/submissionRunner.ts).  A worker writes a claim on the    *)
(* row, asks the provider for the attempt's result, and writes what comes  *)
(* next: another check later, or none.  The claim is a lease of five       *)
(* minutes, so a dead worker's check is made again; a slow worker's too.   *)
(* Meanwhile a receipt may arrive, or the applicant may start a new        *)
(* attempt.                                                                *)
(*                                                                         *)
(* next_check_at is modelled by two things: whether it has passed, and a   *)
(* number that tells one timestamp from another.                           *)
(***************************************************************************)
EXTENDS Integers

CONSTANTS
  RecoveryWorkers, \* cron replicas
  MaxAttempts,     \* bound: attempts of the packet
  MaxOverruns      \* bound: workers that die or outlive their lease

ASSUME RecoveryBoundsAssumption == MaxAttempts \in Nat \ {0} /\ MaxOverruns \in Nat

VARIABLES
  held,     \* the row: its status, submission_claim_id and outcome_recovery
  checkDue, \* next_check_at has passed
  recoverer, \* worker -> the claim it works on
  overruns  \* workers that died or outlived their lease so far

recoveryVars == <<held, checkDue, recoverer, overruns>>

NoRecovery == [attempt |-> 0, state |-> "none", checks |-> 0, stamp |-> 0]
IdleRecoverer == [at |-> "idle", claim |-> NoRecovery]

RowInit(status) ==
  /\ held = [status |-> status, attempt |-> 1, recovery |-> NoRecovery]
  /\ checkDue = TRUE
  /\ recoverer = [w \in RecoveryWorkers |-> IdleRecoverer]
  /\ overruns = 0

RecoveryInit == RowInit("needs_attention")

\* A row there is nothing to recover for.
RecoveryAtRest == RowInit("submitted")

Mine == held.recovery.attempt = held.attempt

\* Mutant: a row that is being checked is never due.
DueUnlessChecked ==
  /\ held.status = "needs_attention"
  /\ ~ Mine \/ (held.recovery.state = "pending" /\ checkDue)

\* outcomeRecoveryDue.
OutcomeRecoveryDue ==
  /\ held.status = "needs_attention"
  /\ ~ Mine \/ (held.recovery.state # "unresolved" /\ checkDue)

\* claimOutcomeRecovery, in a transaction under the ledger key.  The attempt is one the
\* ledger says the managed provider may have sent.
ClaimRecovery(w) ==
  LET checks == IF Mine THEN held.recovery.checks ELSE 0
      claim == [attempt |-> held.attempt, state |-> "checking",
                checks |-> IF checks < 3 THEN checks + 1 ELSE 3,
                stamp |-> held.recovery.stamp + 1]
  IN /\ recoverer[w].at = "idle" /\ OutcomeRecoveryDue
     /\ held' = [held EXCEPT !.recovery = claim]
     /\ checkDue' = FALSE
     /\ recoverer' = [recoverer EXCEPT ![w] = [at |-> "checking", claim |-> claim]]
     /\ UNCHANGED overruns

\* recoverTerminal: the provider knows nothing, or a result that is written to the row
\* unless the row has another attempt by now.
RecoverTerminal(w) ==
  /\ recoverer[w].at = "checking"
  /\ recoverer' = [recoverer EXCEPT ![w].at = "finishing"]
  /\ \/ UNCHANGED held
     \/ /\ held.attempt = recoverer[w].claim.attempt
        /\ held' = [held EXCEPT !.status = "submitted"]
  /\ UNCHANGED <<checkDue, overruns>>

\* Mutant: any claim of the same attempt may be finished.
ClaimOfThisAttempt(w) == Mine /\ held.attempt = recoverer[w].claim.attempt

\* The row still carries exactly this claim.
ClaimIsCurrent(w) == Mine /\ held.recovery = recoverer[w].claim

\* finishOutcomeRecovery, or nothing.
FinishRecovery(w) ==
  LET claim == recoverer[w].claim
      state == IF claim.checks >= 3 THEN "unresolved" ELSE "pending"
  IN /\ recoverer[w].at = "finishing"
     /\ IF held.status = "needs_attention" /\ ClaimIsCurrent(w)
          THEN /\ held' = [held EXCEPT !.recovery =
                             [claim EXCEPT !.state = state, !.stamp = @ + 1]]
               /\ checkDue' = FALSE
          ELSE UNCHANGED <<held, checkDue>>
     /\ recoverer' = [recoverer EXCEPT ![w] = IdleRecoverer]
     /\ UNCHANGED overruns

RecovererDies(w) ==
  /\ recoverer[w].at # "idle"
  /\ overruns < MaxOverruns /\ overruns' = overruns + 1
  /\ recoverer' = [recoverer EXCEPT ![w] = IdleRecoverer]
  /\ UNCHANGED <<held, checkDue>>

\* The lease or the backoff runs out.  Under a worker's hands that is an overrun.
CheckBecomesDue ==
  LET working == \E w \in RecoveryWorkers :
        recoverer[w].at # "idle" /\ recoverer[w].claim = held.recovery
  IN /\ ~ checkDue
     /\ working => overruns < MaxOverruns
     /\ overruns' = IF working THEN overruns + 1 ELSE overruns
     /\ checkDue' = TRUE
     /\ UNCHANGED <<held, recoverer>>

\* A confirmation comes by mail or by the applicant's own look.
ReceiptArrives ==
  /\ held.status = "needs_attention"
  /\ held' = [held EXCEPT !.status = "submitted"]
  /\ UNCHANGED <<checkDue, recoverer, overruns>>

\* The applicant sends again, and the new attempt is held too.
NewAttemptHeld ==
  /\ held.status = "needs_attention" /\ held.attempt < MaxAttempts
  /\ held' = [held EXCEPT !.attempt = @ + 1]
  /\ UNCHANGED <<checkDue, recoverer, overruns>>

RecoveryNext ==
  \/ \E w \in RecoveryWorkers :
       \/ ClaimRecovery(w) \/ RecoverTerminal(w) \/ FinishRecovery(w) \/ RecovererDies(w)
  \/ CheckBecomesDue \/ ReceiptArrives \/ NewAttemptHeld

\* The cron runs, a check ends, time passes.
RecoveryFairness ==
  /\ \A w \in RecoveryWorkers :
       WF_recoveryVars(ClaimRecovery(w) \/ RecoverTerminal(w) \/ FinishRecovery(w))
  /\ WF_recoveryVars(CheckBecomesDue)

-----------------------------------------------------------------------------
(* Properties *)

Unresolved == Mine /\ held.recovery.state = "unresolved"

\* An attempt given up as unresolved is not checked again: a slow worker that finishes
\* an older claim does not revive it.
UnresolvedIsFinal ==
  [][Unresolved /\ held'.attempt = held.attempt => held'.recovery = held.recovery]_recoveryVars

\* The queue is finite: a held attempt is resolved or given up, although workers die
\* between their claim and their answer.
RecoveryEnds == held.status = "needs_attention" ~> held.status = "submitted" \/ Unresolved

=============================================================================
