# Volley backend: the submission of an application, specified

This directory holds TLA+ specifications of the Volley (Litos) backend in
`src/`, their TLC configurations, and proofs checked by TLAPS. The backend is a
Fastify API over Postgres that finds jobs, tailors a resume, fills an employer's
form with a browser and presses Send on the applicant's behalf. What can go
wrong there cannot be undone: an application sent twice, or one reported as not
sent that the employer holds. The specifications start with that path, and go on
to the services around it that keep promises of their own: runs over restarts of
the server, employer mail, account deletion, billing, metered usage, job polling
and notifications.

## 1. Inventory

Paths are under `src/src/`. "State" is what survives a process.

| Component | State | Operations | What makes it hard | What makes it correct |
|---|---|---|---|---|
| Attempt ledger, `lib/submissionAttemptLedger.ts` | immutable facts per attempt | append, authorize the boundary, fold into a retry verdict | facts of several actors in any order; a lease; created_at is a transaction's start | a verdict of "safe" only with proof; once safe, safe |
| Duplicate gate, `lib/duplicateApplication.ts` | none; reads ledger and rows | verdict for a packet and its posting | asked minutes before the send | never clear while another attempt may still be sent |
| Runner, `routes/submissionRunner.ts`, `lib/managedSubmitOutcome.ts`, `lib/submissionStop.ts` | `generated_resumes.spec._review` | prepare, claim, authorize, call the provider, recover its result, record outcome or failure | several processes, snapshots held across awaits, crashes, lost answers | one application per posting; the row and the ledger agree; nothing stays in flight |
| Applicant routes, `routes/applications.ts`, `lib/legacyUnverifiedPress.ts` | the same row | submit-request, approve, "it is there / not there" | run beside the runner, partly without the lock | an answer closes only what can no longer be sent |
| Repairs on load, `lib/expiredHandoffClaimRelease.ts`, `lib/abandonedAttemptClosure.ts`, `lib/parkedConfirmedReceipt.ts` | the same row and ledger | release a dead claim, close an abandoned attempt, finish a parked receipt | race with a slow live process | touch only what no process can still send |
| Provider-call fence, `lib/submissionAccountFence.ts` | two advisory keys, the drain row | fence a provider call | lock order, lock timeout | no provider call after a drain |
| Account deletion, `routes/account.ts` | drain row, tombstones, outboxes | drain, cancel billing, clean up, delete | every step may fail and be retried | nothing of the account outlives it; nothing is lost on failure |
| Preparation lifecycle, `lib/managedRunLifecycle.ts`, `managedRunBootSweep.ts`, `managedRunRestartRelease.ts`, `stalledFillRunRelease.ts` | the row, a process registry | heartbeat, release on shutdown, boot and stall | a run thought dead may be alive | a live run is not released; a dead one is |
| Outcome recovery, `lib/submissionOutcomeRecovery.ts`, `routes/verifyUnverifiedSubmissions.ts`, `routes/reconcileSubmissionConfirmations.ts` | a lease on the row | re-check unknown outcomes, match mail | lease outlived by a slow check | an outcome is recorded once; checks end |
| Terminal cleanup outbox, `routes/submissionRunner.ts` | an outbox in the row | queue, retry, quarantine | crash between provider and row | a retained result is deleted in the end |
| Canonical sync, `lib/canonicalApplicationSync.ts`, `canonicalApplicationLifecycle.ts` | canonical rows | project the packet | failure after the confirmation | never behind or ahead of the ledger for good |
| Authority revisions, `lib/submissionAuthorityRevision.ts`, `db/authorityRevisionRetry.ts` | revision counters | bump, compare, retry | try-lock failures | a send uses what was approved |
| Entitlements, `lib/entitlements.ts`, `middleware/quota.ts` | reservations | reserve, settle, refund | retries | a unit is charged once |
| Billing, `routes/billing.ts`, `billingV2.ts`, `lib/stripeBilling.ts` | subscription | webhooks | repeated, out of order | the newest event wins |
| Receiving proof, `lib/applicationEmailReceivingProof.ts`, `routes/managedReceivingCanary.ts` | expiring proof | canary, renew | expiry in mid-run | no managed send on an expired proof |
| Job monitor, `routes/jobMonitor.ts`, `lib/jobMonitorLock.ts`, `jobPollScheduler.ts` | boards, postings | poll under a lock | overlapping polls | one poll at a time |
| Onboarding, notifications, auth | flow ledger, dedupe keys, session version | steps, sends, sign-out | retries | at most once each |
| Packet audit, documents, engine, question matching, prompts | documents | content decisions | data, not control | out of scope: pure functions |

How they interact. A submit-request or an approval writes the row and calls
`processSubmissionApplication`; so does the cron route, for unclaimed rows and
for managed claims whose boundary was authorized. The process prepares the form,
claims the row and opens an attempt on the ledger in one transaction, rechecks
everything and authorizes the employer boundary in another, calls the provider
(no ledger lock held, but the account's provider key), and records what came
back. The applicant's answers, the repairs, an employer's mail and the recovery
sweeps write the same row and ledger in between. Ledger transactions take one
advisory lock per user; several row writes do not. A deployment ends a process
with a SIGTERM or a kill: the registry, the boot sweep and the stall release then
write rows that a slow call may still be filling. Account deletion takes the
provider key, after which every provider call of the account is refused, drains
what is open at the provider, cancels billing and deletes. Usage, billing, polling
and notifications share no state with a submission, and are composed only so that
one run checks several of them.

## 2. Modules

The submission of an application, composed and proved about:

| Module | Models | Source |
|---|---|---|
| `RetrySafety` | the fold of one attempt's facts into a verdict | `lib/submissionAttemptLedger.ts` |
| `SubmissionState` | state, types, ledger operations, gate, lease, row patches | ledger, gate, runner |
| `ApplicantRoutes` | the applicant's routes and the repairs on load | `routes/applications.ts` and the repair libraries |
| `RunnerProcess` | `processSubmissionApplication` and the provider | `routes/submissionRunner.ts` |
| `EmployerEvidence` | confirmations by the employer's mail and by the stored submit response | `lib/applicationEmail.ts`, `lib/submissionVerificationSweep.ts` |
| `Submission` | the composition, `Spec`, fairness, properties, the refinement mapping | - |
| `OneApplication` | the abstract promise `Submission` implements | - |
| `SubmissionProofs`, `FilingProofs`, `PromiseProofs` | theorems, each module over the one before | - |

The same system at a finer grain, or beside it:

| Module | Models | Source |
|---|---|---|
| `AttemptLedger` | the transactions that write one attempt's facts: `created_at` is a transaction's start, the lock's queue, event keys and their conflicts | `lib/submissionAttemptLedger.ts`, runner, `routes/applications.ts` |
| `FillRuns` | one packet's fill runs over restarts: registry, SIGTERM release, boot sweep, stall release, against slow calls | `lib/managedRun*.ts`, `lib/stalledFillRunRelease.ts`, `index.ts`, runner |
| `OutcomeRecovery` | the leased, scheduled re-check of an unknown outcome | `lib/submissionOutcomeRecovery.ts`, runner |
| `InboundMail` | the webhook for an employer's mail: store, resolve, claim, forward, answer, under redelivery | `lib/applicationEmail.ts` |
| `Notices` | sweeps and reply alerts that reserve, send, commit or release | `lib/notificationSend.ts`, `lib/digestSweep.ts`, `routes/notifications.ts` |
| `Entitlements` | reserve, commit, release and expiry of metered units | `lib/entitlements.ts` |
| `BillingEvents` | the Stripe webhook against one subscription | `routes/billing.ts` |
| `AccountDeletion` | `DELETE /account` with its billing, sessions and a managed run; EXTENDS `BillingEvents` | `routes/account.ts`, `lib/accountDeletionBilling.ts`, `lib/browserProviderResourceCleanup.ts` |
| `JobPolling` | a drain of the job boards: lock, selection, paced and capped scheduler | `routes/jobMonitor.ts`, `lib/jobPollScheduler.ts`, `lib/jobMonitorLock.ts` |

Their theorems are in `LedgerProofs` (`AttemptLedger`), `BackgroundProofs`
(`FillRuns`, `JobPolling`), `MailProofs` (`InboundMail`, `Notices`), `ServicesProofs`
(`BillingEvents`, `AccountDeletion`, `OutcomeRecovery`) and `UsageProofs`
(`Entitlements`).

Compositions, each with an `MC` module of small instances: `Application`
(`Submission`, `AttemptLedger`, `InboundMail` with `Notices`), `Background`
(`FillRuns`, `JobPolling`), `Services` (`Entitlements`, `AccountDeletion`,
`OutcomeRecovery`), and `MCSubmission` for `Submission` alone. In the first three
an initial choice says which part a behaviour exercises and the others rest: the
parts share no variables (the mail and its alerts do, and step together), so the
state spaces add instead of multiplying, and every behaviour of each part is there. Nothing is claimed about parts running
together, which by their sharing nothing could not differ.

State and code. In `Submission`, `row[p]` is `_review`: its status,
`submission_run_id`, `submission_claim_id`, `unverified_submission` (none, open,
or resolved either way) and whether a receipt is stored. `ledger[a]` is the facts
of attempt `a`; `attempt[a]` its binding, opening time and `boundary_expires_at`.
`worker[w]` is one call of `processSubmissionApplication`: where it is and `snap`,
the row it holds across its awaits. `provider[a]` and `filed[a]` are the world: the
provider's run, and whether the employer holds an application. `request[r]` is one
submit-request or approve call between its read and its write. `now` is the
database clock. The other modules are built the same way: a record per database
row, a record per call with its place and what it read, the outside world in
variables of its own, and a comment beside each variable naming its column.

Steps. One action is one transaction under the user's lock, one unlocked
statement, or one external effect. Every write carries the comparison the code
makes: the whole row (`claimSubmission`, `claimPreparation`, approve), run and
claim plus the confirmation fold (`writeReview`), run and possibly claim
(`recordSubmissionRunnerFailure`), status alone (submit-request and its refusal).

Merged or folded, with the reason:

- a whole-row comparison compares the abstract row. Timestamps are dropped, so
  the model also takes steps after the row came back to an equal value, which
  the code would refuse: more behaviours, none fewer;
- recovery's read of the authorization is one step with the row's load;
- the error for an already authorized boundary takes the path of an untyped
  error before the boundary; the daily cap that of `ClaimLost`;
- after the authorization a managed process reaches `fail` only with an error that
  proves its run over and unpressed (`CallStopped`). The recovery asked for first
  nearly always has an answer of its own then, since the attempt has the
  authorization it asks for; that it has none is let happen at any time, which is
  more than the code does. `AttemptLedger` leaves the writer of that proof out;
- a failure whose own write fails leaves what a crash does, and is `WorkerCrash` in
  `Submission`; `FillRuns`, where the row's owner matters, has both;
- a provider that is not configured (`Outages`) puts an unclaimed packet back to
  `submit_requested`. The cron answers 503 meanwhile, unless what is missing is a
  token its own check does not look for; so the packet may be taken again at once;
- the applicant's and the provider's confirmation of one attempt count as one;
- the sweep that selects a row is one of the processes, free when it selects: it
  takes a batch and runs through it, reading each row again when its turn comes;
- the audit, the consent, the lead and the page are nondeterministic stops;
- `Submission` writes a fact at once. `AttemptLedger` is where a fact's time is
  older than its commit, and its `Writers` comment names the code of each writer;
- `FillRuns` takes a packet to its press; what happens to the claim after it is
  `Submission`'s.

External, from how the code uses it: the managed provider runs once per call,
keeps its result, and does not press after `providerDeadlineAt` (the lease's
expiry less a margin); the employer takes or refuses a pressed form; the applicant
sees what the employer holds, or, with `ApplicantErrs`, misreads it. Stripe raises
events, delivers them in any order and again until a 2xx. The mail provider
delivers until a 202. The session provider ends a session that was asked to end.

## 3. Properties and runs

| Run | Instance | Checks | Result |
|---|---|---|---|
| `TwoPackets` | two packets of one posting, two processes, managed | `NoDoubleFiling`, `FiledNeverClosed`, `FilingInv`, `ConfirmedStaysShown`, `KeepsPromise` | hold (1,071 thousand states) |
| `OnePacket` | one packet, two attempts, two processes, a call, an applicant who errs | `TypeOK`, `ClaimIsOpen`, `SubmittedHasConfirmation`, `AuthorizedClosesOnlyOnProof` | hold (1,102 thousand) |
| `Lifecycle` | one packet from its start, one process, direct browser, a crash, a restart | `NoDoubleFiling`, `ClosedStaysClosed` | hold (26 thousand) |
| `Liveness` | `Application`: one packet under the cron with a crash; one attempt's transactions; two mails, two webhook calls; two sweeps | `AuthorizedResolves`; `AnswerSticks`, `UnreadableOnlyWhenPressed`, `ResultFolds`; `ForwardedOrLeft`, `OneCopy`, `ReceiptResolves`; `WithinDailyCap`, `FailureFreesSlot` | hold (211 thousand) |
| `Background` | two calls over two lives of the server, with a packet put back for want of the provider or a failure nobody could record; two servers polling four boards of three families | `FillTypeOK`, `OneFiller`, `DisplacedStaysOut`, `OnlyDeathStrands`, `RequestSettles`; `ProviderSpacing`, `OneCappedPoll`, `EverySourcePolled` | hold (251 thousand) |
| `Services` | two callers over seven operations in pairs; two deliveries of two Stripe events; a deletion with a session and a managed run; two recovery workers | `WithinAllowance`, `CountersMatchReservations`, `PendingKeepsCompany`, `UnitsComeBack`; `RefundCancels`, `RefundEndsAccess`, `SettledRowIsCurrent`; `DeletedLeavesNothingOpen`, `DeletionCompletes`, `CancellationSettles`; `UnresolvedIsFinal`, `RecoveryEnds` | hold (155 thousand) |
| `ReceiptErased` | one packet, a call that is refused | `ConfirmedStaysShown` | violated |
| `LatePress` | a late press report and the applicant's look | `ClosedStaysClosed` | violated |
| `StaleFailure` | two processes of one run | `StaleFailureWritesNothing` | violated |
| `DirectLateClick` | the direct click after the lease | `FiledNeverClosed` | violated |
| `StalledClaim` | a crash between claim and authorization | `StalledClaimResolves` | violated |
| `DeletedBilled` | a lost dispute, then a deletion | `DeletedIsNotBilled` | violated |

Bounds of `Submission`. `MaxTime` stops the clock, `MaxRuns` limits restarts,
`MaxCrashes` the processes lost, `LeaseTTL` and `AbandonAfter` are in ticks.
Authorization asks that its lease end before the clock stops; otherwise the bound,
not the code, would keep leases alive. The hazards are races of two actors over
one row or one posting; two packets, two processes and two attempts give each of
them both orders. Two ticks with a lease of one put an action before, at and after
the expiry, and a second attempt after it. One crash may fall at every step. Two
runs let a restart follow a finished run. The proofs remove the bounds for what
they cover. `Outages` is TRUE in every instance; the theorems that ask for FALSE say
so (section 5). The bounds do exclude three packets of a posting, and more than one
crash (`Lifecycle` and `Liveness` have one, the larger two none).

Bounds of the rest, each named where it is declared:

- `AttemptLedger`: `MaxLedgerTime` is the time after which no new transaction but
  a recovery's begins, `RecoveryTime` what is kept for those; one sender's death.
  Six ticks hold a lease of two, the age a stalled run is closed at, and a writer
  that waits through both.
- `FillRuns`: two lives of the server, the second not killed (deploys end), two
  calls, two runs; with `AgeFloor` under `StallBound` a row may be too young for
  the sweep, old enough for it, or old enough for the release. `MaxRuns`
  bounds runs and faults (requeues, failures nobody could record) together, so a
  behaviour has two runs, or one run and a fault. The first process has served for a
  while: its own boot sweep is done.
- `JobPolling`: `Concurrency` and `SegmentSize` are 3 where the code has 12, since
  four boards under a limit of twelve would never wait for one another; two boards
  (`Windowed`, a choice of the instance) whose lists take up to two detail windows,
  one fault (a poll that throws, one that fails in its window and keeps the source's
  place in the line, or a server that dies).
- `InboundMail` and `Notices`: two mails, one a receipt, of which the second
  arrives when the first is done with; two overlapping webhook calls; one fault of
  the database or a death, one failed or unanswered send; two days; a forwarding
  claim of one tick. Time does not pass while a call works on the mail: a send times
  out after ten seconds and a claim after ten minutes, so only a claim whose call is
  gone is ever taken over.
- `Entitlements`: `OpGroups` are the sets of operations one behaviour may use
  (two of one kind, two of one application, two kinds, two of one company, two
  companies), each against a limit of one that the second must exceed.
- `AccountDeletion`'s managed run is one value, from its preparation to a result that
  is acknowledged. What a dead process leaves depends on where it was: a filling row
  (`stuck`) is freed by a sweep, a claimed one is recovered by the cron if its boundary
  was authorized, and `stranded` if not. A result may also wait for the applicant's
  code, or be quarantined.
- `BillingEvents` and `AccountDeletion`: `Scripts` are the pairs of events Stripe
  may raise. A behaviour has a subscription with overlapping deliveries, or a
  deletion with one delivery at a time, or a deletion with employer work; one
  request fails or dies at any step. `CreationWindow` exceeds the lock's and the
  request's timeouts together, which the constants of the code satisfy and
  `WindowAssumption` states.
- `OutcomeRecovery`: two attempts, two workers, two overruns of the lease.

`CHECK_DEADLOCK FALSE` everywhere: a finished packet stops, as do the bounded
clocks. `TwoPackets` fixes the applicant to the truth and `OnePacket` does not: an
applicant who says "not there" of an application that arrived after all makes the
product send again, by design. `TwoPackets` also has no submit call, so
`ConfirmedStaysShown` there is about the runner, and `ReceiptErased` adds the call
that breaks it. `Lifecycle` has one process: with two, `LatePress` applies.

Fairness, weak unless said otherwise, and never of the applicant, the provider's
press, a fault or a death:

- `Submission`: the cron is scheduled and each sweep handles the oldest rows
  first (`CronSelects`, `LoadPacket`); a process runs on until it is done or dies,
  and a process its host ends in mid-step is a crash (`WorkerStep`); the provider
  bounds a run (`ProviderEnds`); time passes (`Tick`).
- `AttemptLedger`: only the recovery's two writers, which the cron and every load
  of the row repeat, and PostgreSQL's granting of a lock that is waited for.
- `InboundMail`: strong fairness of a delivery, since a busy handler disables it
  and the provider calls again and again; weak of a call's own steps.
- `FillRuns`: deploys end with a process that serves, its calls return, its cron
  and its release come round. `JobPolling`: the cron calls a server, the scheduler
  runs, requests time out. Each is asked only while its part is exercised.
- `Services`: the student asks for a deletion until it is done; a managed run's call
  returns, and the sweeps and the cron come round to what it left; Stripe delivers
  refund and cancellation events until settled; the request of a metered call is
  sent again; a recovery's cron runs.

What the properties say, where a name does not: `ResultFolds`, `ForwardedOrLeft`,
`OneCopy`, `FailureFreesSlot` and `WithinDailyCap` name their exceptions (a press
first recorded under the progress evidence, a call that answered 202 for one that
then died, a send whose answer was lost, a process that died), and each exception
is reachable: the property is what is left of the comment's promise.
`RequestSettles` and `EverySourcePolled` are for finitely many faults: a provider
missing for ever requeues for ever, and a board whose later window always fails keeps
the head of the line (`keepInCurrentDrainOnError`). `ReceiptResolves` says an
employer's receipt is decided, as resolved or as declined. `DeletionCompletes` excepts
a row that still reads disputed, and managed rows that nothing in the code moves
(`stranded`, `quarantined`) or only the applicant's code does (`waiting`).
So the row of
`StalledClaim` also stops every deletion of its account, which is told "Retry shortly"
each time. `DeletedLeavesNothingOpen` is about what was under way when the account was fenced. It
excepts the call of a run that was preparing: the drain does not wait for one, the
fence asks only for the drain row, and that row goes with the account, so the call
starts for an account that is gone. Both properties fail without these exceptions. A
fill run may outlive its row's release on a SIGTERM, so a row that reads released does
not say the provider is idle.
`AnswerSticks` is about the answer given on a row that held the claim; the
packet-level answer does not keep it (see the hazards).

### What the violations say

- `ReceiptErased`: `refuseDuplicateApplication` writes back the review it read,
  guarded by its status only, and removes a receipt that was parked meanwhile.
  `writeReview` states, and keeps, the rule this breaks.
- `LatePress`: a press reported after the applicant's look is appended as a risk
  fact after the resolution; the fold becomes `invalid_sequence` and the gate
  refuses the applicant again. It errs to the safe side, against a comment that
  says the ledger cannot do so.
- `StaleFailure`: a failure whose row was read unclaimed is recorded over a claim
  made since. `NoDoubleFiling` holds in spite of it, since the boundary recheck
  compares the whole row.
- `DirectLateClick`: the direct click follows the boundary check with no
  deadline, so it may come after the lease and after the look it should precede.
- `StalledClaim`: a crash between claim and authorization leaves a row that no
  sweep, route or repair selects, where three comments name an arm that is not
  in the repository.
- `DeletedBilled`: a lost dispute writes `canceled` without cancelling at Stripe;
  deletion reads the row as needing no cancellation and the account goes while
  Stripe goes on billing.

`PROJECT.json` quotes the lines. Each property of a passing run has a mutant (`DeletionCompletes` two), an
operator beside the one it would replace, whose substitution breaks the property.

## 4. The abstract specification

`OneApplication` knows postings and attempts only: at most one attempt of a
posting is let out at a time; the employer receives at most one application of it,
from the attempt that is out; once received no other attempt is ever let out; the
applicant is told so only of what was received. `Submission!Promise` maps it: the
candidates of a posting are the attempts that have filed or still may (authorized,
lease active, not pressed), what is received is what is filed, and what is shown
are the receipts on the rows. So the boundary authorization implements `LetOut`,
the provider's accepted press `Receive`, the clock's tick over a lease, or a press
the employer refuses, `GiveUp`, and the recording of a confirmation `Tell`; every
other step stutters. `TwoPackets` checks `KeepsPromise == Promise!PromiseSpec`
and `PromiseProofs` proves it.

## 5. What is proved

By TLAPS, for every value of the constants the modules' named assumptions allow:
any sets of packets, attempts, processes, calls, mails, boards and operations, and
every bound. Each safety invariant rests on an inductive one, which TLC found to
hold on the instances above before it was proved.

**The submission** (`Spec` of `Submission`).

- `SubmissionProofs!TypeCorrect`: `[]TypeOK`.
- `SubmissionProofs!BindingHolds`: `[]BindingInv`. A claim on a row, in a
  process's snapshot or in a call's review belongs to an attempt bound to that
  packet; past the boundary the attempt is authorized; the provider runs, and the
  employer holds, only what was authorized.
- `SubmissionProofs!ClaimsStayOpen` and `ShownIsConfirmed`: `[]ClaimIsOpen` and
  `[]SubmittedHasConfirmation`; the first as long as the provider's configuration is
  there (`Outages = FALSE`). With it missing, a late failure may put back a row the
  applicant has answered for, answer and all, and the argument below no longer holds
  for the claim after that; `OnePacket` checks the invariant with `Outages = TRUE`.
- `FilingProofs!ClosedOnlyOnProof`: `AuthorizedClosesOnlyOnProof`, for either
  provider and an applicant who may err: her look with the authorization over, the
  employer's refusal of a pressed form, or the proof that the provider's run ended
  without a press (`run_progress_proven_not_pressed`,
  `plan_position_proven_not_pressed`).
- `FilingProofs!FilingInvHolds`, `NeverFiledTwice` and `FiledAlwaysBlocks`: with
  the managed provider and an applicant who reads the employer's answer right
  (`Trusted`), `[]FilingInv`, `[]NoDoubleFiling` and `[]FiledNeverClosed`. Without
  `Trusted` the last two are false: `DirectLateClick` shows it of `FiledNeverClosed`,
  and its instance, where two processes run, refutes `NoDoubleFiling` as well.
- `FilingProofs!OneProcessFilesOnce` and `OneProcessFiledBlocks`: with such an
  applicant, one process at a time (`OneProcess`) and `Outages = FALSE`, `[]NoDoubleFiling` and
  `[]FiledNeverClosed` for the direct browser too, whose press no deadline bounds.
- `FilingProofs!ClosedForGood`: under `OneProcess` and `Outages = FALSE`, `ClosedStaysClosed`, for
  either provider and an applicant who may err; `LatePress` refutes it for two.
- `PromiseProofs!PromiseKept`: under `Trusted`, `KeepsPromise`.
- `PromiseProofs!ReceiptsLeaveOnlyByCalls` and `ReceiptsStay`: under `Trusted` and
  `Outages = FALSE`, a
  receipt leaves its row only when a submit-request or approve call ends, as
  `ReceiptErased` shows it may; without such calls, `ConfirmedStaysShown`.

`SubmissionProofs` begins with the lemmas on the fold: what an appended fact may do to
a verdict.

`NoDoubleFiling` is not inductive: nothing in it stops two attempts that are both
about to be sent. `FilingInv` says that for every attempt that has filed or still
may (its lease is active and its provider has not pressed) the ledger blocks, that
two of these never share a posting, and that a refusal on its way to the ledger is
of a form that was pressed and not taken. Authorization is the only step that makes
an attempt one of these, and its gate asks that no other attempt of the posting
blocks. A closing fact meets such an attempt only if it is a look (refused while the
lease is active, and truthful), a refusal, a proof that its run is over and pressed
nothing (`Stopped`: then it is none of these any more, and stays so until the failure
is written), or a pre-boundary proof, which the fold does not admit after an
authorization. `BindingInv` is needed so that the attempt a
process acts on is the one its row names. `AuthorizedClosesOnlyOnProof` needs only
the parts about refusals (`RefusalInv`) and about such stopped runs.

The code does not see to it that one process runs at a time: a route and the sweep
may each run a packet, and `LatePress` and `DirectLateClick` are what comes of it.
`OneProcess` says that nothing else does. `AloneInv` is the reason: from its claim to
its outcome a single process finds its own claim on the row, which is being sent or
confirmed and has not been asked about, since every other writer wants the row parked,
asked about, or at rest when it read it. So a fact the process appends is for the
attempt the row claims, which blocks (`ClaimIsOpen`). For the
direct browser `PressersAlone` adds that what the boundary check saw of the posting is
still so at the press, however late, since only the one process could make another
attempt a filer.

`ClaimIsOpen` and `SubmittedHasConfirmation` speak of rows alone, and rows are
written from what a process or a call read some steps before. `RowsInv` says it of
every copy that may be written back: a claim is carried only by a row at or past
its boundary, a row under way carries no receipt, and what a copy shows as sent is
confirmed. With it a closing fact either meets an attempt no row claims, or releases
the claim in the same transaction (`RecordsFacts`).

The promise needs one more invariant, `ReceiptInv`: a receipt on a row, in a
snapshot or in a call's review is of a packet the employer holds an application of,
and what is filed was pressed. The simulation then has one lemma per kind of step:
those that leave the candidates alone (`QuietPromise`), the authorization, the
press, the tick, and those that move receipts.

A receipt is taken off a row by the writes that release a claim nothing was sent
for: `StopBeforeBoundary` and the releasing stops of `RecordFailure`.
`BeginningInv` says why neither meets one. No attempt is begun (open, no boundary
crossed, not confirmed) beside one of its posting that has filed or still may, and a
process that is about to stop so holds the claim of an attempt that is only begun,
and holds it alone. A receipt is of an application the employer holds (`ReceiptInv`),
so a row with a receipt has no begun attempt to release.

**The ledger, transaction by transaction** (`LedgerSpec`): `LedgerInvHolds`,
`AnswersStick`, `OnlyPressesMakeUnreadable`. The facts are a set, ordered for the fold
by `created_at`, which is when a transaction began and not when it committed. `Places`
says that this order's ranks are a bijection that keeps the times; with it `FoldMeans`
reads a verdict off the set, with no induction over its order. `LedgerInv` says no two
facts of the attempt share a time and the opening is the first of them
(`TimesApart`, `OpenedFirst`); that there is one authorization, earlier than every
not-sent proof on record or in an open transaction (`AuthorizedOnceAndBefore`); that a
proof beside an authorization is one the fold admits there, and the only one unless a
press is on record (`ProofsFit`); and that an answered row stays answered
(`AnswerKept`). A transaction that began early and commits late is then harmless, or
the guard under the lock finds what it conflicts with.

**Fill runs** (`FillSpec`): `FillTypesCorrect`, `OneCallFills`,
`StrandedByDeathOnly`, `DisplacedRunsStayOut`. `OneFiller` fails from a state where
a call fills a run that another could still begin, and `OnlyDeathStrands` from one
where a call acts for a dead process (a run whose failure was lost is set aside); `FillInv` excludes both: a call lives as long
as its process, remembers a run that was minted, and fills only a run that is no
longer waiting to begin. That runs are minted in increasing order gives
`DisplacedStaysOut`.

**Job boards** (`PollSpec`): `ProvidersAreSpaced`, `CappedPollIsAlone`. Spacing is
over all servers, but a server reads only its own barriers. `PollInv` says the
server that holds the lock knows of every family still to be left alone, for at
least as long, and waits that long before it gives the lock up, with no poll of its
own running; so the next holder may start from nothing.

**Mail and notifications** (`MailAndSweepsSpec`: the webhook's calls and the
sweeps, interleaved): `MailIsForwardedOnce`, `ReceiptsAreForwardedOrLeft`,
`NoticesKeepTheirCap`, `FailuresFreeTheirSlot`. `MailInv` says a forwarding claim has one
worker and is not older than its work, that a copy neither marked nor about to be
is one a call was unsure of, and that a claim without worker was left behind.
`NoticeInv` says the unique indexes hold, a holder's row is its own and unsent, and
every row was sent, stranded, or has its holder. `NoticesAssumption` keeps postings,
mails and the digest's key apart, as the prefixes of the dedupe keys do.

**Billing, deletion and recovery** (`ServicesSpec`): `RefundsEndSubscriptions`,
`SettledRowsAreCurrent`, `DeletionLeavesNothingOpen`, `UnresolvedStaysFinal`.
`SettledRowIsCurrent` is about a quiet moment, so its invariant is about the others
(`StaleIsDue`, `LockedStale`): while the row, or what a transaction read and is about
to write, says other than Stripe, an event is still due that will write it again.
For the deletion, `Known` says what each place of a session call implies for its
reservation, the session and its age, and `DeletionKnows` what each step left. That a fenced
session cannot open after its row is gone rests on `WindowAssumption`.
`UnresolvedIsFinal` needs only that a worker's claim says `checking`.

**Usage** (`ServicesSpec`): `UsageStaysWithin`, `CountersAreExact`,
`PendingWorkKeepsCompany`. `UsageInv` says the counters are the units of the
committed rows, that these with the pending ones stay within each limit, and that
only work on a company is linked to one. A sum of units is written as the size of a
set of numbered units, so the library's theorems on cardinality replace an induction
over the operations, and `OpsAssumption` says there are finitely many.

Every safety and action property the passing runs check is thus stated by a theorem,
`NoDoubleFiling`, `FiledNeverClosed`, `KeepsPromise`, `ConfirmedStaysShown`,
`ClosedStaysClosed` and `ClaimIsOpen` under the assumptions named. Only model-checked is liveness, whose
fairness and ENABLED are out of the prover's reach: `AuthorizedResolves`,
`ResultFolds`, `ReceiptResolves`, `RequestSettles`, `EverySourcePolled`,
`UnitsComeBack`, `RefundEndsAccess`, `DeletionCompletes`, `CancellationSettles`,
`RecoveryEnds`.

The specifications have no recursive operator.

## 6. Not modelled

`PROJECT.json` gives the reason for every component. In short:

- functions of data: form filling, question discovery, prompts, ranking and
  matching of postings, resume rendering, packet audit, mail classification, and
  the tables of companies and boards. They make most of the repository's lines;
  what they decide enters the models as a stop, a class of mail or an error;
- security-code continuations and receipt observation (an outcome `pending` there
  delays a recovery), attempts reconstructed from legacy rows, the daily cap's
  counter, the answers on the review, stored files;
- the canonical projection and the authority revisions, whose verdicts are stops;
- the cleanup outbox of a living account, and the extension, which is not in the
  repository;
- single-statement or read-only components: onboarding, authentication, quota
  counters, the receiving proof.

Hazards without a property have a note in `PROJECT.json` saying why.

## 7. Plan

1. That `AttemptLedger` implements the ledger of `Submission` as long as no two
   transactions overlap, and where it does not.
2. Security-code continuations with their recovery; the cleanup outbox of a living
   account; the digest's window and the rotation of accounts.
3. The canonical projection as a refinement of the ledger's verdict.
