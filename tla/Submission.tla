------------------------------- MODULE Submission -------------------------------
(***************************************************************************)
(* The applicant, the runner's processes, the provider and the employer's  *)
(* answers over one user's packets and attempt ledger, and what the whole  *)
(* promises.                                                               *)
(***************************************************************************)
EXTENDS ApplicantRoutes, EmployerEvidence, RunnerProcess

\* The database clock; MaxTime is a bound.
Tick ==
  /\ now < MaxTime
  /\ now' = now + 1
  /\ UNCHANGED <<row, runs, queued, ledger, attempt, worker, provider, filed,
                 request, crashes>>

Next == ApplicantNext \/ EvidenceNext \/ RunnerNext \/ Tick

Spec == Init /\ [][Next]_vars

\* The cron sweep runs on a schedule and its processes run on unless they crash;
\* a provider run ends and time passes.  Nothing is assumed of the applicant.
Fairness ==
  /\ \A p \in Packets : /\ WF_vars(CronSelects(p))
                        /\ WF_vars(\E w \in Workers : LoadPacket(w, p))
  /\ \A w \in Workers : WF_vars(WorkerStep(w))
  /\ \A a \in Attempts : WF_vars(ProviderEnds(a))
  /\ WF_vars(Tick)

FairSpec == Spec /\ Fairness

-----------------------------------------------------------------------------
(* Types *)

\* Every variable holds what the code could hold there: the reviews, processes
\* and calls are well formed and the ledger holds facts of the vocabulary.
TypeOK ==
  /\ now \in 0..MaxTime
  /\ row \in [Packets -> Review]
  /\ runs \in [Packets -> 0..MaxRuns]
  /\ queued \in [Packets -> BOOLEAN]
  /\ ledger \in [Attempts -> Seq(Fact)]
  /\ attempt \in [Attempts -> Binding]
  /\ worker \in [Workers -> Process]
  /\ provider \in [Attempts -> ProviderRun]
  /\ filed \in [Attempts -> BOOLEAN]
  /\ request \in [Requests -> Call]
  /\ crashes \in 0..MaxCrashes

-----------------------------------------------------------------------------
(* Safety *)

\* The product's central promise, and what the duplicate gate, the claim, the
\* boundary recheck and the lease exist for: an employer posting never receives
\* two applications of this user, whatever packets, processes, crashes and
\* answers lie between.
NoDoubleFiling ==
  \A a, b \in Attempts :
    /\ a # b /\ filed[a] /\ filed[b]
    => PostingOf[attempt[a].packet] # PostingOf[attempt[b].packet]

\* The ledger never reads as safe to repeat once the employer holds the
\* application (submissionAttemptRetrySafety against the world).
FiledNeverClosed == \A a \in Attempts : filed[a] => Blocking(ledger[a])

\* A row never carries the claim of an attempt the ledger has closed or bound to
\* another packet: the claim's release and the closing fact are one transaction.
ClaimIsOpen ==
  \A p \in Packets :
    LET a == row[p].claim
    IN a # None => attempt[a].packet = p /\ Blocking(ledger[a])

\* A packet shown as submitted, or holding a receipt, has a confirmation on its
\* ledger: no writer invents one from the mutable row.
SubmittedHasConfirmation ==
  \A p \in Packets :
    row[p].status = "submitted" \/ row[p].receipt => PacketConfirmed(p)

\* The same the other way: a writer that read the row before the confirmation
\* never takes the receipt away again (writeReview's reason to fold the ledger).
ConfirmedStaysShown ==
  [][\A p \in Packets : row[p].receipt => row'[p].receipt]_vars

\* An authorized attempt becomes safe to repeat only on the applicant's look with
\* the authorization over, on an employer's refusal of the form that was pressed, or
\* when the provider's run of it is over and pressed nothing.
AuthorizedClosesOnlyOnProof ==
  [][\A a \in Attempts :
       /\ ledger'[a] # ledger[a] /\ Has(ledger[a], "boundary_authorized")
       /\ Blocking(ledger[a]) /\ ~ Blocking(ledger'[a])
       => \/ /\ ledger'[a] = Append(ledger[a], NotSent("applicant_checked_not_sent"))
             /\ ~ LeaseActive(a)
          \/ /\ ledger'[a] = Append(ledger[a], NotSent("employer_rejected_not_filed"))
             /\ provider[a].pressed /\ ~ filed[a]
          \/ /\ \E proof \in {"run_progress_proven_not_pressed",
                             "plan_position_proven_not_pressed"} :
                  ledger'[a] = Append(ledger[a], NotSent(proof))
             /\ provider[a].phase = "ended" /\ ~ provider[a].pressed]_vars

\* Once an attempt is closed as not sent, it stays closed: the applicant who was
\* told she can send again is not refused at the duplicate gate for the same press.
ClosedStaysClosed ==
  [][\A a \in Attempts :
       ledger'[a] # ledger[a] /\ RetrySafety(ledger[a]) = "safe_not_sent"
         => RetrySafety(ledger'[a]) = "safe_not_sent"]_vars

\* A failure is recorded for the exact attempt it happened to, or not at all.
StaleFailureWritesNothing ==
  [][\A w \in Workers : \A p \in Packets :
       /\ worker[w].pc = "failing" /\ worker'[w].pc = "idle"
       /\ worker[w].packet = p /\ row'[p] # row[p] /\ crashes' = crashes
       => row[p].claim = worker[w].snap.claim]_vars

-----------------------------------------------------------------------------
(* What the safety of the filing rests on, step by step *)

\* Past its claim a process acts for an attempt of its packet, and past the
\* boundary for one whose boundary was authorized.
WorkerBound(w) ==
  LET a == worker[w].snap.claim
  IN /\ worker[w].pc \in BoundSteps => a # None
     /\ a # None => attempt[a].packet = worker[w].packet
     /\ worker[w].pc \in BoundSteps \ {"claimed"}
          => Has(ledger[a], "boundary_authorized")

\* A claim, on a row or in a review a call has read, is of an attempt of its packet.
RowBound(p) == row[p].claim # None => attempt[row[p].claim].packet = p

RequestBound(r) ==
  LET a == request[r].current.claim
  IN a # None => attempt[a].packet = request[r].packet

\* An attempt has facts only once it is bound, the provider runs only what was
\* authorized, and the employer holds only what was pressed.
AttemptBound(a) ==
  /\ attempt[a].packet = None => ledger[a] = << >>
  /\ provider[a].phase # "none" \/ filed[a]
       => Has(ledger[a], "boundary_authorized")
  /\ filed[a] => provider[a].pressed

BindingInv ==
  /\ \A w \in Workers : WorkerBound(w)
  /\ \A p \in Packets : RowBound(p)
  /\ \A r \in Requests : RequestBound(r)
  /\ \A a \in Attempts : AttemptBound(a)

\* The attempt's authorization still lets the provider press Send.
MayFile(a) ==
  LeaseActive(a) /\ ~ provider[a].pressed /\ provider[a].phase # "ended"

FiledOrMayFile(a) == filed[a] \/ MayFile(a)

\* The ledger refuses a second send as long as the first may still go out.
FilersBlock == \A a \in Attempts : FiledOrMayFile(a) => Blocking(ledger[a])

\* And so no two attempts of one posting are there to be filed.
OneFiler ==
  \A a, b \in Attempts :
    /\ a # b /\ FiledOrMayFile(a) /\ FiledOrMayFile(b)
    => PostingOf[attempt[a].packet] # PostingOf[attempt[b].packet]

\* A process records a refusal only of a form that was pressed and not taken.
RefusalsSound ==
  \A w \in Workers :
    worker[w].pc = "refusing"
      => provider[worker[w].snap.claim].pressed /\ ~ filed[worker[w].snap.claim]

\* A process on its way to the provider is the only one with its claim, and no run of
\* it began; a run that stopped with proof is over for good, and pressed nothing; and a
\* process that fills the form has no claim yet.
ToBoundary(w) == worker[w].pc \in {"claimed", "authorized"}

Stopped(w) ==
  /\ worker[w].pc = "failing" /\ worker[w].cause \in ProvenStops
  /\ worker[w].snap.claim # None

CallersSound ==
  /\ \A v, w \in Workers :
       ToBoundary(v) /\ ToBoundary(w) /\ v # w
         => worker[v].snap.claim # worker[w].snap.claim
  /\ \A w \in Workers :
       ToBoundary(w) => provider[worker[w].snap.claim].phase = "none"
  /\ \A w \in Workers :
       Stopped(w) => /\ provider[worker[w].snap.claim].phase = "ended"
                     /\ ~ provider[worker[w].snap.claim].pressed
  /\ \A w \in Workers : At(w, "preparing") => worker[w].snap.claim = None

FilingInv ==
  BindingInv /\ FilersBlock /\ OneFiler /\ RefusalsSound /\ CallersSound

-----------------------------------------------------------------------------
(* The promise this implements *)

PostingsAppliedTo == {PostingOf[p] : p \in Packets}

CandidatesFor(q) ==
  {a \in Attempts : FiledOrMayFile(a) /\ PostingOf[attempt[a].packet] = q}

ReceivedPostings ==
  {q \in PostingsAppliedTo :
     \E a \in Attempts : filed[a] /\ PostingOf[attempt[a].packet] = q}

ShownPostings ==
  {q \in PostingsAppliedTo : \E p \in Packets : PostingOf[p] = q /\ row[p].receipt}

Promise == INSTANCE OneApplication WITH
  Postings <- PostingsAppliedTo,
  Tries <- Attempts,
  candidate <- [q \in PostingsAppliedTo |-> CandidatesFor(q)],
  received <- ReceivedPostings,
  shown <- ShownPostings

\* The rows, the ledger, the leases and the provider together keep the promise of one
\* application per posting: an attempt is let out by its boundary authorization, is over
\* when its lease is, and the receipt on the row is shown only for what was received.
KeepsPromise == Promise!PromiseSpec

-----------------------------------------------------------------------------
(* Liveness *)

\* A claim whose boundary was authorized does not stay in flight: a process that
\* died after the authorization is recovered from the provider's retained result.
AuthorizedResolves ==
  \A p \in Packets :
    ClaimIsHeld(row[p]) /\ Has(ledger[row[p].claim], "boundary_authorized")
      ~> ~ ClaimIsHeld(row[p])

\* No packet stays in flight for ever.
StalledClaimResolves ==
  \A p \in Packets : ClaimIsHeld(row[p]) ~> ~ ClaimIsHeld(row[p])
=============================================================================
