----------------------------- MODULE FilingProofs -----------------------------
(***************************************************************************)
(* No posting receives two applications of one user (NoDoubleFiling), and  *)
(* the ledger never reads as safe to repeat once the employer holds one    *)
(* (FiledNeverClosed): for the managed provider, which honours the         *)
(* deadline it is given, and an applicant who reads the employer's answer  *)
(* right, for any number of packets, attempts, processes and calls.  With  *)
(* neither assumption, an authorized attempt becomes safe to repeat only   *)
(* on proof (AuthorizedClosesOnlyOnProof).  And with one process at a      *)
(* time, what was closed stays closed (ClosedStaysClosed), and a posting   *)
(* is filed once where the runner presses Send itself, past any deadline.  *)
(***************************************************************************)
EXTENDS SubmissionProofs

\* What the theorem asks of the world the code runs in.
Trusted == Provider = "managed_browser" /\ ApplicantErrs = FALSE

-----------------------------------------------------------------------------
(* Frames *)

\* An attempt that is filed, or may be, is authorized and bound.
LEMMA FilersAreBound ==
  ASSUME TypeOK, BindingInv, NEW a \in Attempts, FiledOrMayFile(a)
  PROVE  Has(ledger[a], "boundary_authorized") /\ attempt[a].packet # None
<1>1. Has(ledger[a], "boundary_authorized")
  BY DEF FiledOrMayFile, MayFile, LeaseActive, BindingInv, AttemptBound
<1> QED
  BY <1>1, BoundAttempts

\* A step that lets no attempt file that could not, and unblocks none that can.
LEMMA FilersKeep ==
  ASSUME TypeOK, BindingInv, FilersBlock, OneFiler, BindingsStay,
         \A a \in Attempts : FiledOrMayFile(a)' => FiledOrMayFile(a),
         \A a \in Attempts :
           FiledOrMayFile(a)' /\ Blocking(ledger[a]) => Blocking(ledger'[a])
  PROVE  FilersBlock' /\ OneFiler'
<1>1. FilersBlock'
  BY DEF FilersBlock
<1>2. ASSUME NEW a \in Attempts, NEW b \in Attempts, a # b,
             FiledOrMayFile(a)', FiledOrMayFile(b)'
      PROVE  PostingOf[attempt'[a].packet] # PostingOf[attempt'[b].packet]
  <2>1. FiledOrMayFile(a) /\ FiledOrMayFile(b)
    BY <1>2
  <2>2. /\ attempt'[a].packet = attempt[a].packet
        /\ attempt'[b].packet = attempt[b].packet
    BY <2>1, FilersAreBound DEF BindingsStay
  <2> QED
    BY <1>2, <2>1, <2>2 DEF OneFiler
<1> QED
  BY <1>1, <1>2 DEF OneFiler

\* A step that records facts, none of them an authorization, and closes no attempt
\* that is filed or may be.
LEMMA RecordingKeeps ==
  ASSUME TypeOK, BindingInv, FilersBlock, OneFiler,
         UNCHANGED <<now, attempt, provider, filed>>,
         \A a \in Attempts :
           \/ ledger'[a] = ledger[a]
           \/ \E fact \in Fact :
                /\ ledger'[a] = Append(ledger[a], fact)
                /\ fact.kind # "boundary_authorized"
                /\ fact.kind = "not_sent_proven"
                     => ~ FiledOrMayFile(a) \/ Blocking(ledger'[a])
  PROVE  FilersBlock' /\ OneFiler'
<1>1. ASSUME NEW a \in Attempts, FiledOrMayFile(a)'
      PROVE  FiledOrMayFile(a)
  <2>1. Has(ledger'[a], "boundary_authorized") => Has(ledger[a], "boundary_authorized")
    <3>1. ledger[a] \in Seq(Fact)
      BY DEF TypeOK
    <3>2. CASE ledger'[a] = ledger[a]
      BY <3>2
    <3>3. ASSUME NEW fact \in Fact, ledger'[a] = Append(ledger[a], fact),
                 fact.kind # "boundary_authorized"
          PROVE  Has(ledger'[a], "boundary_authorized")
                   => Has(ledger[a], "boundary_authorized")
      BY <3>1, <3>3, HasAppended
    <3> QED
      BY <3>2, <3>3
  <2> QED
    BY <1>1, <2>1 DEF FiledOrMayFile, MayFile, LeaseActive
<1>2. ASSUME NEW a \in Attempts, FiledOrMayFile(a)', Blocking(ledger[a])
      PROVE  Blocking(ledger'[a])
  <2>1. ledger[a] \in Seq(Fact)
    BY DEF TypeOK
  <2>2. CASE ledger'[a] = ledger[a]
    BY <1>2, <2>2
  <2>3. ASSUME NEW fact \in Fact, ledger'[a] = Append(ledger[a], fact),
               fact.kind = "not_sent_proven"
                 => ~ FiledOrMayFile(a) \/ Blocking(ledger'[a])
        PROVE  Blocking(ledger'[a])
    <3>1. CASE fact.kind = "not_sent_proven"
      BY <1>1, <1>2, <2>3, <3>1
    <3>2. CASE fact.kind # "not_sent_proven"
      <4>1. Blocking(Append(ledger[a], fact))
        BY <1>2, <2>1, <3>2, BlockingSurvives
      <4> QED
        BY <4>1, <2>3
    <3> QED
      BY <3>1, <3>2
  <2> QED
    BY <2>2, <2>3
<1>3. BindingsStay
  BY DEF BindingsStay
<1> QED
  BY <1>1, <1>2, <1>3, FilersKeep

\* A step that touches nothing the filing is about.
LEMMA QuietKeeps ==
  ASSUME TypeOK, BindingInv, FilersBlock, OneFiler,
         UNCHANGED <<now, ledger, attempt, provider, filed>>
  PROVE  FilersBlock' /\ OneFiler'
BY RecordingKeeps

\* One attempt's fact is recorded.
LEMMA AppendKeeps ==
  ASSUME TypeOK, BindingInv, FilersBlock, OneFiler,
         UNCHANGED <<now, attempt, provider, filed>>,
         NEW a \in Attempts, NEW fact \in Fact,
         AppendFact(a, fact) \/ UNCHANGED ledger,
         fact.kind # "boundary_authorized",
         fact.kind = "not_sent_proven"
           => ~ FiledOrMayFile(a) \/ Blocking(Append(ledger[a], fact))
  PROVE  FilersBlock' /\ OneFiler'
<1>1. CASE UNCHANGED ledger
  BY <1>1, QuietKeeps
<1>2. CASE AppendFact(a, fact)
  <2>1. ledger' = [ledger EXCEPT ![a] = Append(ledger[a], fact)]
    BY <1>2 DEF AppendFact
  <2>2. ledger'[a] = Append(ledger[a], fact)
        /\ \A b \in Attempts \ {a} : ledger'[b] = ledger[b]
    BY <2>1 DEF TypeOK
  <2> QED
    BY <2>2, RecordingKeeps
<1> QED
  BY <1>1, <1>2

\* A stop the runner types itself closes no attempt that is filed or may be.
LEMMA TypedStopKeeps ==
  ASSUME TypeOK, BindingInv, NEW a \in Attempts
  PROVE  \/ ~ FiledOrMayFile(a)
         \/ Blocking(Append(ledger[a], NotSent("typed_pre_click_stop")))
<1>1. ledger[a] \in Seq(Fact)
  BY DEF TypeOK
<1>2. CASE Has(ledger[a], "boundary_authorized")
  BY <1>1, <1>2, TypedStopBlocks
<1>3. CASE ~ Has(ledger[a], "boundary_authorized")
  BY <1>3, FilersAreBound
<1> QED
  BY <1>2, <1>3

\* Processes that record a refusal: none joins them but by the provider's proof.
LEMMA RefusalsStay ==
  ASSUME TypeOK, BindingInv, RefusalsSound,
         \A a \in Attempts : provider[a].pressed /\ ~ filed[a]
                               => provider'[a].pressed /\ ~ filed'[a],
         \A w \in Workers :
           worker'[w].pc = "refusing"
             => \/ worker'[w] = worker[w]
                \/ LET a == worker'[w].snap.claim
                   IN provider'[a].pressed /\ ~ filed'[a]
  PROVE  RefusalsSound'
<1> SUFFICES ASSUME NEW w \in Workers, worker'[w].pc = "refusing",
                    worker'[w] = worker[w]
             PROVE  provider'[worker[w].snap.claim].pressed
                      /\ ~ filed'[worker[w].snap.claim]
  BY DEF RefusalsSound
<1>1. worker[w].snap.claim \in Attempts
  BY WorkersAttempts DEF BoundSteps, ClaimOf
<1> QED
  BY <1>1 DEF RefusalsSound

\* A process that moves on to anything but recording a refusal.
LEMMA MovedRefusals ==
  ASSUME TypeOK, BindingInv, RefusalsSound, UNCHANGED filed,
         \A a \in Attempts : provider[a].pressed => provider'[a].pressed,
         NEW w \in Workers,
         \/ Finish(w)
         \/ \E c \in Causes : Throw(w, c)
         \/ \E s \in Steps \ {"refusing"} :
              Goto(w, s) \/ \E review : GotoWith(w, s, review)
  PROVE  RefusalsSound'
<1>1. worker[w] \in Process
  BY DEF TypeOK
<1>2. \A v \in Workers \ {w} : worker'[v] = worker[v]
  BY DEF TypeOK, Finish, Throw, Goto, GotoWith
<1>3. worker'[w].pc # "refusing"
  <2>1. CASE Finish(w)
    BY <2>1 DEF TypeOK, Finish, IdleProcess
  <2>2. ASSUME NEW c \in Causes, Throw(w, c) PROVE worker'[w].pc # "refusing"
    BY <2>2, <1>1 DEF TypeOK, Throw, Process
  <2>3. ASSUME NEW s \in Steps \ {"refusing"},
               Goto(w, s) \/ \E review : GotoWith(w, s, review)
        PROVE  worker'[w].pc # "refusing"
    BY <2>3, <1>1 DEF TypeOK, Goto, GotoWith, Process
  <2> QED
    BY <2>1, <2>2, <2>3
<1> QED
  BY <1>2, <1>3, RefusalsStay

-----------------------------------------------------------------------------
(* CallersSound is inductive *)

\* A process moves to a step that has nothing to do with the provider's run, and throws
\* nothing that run proved.
ElseMoves(w) ==
  \/ Finish(w)
  \/ \E c \in Causes \ ProvenStops : Throw(w, c)
  \/ \E s \in Steps \ {"claimed", "authorized", "failing", "preparing"} :
       Goto(w, s) \/ \E review : GotoWith(w, s, review)

\* What each process does with its claim, and which runs may change.
CallerKept(w) ==
  \/ worker'[w] = worker[w]
  \/ /\ ToBoundary(w) /\ ToBoundary(w)'
     /\ worker'[w].snap.claim = worker[w].snap.claim /\ ~ Stopped(w)'
     /\ worker'[w].pc # "preparing"
  \/ /\ ~ ToBoundary(w)'
     /\ Stopped(w)' => /\ provider'[worker'[w].snap.claim].phase = "ended"
                       /\ ~ provider'[worker'[w].snap.claim].pressed
     /\ worker'[w].pc = "preparing" => worker'[w].snap.claim = None

RunKept(a) ==
  \/ provider'[a] = provider[a]
  \/ /\ provider[a].phase # "ended"
     /\ \A w \in Workers : ToBoundary(w)' => worker'[w].snap.claim # a

\* The claims of processes are attempts.
LEMMA CallersAttempts ==
  ASSUME TypeOK, BindingInv, NEW w \in Workers
  PROVE  /\ ToBoundary(w) => worker[w].snap.claim \in Attempts
         /\ Stopped(w) => worker[w].snap.claim \in Attempts
<1>1. worker[w].snap.claim \in Attempts \cup {None}
  BY DEF TypeOK, Process, Review
<1> QED
  BY <1>1, WorkersAttempts DEF ToBoundary, Stopped, BoundSteps, ClaimOf

LEMMA CallersStay ==
  ASSUME TypeOK, BindingInv, CallersSound,
         \A w \in Workers : CallerKept(w), \A a \in Attempts : RunKept(a)
  PROVE  CallersSound'
<1>1. ASSUME NEW w \in Workers, ToBoundary(w)'
      PROVE  /\ ToBoundary(w) /\ worker'[w].snap.claim = worker[w].snap.claim
             /\ worker[w].snap.claim \in Attempts
  BY <1>1, CallersAttempts DEF CallerKept, ToBoundary
<1>2. ASSUME NEW v \in Workers, NEW w \in Workers, v # w, ToBoundary(v)', ToBoundary(w)'
      PROVE  worker'[v].snap.claim # worker'[w].snap.claim
  BY <1>1, <1>2 DEF CallersSound
<1>3. ASSUME NEW w \in Workers, ToBoundary(w)'
      PROVE  provider'[worker'[w].snap.claim].phase = "none"
  BY <1>1, <1>3 DEF CallersSound, RunKept
<1>4. ASSUME NEW w \in Workers, Stopped(w)'
      PROVE  /\ provider'[worker'[w].snap.claim].phase = "ended"
             /\ ~ provider'[worker'[w].snap.claim].pressed
  <2>1. CASE worker'[w] = worker[w]
    <3>1. Stopped(w)
      BY <1>4, <2>1 DEF Stopped
    <3> QED
      BY <2>1, <3>1, CallersAttempts DEF CallersSound, RunKept
  <2> QED
    BY <1>4, <2>1 DEF CallerKept
<1>5. ASSUME NEW w \in Workers, worker'[w].pc = "preparing"
      PROVE  worker'[w].snap.claim = None
  BY <1>5 DEF CallerKept, CallersSound, At
<1> QED
  BY <1>2, <1>3, <1>4, <1>5 DEF CallersSound, At

\* A process moves, and no provider run does.
LEMMA ElseKeepsCallers ==
  ASSUME TypeOK, BindingInv, CallersSound, NEW w \in Workers, ElseMoves(w),
         UNCHANGED provider
  PROVE  CallersSound'
<1>1. \A v \in Workers \ {w} : worker'[v] = worker[v]
  BY DEF TypeOK, ElseMoves, Finish, Throw, Goto, GotoWith
<1>2. CallerKept(w)
  <2>1. worker[w] \in Process
    BY DEF TypeOK
  <2>2. CASE Finish(w)
    BY <2>2 DEF TypeOK, Finish, IdleProcess, CallerKept, ToBoundary, Stopped
  <2>3. ASSUME NEW c \in Causes \ ProvenStops, Throw(w, c) PROVE CallerKept(w)
    <3>1. worker'[w].pc = "failing" /\ worker'[w].cause = c
      BY <2>1, <2>3 DEF TypeOK, Throw, Process
    <3> QED
      BY <2>3, <3>1 DEF CallerKept, ToBoundary, Stopped
  <2>4. ASSUME NEW s \in Steps \ {"claimed", "authorized", "failing", "preparing"},
               Goto(w, s) \/ \E review : GotoWith(w, s, review)
        PROVE  CallerKept(w)
    <3>1. worker'[w].pc = s
      BY <2>1, <2>4 DEF TypeOK, Goto, GotoWith, Process
    <3> QED
      BY <2>4, <3>1 DEF CallerKept, ToBoundary, Stopped
  <2> QED
    BY <2>2, <2>3, <2>4 DEF ElseMoves
<1> QED
  BY <1>1, <1>2, CallersStay DEF CallerKept, RunKept

\* The new claim is of an attempt nothing was done for.
LEMMA ClaimKeepsCallers ==
  ASSUME TypeOK, BindingInv, CallersSound, NEW w \in Workers, NEW b \in Attempts,
         ClaimSubmission(w, b)
  PROVE  CallersSound'
<1>1. /\ attempt[b].packet = None /\ UNCHANGED provider
      /\ worker'[w].pc = "claimed" /\ worker'[w].snap.claim = b
      /\ \A v \in Workers \ {w} : worker'[v] = worker[v]
  BY DEF ClaimSubmission, MayClaim, GotoWith, TypeOK, Process, Review
<1>2. provider[b].phase = "none"
  <2>1. ~ Has(ledger[b], "boundary_authorized")
    BY <1>1 DEF BindingInv, AttemptBound, Has
  <2> QED
    BY <2>1 DEF BindingInv, AttemptBound
<1>3. \A v \in Workers : ToBoundary(v) => worker[v].snap.claim # b
  BY <1>1, WorkersAttempts DEF ToBoundary, BoundSteps, ClaimOf
<1>4. ~ Stopped(w)'
  BY <1>1 DEF Stopped
<1> QED
  BY <1>1, <1>2, <1>3, <1>4 DEF CallersSound, ToBoundary, Stopped, At

LEMMA WorkerCallers ==
  ASSUME TypeOK, BindingInv, CallersSound, NEW w \in Workers, WorkerStep(w)
  PROVE  CallersSound'
<1> DEFINE a == ClaimOf(w)
<1>0. worker[w] \in Process
  BY DEF TypeOK
<1>1. ASSUME NEW c, EarlyThrow(w, c) PROVE CallersSound'
  <2>1. /\ UNCHANGED provider
        /\ worker'[w].pc = "failing" /\ worker'[w].cause = c
        /\ worker'[w].snap = worker[w].snap
        /\ \A v \in Workers \ {w} : worker'[v] = worker[v]
    BY <1>0, <1>1 DEF EarlyThrow, PrepareThrows, ThrowBeforeBoundary, CallStopped,
                      Throw, TypeOK, Process
  <2>2. CASE CallStopped(w, c)
    <3>1. provider'[a].phase = "ended" /\ ~ provider'[a].pressed
      BY <2>1, <2>2 DEF CallStopped, NeverPressed
    <3>2. CallerKept(w)
      BY <2>1, <3>1 DEF CallerKept, ToBoundary, ClaimOf
    <3> QED
      BY <2>1, <3>2, CallersStay DEF CallerKept, RunKept
  <2>3. CASE ~ CallStopped(w, c)
    <3>1. ~ Stopped(w)'
      <4>1. CASE At(w, "preparing")
        BY <2>1, <4>1 DEF CallersSound, Stopped
      <4>2. CASE ~ At(w, "preparing")
        BY <1>1, <2>1, <2>3, <4>2 DEF EarlyThrow, PrepareThrows, Stopped, ProvenStops
      <4> QED
        BY <4>1, <4>2
    <3>2. CallerKept(w)
      BY <2>1, <3>1 DEF CallerKept, ToBoundary
    <3> QED
      BY <2>1, <3>2, CallersStay DEF CallerKept, RunKept
  <2> QED
    BY <2>2, <2>3
<1>2. ASSUME ElseMoves(w), UNCHANGED provider PROVE CallersSound'
  BY <1>2, ElseKeepsCallers
<1>3. CASE ClaimPreparation(w)
  <2> DEFINE claimed == [worker[w].snap EXCEPT !.status = "preparing", !.claim = None]
  <2>a. claimed.claim = None
    BY <1>0 DEF Process, Review
  <2>b. UNCHANGED provider /\ (GotoWith(w, "preparing", claimed) \/ Finish(w))
    BY <1>3 DEF ClaimPreparation
  <2> HIDE DEF claimed
  <2>1. /\ UNCHANGED provider /\ \A v \in Workers \ {w} : worker'[v] = worker[v]
        /\ \/ worker'[w].pc = "preparing" /\ worker'[w].snap.claim = None
           \/ worker'[w].pc = "idle"
    BY <1>0, <2>a, <2>b DEF GotoWith, Finish, IdleProcess, TypeOK, Process
  <2>2. CallerKept(w)
    BY <2>1 DEF CallerKept, ToBoundary, Stopped
  <2> QED
    BY <2>1, <2>2, CallersStay DEF CallerKept, RunKept
<1>4. CASE Reload(w)
  BY <1>2, <1>4 DEF Reload, ElseMoves, Steps
<1>5. ASSUME NEW s \in StopStatuses \cup {"submitting"}, PrepareParks(w, s)
      PROVE  CallersSound'
  BY <1>2, <1>5 DEF PrepareParks, ElseMoves, Steps
<1>6. ASSUME NEW s \in StopStatuses, HoldBeforeClaim(w, s) \/ StopBeforeBoundary(w, s)
      PROVE  CallersSound'
  BY <1>2, <1>6 DEF HoldBeforeClaim, StopBeforeBoundary, ElseMoves
<1>7. ASSUME NEW b \in Attempts, ClaimSubmission(w, b) PROVE CallersSound'
  BY <1>7, ClaimKeepsCallers
<1>8. CASE Authorize(w)
  <2>1. /\ UNCHANGED provider /\ \A v \in Workers \ {w} : worker'[v] = worker[v]
        /\ worker[w].pc = "claimed" /\ worker'[w].pc = "authorized"
        /\ worker'[w].snap = worker[w].snap
    BY <1>0, <1>8 DEF Authorize, At, Goto, TypeOK, Process
  <2>2. CallerKept(w)
    BY <2>1 DEF CallerKept, ToBoundary, Stopped
  <2> QED
    BY <2>1, <2>2, CallersStay DEF CallerKept, RunKept
<1>9. CASE \/ ClaimLost(w) \/ AuthorizeRefused(w) \/ CallRefused(w)
           \/ RecoverPending(w) \/ NoSubmitControl(w) \/ ReadReceipt(w)
           \/ ThrowAfterBoundary(w) \/ RecordPress(w) \/ RecordRefused(w)
           \/ RecordUnverified(w) \/ RecordFailure(w)
  BY <1>2, <1>9 DEF ClaimLost, AuthorizeRefused, CallRefused, RecoverPending,
       NoSubmitControl, ReadReceipt, ThrowAfterBoundary, RecordPress, RecordRefused,
       RecordUnverified, RecordFailure, ElseMoves, Steps, Causes, ProvenStops
<1>10. ASSUME NEW reported \in BOOLEAN,
              NEW s \in {"confirming", "refusing", "unverifying"},
              \/ CallLost(w, reported) \/ RecordConfirmed(w, reported)
              \/ ReceiveAnswer(w, s, reported) \/ RecoverResult(w, s, reported)
       PROVE  CallersSound'
  BY <1>2, <1>10 DEF CallLost, RecordConfirmed, ReceiveAnswer, RecoverResult, ElseMoves,
                     Steps
<1>11. ASSUME CallProvider(w) \/ \E accepted \in BOOLEAN : ClickFinalSubmit(w, accepted)
       PROVE  CallersSound'
  <2>1. /\ worker[w].pc = "authorized" /\ worker'[w].pc \in {"calling", "clicked"}
        /\ \A v \in Workers \ {w} : worker'[v] = worker[v]
        /\ \A b \in Attempts \ {a} : provider'[b] = provider[b]
    BY <1>0, <1>11 DEF CallProvider, ClickFinalSubmit, At, Goto, TypeOK, Process
  <2>2. CallerKept(w)
    BY <2>1 DEF CallerKept, ToBoundary, Stopped
  <2>3. provider[a].phase = "none"
    BY <2>1 DEF CallersSound, ToBoundary, ClaimOf
  <2>4. \A v \in Workers : ToBoundary(v)' => worker'[v].snap.claim # a
    BY <2>1 DEF CallersSound, ToBoundary, ClaimOf
  <2>5. \A b \in Attempts : RunKept(b)
    BY <2>1, <2>3, <2>4 DEF RunKept
  <2> QED
    BY <2>1, <2>2, <2>5, CallersStay DEF CallerKept
<1> QED
  BY <1>1, <1>3, <1>4, <1>5, <1>6, <1>7, <1>8, <1>9, <1>10, <1>11
     DEF WorkerStep, EarlyThrow

LEMMA NextCallers ==
  ASSUME TypeOK, BindingInv, CallersSound, [Next]_vars
  PROVE  CallersSound'
<1>1. ASSUME UNCHANGED <<worker, provider>> PROVE CallersSound'
  BY <1>1 DEF CallersSound, ToBoundary, Stopped, At
<1>2. CASE ApplicantNext
  BY <1>1, <1>2 DEF ApplicantNext, RequestRead, RequestVerdict, RequestRefused,
       SubmitRequest, Approve, AnswerNotThere, AnswerFound, AnswerPacketNotThere,
       AnswerPacketFound, RepairOnLoad, RepairParked, CloseAbandoned
<1>3. CASE EvidenceNext \/ Tick \/ UNCHANGED vars
  BY <1>1, <1>3 DEF EvidenceNext, MailConfirms, StoredResponseConfirms, Tick, vars
<1>4. ASSUME NEW p \in Packets, CronSelects(p) PROVE CallersSound'
  BY <1>1, <1>4 DEF CronSelects
<1>5. ASSUME NEW w \in Workers, NEW p \in Packets, LoadPacket(w, p) PROVE CallersSound'
  <2>1. /\ UNCHANGED provider /\ \A v \in Workers \ {w} : worker'[v] = worker[v]
        /\ worker'[w] = worker[w] \/ worker'[w].pc \in {"loaded", "recovering", "idle"}
    BY <1>5 DEF LoadPacket, FirstStep, TypeOK
  <2>2. CallerKept(w)
    BY <2>1 DEF CallerKept, ToBoundary, Stopped
  <2> QED
    BY <2>1, <2>2, CallersStay DEF CallerKept, RunKept
<1>6. ASSUME NEW w \in Workers, WorkerStep(w) PROVE CallersSound'
  BY <1>6, WorkerCallers
<1>7. ASSUME NEW w \in Workers, WorkerCrash(w) PROVE CallersSound'
  BY <1>7, ElseKeepsCallers DEF WorkerCrash, ElseMoves
<1>8. ASSUME NEW a \in Attempts, NEW accepted \in BOOLEAN,
             ProviderPress(a, accepted) \/ ProviderEnds(a)
      PROVE  CallersSound'
  <2>1. /\ UNCHANGED worker /\ provider[a].phase = "running"
        /\ \A b \in Attempts \ {a} : provider'[b] = provider[b]
    BY <1>8 DEF ProviderPress, ProviderEnds, TypeOK
  <2>2. \A v \in Workers : ToBoundary(v)' => worker'[v].snap.claim # a
    BY <2>1 DEF CallersSound, ToBoundary
  <2>3. \A b \in Attempts : RunKept(b)
    BY <2>1, <2>2 DEF RunKept
  <2> QED
    BY <2>1, <2>3, CallersStay DEF CallerKept
<1> QED
  BY <1>2, <1>3, <1>4, <1>5, <1>6, <1>7, <1>8 DEF Next, RunnerNext, ProviderStep

LEMMA InitCallers == Init => CallersSound
BY DEF Init, CallersSound, ToBoundary, Stopped, IdleProcess, At

\* The processes on their way to the provider, and those its runs stopped with proof.
LEMMA CallersHold == Spec => [](TypeOK /\ BindingInv /\ CallersSound)
<1>1. Init => TypeOK /\ BindingInv /\ CallersSound
  BY InitTypeOK, InitBinding, InitCallers
<1>2. TypeOK /\ BindingInv /\ CallersSound /\ [Next]_vars
        => (TypeOK /\ BindingInv /\ CallersSound)'
  BY NextTypeOK, NextBinding, NextCallers
<1> QED
  BY <1>1, <1>2, PTL DEF Spec

\* A run that stopped with proof files nothing any more.
LEMMA StoppedFileNothing ==
  ASSUME TypeOK, BindingInv, CallersSound, NEW w \in Workers, Stopped(w)
  PROVE  worker[w].snap.claim \in Attempts /\ ~ FiledOrMayFile(worker[w].snap.claim)
BY CallersAttempts DEF CallersSound, BindingInv, AttemptBound, FiledOrMayFile, MayFile

\* What closes an attempt whose boundary was authorized, with the error's proof.
LEMMA ReleasedProofs ==
  ASSUME NEW cause, NEW authorized
  PROVE  \/ ReleasedClaimProof(cause, authorized) = "typed_pre_click_stop"
         \/ /\ cause \in ProvenStops
            /\ ReleasedClaimProof(cause, authorized)
                 \in {"run_progress_proven_not_pressed", "plan_position_proven_not_pressed"}
BY DEF ReleasedClaimProof, ProvenStops

-----------------------------------------------------------------------------
(* FilingInv is inductive *)

LEMMA InitFiling == Init => FilersBlock /\ OneFiler /\ RefusalsSound
<1> SUFFICES ASSUME Init PROVE FilersBlock /\ OneFiler /\ RefusalsSound
  OBVIOUS
<1>1. \A a \in Attempts : ~ FiledOrMayFile(a)
  BY DEF Init, FiledOrMayFile, MayFile, LeaseActive, Has
<1>2. RefusalsSound
  BY DEF Init, RefusalsSound, IdleProcess
<1> QED
  BY <1>1, <1>2 DEF FilersBlock, OneFiler

\* The applicant's truthful answer is never about an attempt the employer holds.
LEMMA TruthfulAnswers ==
  ASSUME ApplicantErrs = FALSE, NEW p \in Packets, SaysNotThere(p), NEW a \in Attempts,
         attempt[a].packet = p
  PROVE  ~ filed[a]
<1>1. p # None
  BY NoneAssumption
<1> QED
  BY <1>1 DEF SaysNotThere, EmployerHolds

\* An attempt that never reached the employer is not filed and may not be.
LEMMA UnreachedAreNoFilers ==
  ASSUME TypeOK, BindingInv, NEW a \in Attempts, NeverReachedEmployer(ledger[a])
  PROVE  ~ FiledOrMayFile(a)
BY FilersAreBound DEF NeverReachedEmployer

LEMMA ApplicantFiling ==
  ASSUME ApplicantErrs = FALSE, TypeOK, FilingInv, ApplicantNext
  PROVE  FilersBlock' /\ OneFiler' /\ RefusalsSound'
<1> DEFINE checked == NotSent("applicant_checked_not_sent")
           stop == NotSent("typed_pre_click_stop")
<1>0. TypeOK /\ BindingInv /\ FilersBlock /\ OneFiler /\ RefusalsSound
  BY DEF FilingInv
<1>a. UNCHANGED <<now, attempt, provider, filed, worker>>
  BY DEF ApplicantNext, RequestRead, RequestVerdict, RequestRefused, SubmitRequest,
         Approve, AnswerNotThere, AnswerFound, AnswerPacketNotThere,
         AnswerPacketFound, RepairOnLoad, RepairParked, CloseAbandoned
<1>b. RefusalsSound'
  BY <1>0, <1>a DEF RefusalsSound
<1>c. /\ checked \in Fact /\ checked.kind = "not_sent_proven"
      /\ stop \in Fact /\ stop.kind = "not_sent_proven"
      /\ Confirmed \in Fact /\ Confirmed.kind = "submission_confirmed"
  BY FactTypes DEF NotSent, Confirmed
<1> HIDE DEF checked, stop
<1>1. CASE UNCHANGED ledger
  BY <1>0, <1>1, <1>a, <1>b, QuietKeeps
<1>2. ASSUME NEW p \in Packets, AnswerNotThere(p)
      PROVE  FilersBlock' /\ OneFiler' /\ RefusalsSound'
  <2> DEFINE a == row[p].claim
  <2>1. a \in Attempts /\ attempt[a].packet = p
    BY <1>0, <1>2, ClaimedAttempts
       DEF AnswerNotThere, AsksAboutClaim, BindingInv, RowBound
  <2>2. ~ FiledOrMayFile(a)
    BY <1>2, <2>1, TruthfulAnswers DEF AnswerNotThere, FiledOrMayFile, MayFile
  <2>3. AppendFact(a, checked)
    BY <1>2 DEF AnswerNotThere, checked
  <2> QED
    BY <1>0, <1>a, <1>b, <1>c, <2>1, <2>2, <2>3, AppendKeeps
<1>3. ASSUME NEW p \in Packets, AnswerPacketNotThere(p)
      PROVE  FilersBlock' /\ OneFiler' /\ RefusalsSound'
  <2>1. ASSUME NEW a \in Attempts, ledger'[a] # ledger[a]
        PROVE  ledger'[a] = Append(ledger[a], checked) /\ ~ FiledOrMayFile(a)
    <3>1. /\ a \in AttemptsOf(p)
          /\ MayHavePressed(a) \/ NeverReachedEmployer(ledger[a])
          /\ ledger'[a] = Append(ledger[a], checked)
      BY <1>3, <2>1 DEF AnswerPacketNotThere, checked
    <3>2. ~ filed[a]
      BY <1>3, <3>1, TruthfulAnswers DEF AnswerPacketNotThere, AttemptsOf
    <3>3. ~ FiledOrMayFile(a)
      BY <1>0, <1>3, <3>1, <3>2, UnreachedAreNoFilers
         DEF AnswerPacketNotThere, AsksAboutPacket, FiledOrMayFile, MayFile
    <3> QED
      BY <3>1, <3>3
  <2>2. \A a \in Attempts :
           \/ ledger'[a] = ledger[a]
           \/ \E fact \in Fact :
                /\ ledger'[a] = Append(ledger[a], fact)
                /\ fact.kind # "boundary_authorized"
                /\ fact.kind = "not_sent_proven"
                     => ~ FiledOrMayFile(a) \/ Blocking(ledger'[a])
    BY <2>1, <1>c
  <2> QED
    BY <1>0, <1>a, <1>b, <2>2, RecordingKeeps
<1>4. ASSUME NEW p \in Packets, AnswerFound(p) \/ AnswerPacketFound(p)
      PROVE  FilersBlock' /\ OneFiler' /\ RefusalsSound'
  <2>1. \E a \in Attempts : AppendFact(a, Confirmed)
    BY <1>0, <1>4, ClaimedAttempts
       DEF AnswerFound, AsksAboutClaim, AnswerPacketFound, AttemptsOf
  <2> QED
    BY <1>0, <1>a, <1>b, <1>c, <2>1, AppendKeeps
<1>5. ASSUME NEW a \in Attempts, NeverReachedEmployer(ledger[a]), AppendFact(a, stop)
      PROVE  FilersBlock' /\ OneFiler' /\ RefusalsSound'
  BY <1>0, <1>a, <1>b, <1>c, <1>5, UnreachedAreNoFilers, AppendKeeps
<1>6. ASSUME NEW p \in Packets, RepairOnLoad(p)
      PROVE  FilersBlock' /\ OneFiler' /\ RefusalsSound'
  BY <1>0, <1>5, <1>6, ClaimedAttempts DEF RepairOnLoad, stop
<1>7. ASSUME NEW a \in Attempts, CloseAbandoned(a)
      PROVE  FilersBlock' /\ OneFiler' /\ RefusalsSound'
  BY <1>5, <1>7 DEF CloseAbandoned, stop
<1>8. ASSUME NEW p \in Packets, RepairParked(p) PROVE UNCHANGED ledger
  BY <1>8 DEF RepairParked
<1>9. ASSUME NEW r \in Requests,
             \/ \E p \in Packets : \E kind \in {"submit", "approve"} :
                  RequestRead(r, p, kind)
             \/ RequestVerdict(r) \/ RequestRefused(r) \/ SubmitRequest(r) \/ Approve(r)
      PROVE  UNCHANGED ledger
  BY <1>9 DEF RequestRead, RequestVerdict, RequestRefused, SubmitRequest, Approve
<1> QED
  BY <1>1, <1>2, <1>3, <1>4, <1>6, <1>7, <1>8, <1>9 DEF ApplicantNext

\* A confirmation only adds to what blocks.
LEMMA EvidenceFiling ==
  ASSUME TypeOK, FilingInv, EvidenceNext
  PROVE  FilersBlock' /\ OneFiler' /\ RefusalsSound'
<1>0. TypeOK /\ BindingInv /\ FilersBlock /\ OneFiler /\ RefusalsSound
  BY DEF FilingInv
<1>1. PICK p \in Packets : MailConfirms(p) \/ StoredResponseConfirms(p)
  BY DEF EvidenceNext
<1>2. UNCHANGED <<now, attempt, provider, filed, worker>>
  BY <1>1 DEF MailConfirms, StoredResponseConfirms
<1>3. \E a \in Attempts : AppendFact(a, Confirmed)
  BY <1>0, <1>1, ClaimedAttempts DEF MailConfirms, StoredResponseConfirms
<1>4. Confirmed \in Fact /\ Confirmed.kind = "submission_confirmed"
  BY FactTypes DEF Confirmed
<1>5. FilersBlock' /\ OneFiler'
  BY <1>0, <1>2, <1>3, <1>4, AppendKeeps
<1> QED
  BY <1>0, <1>2, <1>5 DEF RefusalsSound

\* The boundary is authorized for an attempt only when no other attempt of its posting
\* is filed or may be.
LEMMA AuthorizedAlone ==
  ASSUME TypeOK, BindingInv, FilersBlock, NEW w \in Workers, Authorize(w),
         NEW b \in Attempts \ {ClaimOf(w)}, FiledOrMayFile(b)'
  PROVE  PostingOf[attempt'[b].packet] # PostingOf[worker[w].packet]
<1> DEFINE a == ClaimOf(w)
<1>1. a \in Attempts /\ BoundaryClear(worker[w].packet, a, worker[w].snap)
  BY WorkersAttempts DEF Authorize, At, BoundSteps
<1>2. /\ UNCHANGED <<now, provider, filed>>
      /\ ledger'[b] = ledger[b] /\ attempt'[b] = attempt[b]
  BY <1>1 DEF Authorize, AppendFact, TypeOK
<1>3. FiledOrMayFile(b) /\ Blocking(ledger[b])
  BY <1>2 DEF FilersBlock, FiledOrMayFile, MayFile, LeaseActive
<1>4. attempt[b].packet # None
  BY <1>3, FilersAreBound
<1> QED
  BY <1>1, <1>2, <1>3, <1>4 DEF BoundaryClear, Clear

\* An authorization makes one attempt a filer, after every other one of the posting
\* was found closed (assertFinalRunnerBoundaryClear's duplicate gate).
LEMMA AuthorizeFiling ==
  ASSUME TypeOK, BindingInv, FilersBlock, OneFiler, NEW w \in Workers, Authorize(w)
  PROVE  FilersBlock' /\ OneFiler'
<1> DEFINE a == ClaimOf(w)
           p == worker[w].packet
<1>1. /\ a \in Attempts /\ attempt[a].packet = p /\ p \in Packets
      /\ BoundaryClear(p, a, worker[w].snap)
  BY WorkersAttempts DEF Authorize, At, BoundSteps, TypeOK, Process
<1>2. /\ ledger' = [ledger EXCEPT ![a] = Append(ledger[a], Authorized)]
      /\ attempt' = [attempt EXCEPT ![a].lease = now + LeaseTTL]
      /\ UNCHANGED <<now, provider, filed>>
  BY DEF Authorize, AppendFact
<1>3. ASSUME NEW b \in Attempts \ {a}
      PROVE  ledger'[b] = ledger[b] /\ attempt'[b] = attempt[b]
  BY <1>2 DEF TypeOK
<1>4. \A b \in Attempts \ {a} : FiledOrMayFile(b)' <=> FiledOrMayFile(b)
  BY <1>2, <1>3 DEF FiledOrMayFile, MayFile, LeaseActive
<1>5. \A b \in Attempts : attempt'[b].packet = attempt[b].packet
  BY <1>2 DEF TypeOK, Binding
<1>6. Blocking(ledger'[a])
  <2>1. Blocking(ledger[a])
    BY <1>1 DEF BoundaryClear, Blocking
  <2>2. /\ ledger[a] \in Seq(Fact) /\ ledger'[a] = Append(ledger[a], Authorized)
        /\ Authorized \in Fact /\ Authorized.kind # "not_sent_proven"
    BY <1>1, <1>2, FactTypes DEF TypeOK, Authorized
  <2> QED
    BY <2>1, <2>2, BlockingSurvives
<1>7. FilersBlock'
  BY <1>3, <1>4, <1>6 DEF FilersBlock
<1>8. ASSUME NEW b \in Attempts \ {a}, FiledOrMayFile(b)'
      PROVE  PostingOf[attempt'[b].packet] # PostingOf[attempt'[a].packet]
  BY <1>1, <1>5, <1>8, AuthorizedAlone
<1>9. ASSUME NEW b \in Attempts, NEW c \in Attempts, b # c,
             FiledOrMayFile(b)', FiledOrMayFile(c)'
      PROVE  PostingOf[attempt'[b].packet] # PostingOf[attempt'[c].packet]
  <2>1. CASE b # a /\ c # a
    BY <1>4, <1>5, <1>9, <2>1 DEF OneFiler
  <2>2. CASE b = a \/ c = a
    BY <1>8, <1>9, <2>2
  <2> QED
    BY <2>1, <2>2
<1> QED
  BY <1>7, <1>9 DEF OneFiler

\* A freshly opened attempt may not file yet.
LEMMA ClaimFiling ==
  ASSUME TypeOK, BindingInv, FilersBlock, OneFiler, NEW w \in Workers,
         NEW a \in Attempts, ClaimSubmission(w, a)
  PROVE  FilersBlock' /\ OneFiler'
<1>1. /\ attempt[a].packet = None
      /\ ledger' = [ledger EXCEPT ![a] = Append(ledger[a], Opened)]
      /\ attempt' = [attempt EXCEPT ![a] = [packet |-> worker[w].packet,
                                            openedAt |-> now, lease |-> 0]]
      /\ UNCHANGED <<now, provider, filed>>
  BY DEF ClaimSubmission, AppendFact
<1>2. ~ FiledOrMayFile(a)'
  <2>1. ledger[a] \in Seq(Fact) /\ ledger'[a] = Append(ledger[a], Opened)
        /\ Opened \in Fact /\ Opened.kind # "boundary_authorized"
    BY <1>1, FactTypes DEF TypeOK, Opened
  <2>2. ~ Has(ledger[a], "boundary_authorized")
    BY <1>1, BoundAttempts
  <2>3. ~ Has(ledger'[a], "boundary_authorized")
    BY <2>1, <2>2, HasAppended
  <2>4. ~ filed[a]
    BY <2>2 DEF BindingInv, AttemptBound
  <2> QED
    BY <1>1, <2>3, <2>4 DEF FiledOrMayFile, MayFile, LeaseActive
<1>3. \A b \in Attempts \ {a} : ledger'[b] = ledger[b] /\ attempt'[b] = attempt[b]
  BY <1>1 DEF TypeOK
<1>4. \A b \in Attempts \ {a} : FiledOrMayFile(b)' <=> FiledOrMayFile(b)
  BY <1>1, <1>3 DEF FiledOrMayFile, MayFile, LeaseActive
<1>5. BindingsStay
  BY <1>1, <1>3 DEF BindingsStay
<1>6. \A b \in Attempts : FiledOrMayFile(b)' => FiledOrMayFile(b)
  BY <1>2, <1>4
<1>7. \A b \in Attempts :
        FiledOrMayFile(b)' /\ Blocking(ledger[b]) => Blocking(ledger'[b])
  BY <1>2, <1>3
<1> QED
  BY <1>5, <1>6, <1>7, FilersKeep

\* No step of the runner itself presses Send.
NoClick == \A w \in Workers, accepted \in BOOLEAN : ~ ClickFinalSubmit(w, accepted)

LEMMA WorkerFiling ==
  ASSUME NoClick, TypeOK, FilingInv, NEW w \in Workers, WorkerStep(w)
  PROVE  FilersBlock' /\ OneFiler' /\ RefusalsSound'
<1> DEFINE a == ClaimOf(w)
           snap == worker[w].snap
           stop == NotSent("typed_pre_click_stop")
           refused == NotSent("employer_rejected_not_filed")
<1>0. TypeOK /\ BindingInv /\ FilersBlock /\ OneFiler /\ RefusalsSound /\ CallersSound
  BY DEF FilingInv
<1>a. /\ stop \in Fact /\ stop.kind = "not_sent_proven"
      /\ refused \in Fact /\ refused.kind = "not_sent_proven"
      /\ Confirmed \in Fact /\ Confirmed.kind = "submission_confirmed"
      /\ Pressed \in Fact /\ Pressed.kind = "press_observed"
  BY FactTypes DEF NotSent, Confirmed, Pressed
<1>b. snap.claim \in Attempts \cup {None} /\ a = snap.claim
  BY <1>0 DEF TypeOK, Process, Review, ClaimOf
<1> HIDE DEF stop, refused
<1>1. ASSUME UNCHANGED <<now, ledger, attempt, provider, filed>>,
             \/ Finish(w) \/ \E c \in Causes : Throw(w, c)
             \/ \E s \in Steps \ {"refusing"} :
                  Goto(w, s) \/ \E review : GotoWith(w, s, review)
      PROVE  FilersBlock' /\ OneFiler' /\ RefusalsSound'
  BY <1>0, <1>1, QuietKeeps, MovedRefusals
<1>2. CASE ClaimPreparation(w) \/ Reload(w)
  <2>1. Finish(w) \/ \E s \in Steps \ {"refusing"} : \E review : GotoWith(w, s, review)
    BY <1>2 DEF ClaimPreparation, Reload, Steps
  <2> QED
    BY <1>1, <1>2, <2>1 DEF ClaimPreparation, Reload
<1>3. ASSUME NEW s \in StopStatuses \cup {"submitting"}, PrepareParks(w, s)
      PROVE  FilersBlock' /\ OneFiler' /\ RefusalsSound'
  BY <1>1, <1>3 DEF PrepareParks, Steps
<1>4. ASSUME NEW s \in StopStatuses, HoldBeforeClaim(w, s)
      PROVE  FilersBlock' /\ OneFiler' /\ RefusalsSound'
  BY <1>1, <1>4 DEF HoldBeforeClaim
<1>5. ASSUME NEW s \in StopStatuses, StopBeforeBoundary(w, s)
      PROVE  FilersBlock' /\ OneFiler' /\ RefusalsSound'
  <2>1. a \in Attempts
    BY <1>0, <1>5, WorkersAttempts DEF StopBeforeBoundary, At, BoundSteps
  <2>2. AppendFact(a, stop) \/ UNCHANGED ledger
    BY <1>5 DEF StopBeforeBoundary, stop
  <2>3. Finish(w) /\ UNCHANGED <<now, attempt, provider, filed>>
    BY <1>5 DEF StopBeforeBoundary
  <2>4. ~ FiledOrMayFile(a) \/ Blocking(Append(ledger[a], stop))
    BY <1>0, <2>1, TypedStopKeeps DEF stop
  <2> QED
    BY <1>0, <1>a, <2>1, <2>2, <2>3, <2>4, AppendKeeps, MovedRefusals
<1>6. ASSUME NEW c, EarlyThrow(w, c) PROVE FilersBlock' /\ OneFiler' /\ RefusalsSound'
  BY <1>1, <1>6, EarlyCauses
     DEF EarlyThrow, PrepareThrows, ThrowBeforeBoundary, CallStopped
<1>7. ASSUME NEW b \in Attempts, ClaimSubmission(w, b)
      PROVE  FilersBlock' /\ OneFiler' /\ RefusalsSound'
  <2>1. UNCHANGED <<provider, filed>>
        /\ \E s \in Steps \ {"refusing"} : \E review : GotoWith(w, s, review)
    BY <1>7 DEF ClaimSubmission, Steps
  <2>2. RefusalsSound'
    BY <1>0, <2>1, MovedRefusals
  <2> QED
    BY <1>0, <1>7, <2>2, ClaimFiling
<1>8. CASE Authorize(w)
  <2>1. UNCHANGED <<provider, filed>> /\ \E s \in Steps \ {"refusing"} : Goto(w, s)
    BY <1>8 DEF Authorize, Steps
  <2>2. RefusalsSound'
    BY <1>0, <2>1, MovedRefusals
  <2> QED
    BY <1>0, <1>8, <2>2, AuthorizeFiling
<1>9. CASE \/ ClaimLost(w) \/ AuthorizeRefused(w) \/ CallRefused(w)
           \/ RecoverPending(w) \/ NoSubmitControl(w) \/ ReadReceipt(w)
           \/ ThrowAfterBoundary(w)
  <2>1. UNCHANGED <<now, ledger, attempt, provider, filed>>
    BY <1>9 DEF ClaimLost, AuthorizeRefused, CallRefused, RecoverPending,
                NoSubmitControl, ReadReceipt, ThrowAfterBoundary
  <2>2. \/ Finish(w) \/ \E c \in Causes : Throw(w, c)
        \/ \E s \in Steps \ {"refusing"} : Goto(w, s)
    BY <1>9 DEF ClaimLost, AuthorizeRefused, CallRefused, RecoverPending,
                NoSubmitControl, ReadReceipt, ThrowAfterBoundary, Causes, Steps
  <2> QED
    BY <1>1, <2>1, <2>2
<1>10. CASE CallProvider(w)
  <2>1. UNCHANGED <<now, ledger, attempt, filed>>
        /\ \A b \in Attempts : provider'[b].pressed = provider[b].pressed
    BY <1>0, <1>10 DEF CallProvider, TypeOK, ProviderRun
  <2>2. \E s \in Steps \ {"refusing"} : Goto(w, s)
    BY <1>10 DEF CallProvider, Steps
  <2>3. \A b \in Attempts : provider'[b].phase # "ended" => provider[b].phase # "ended"
    BY <1>0, <1>10 DEF CallProvider, CallersSound, ToBoundary, At, ClaimOf, TypeOK
  <2>4. \A b \in Attempts : FiledOrMayFile(b)' => FiledOrMayFile(b)
    BY <2>1, <2>3 DEF FiledOrMayFile, MayFile, LeaseActive
  <2>5. BindingsStay
    BY <2>1 DEF BindingsStay
  <2> QED
    BY <1>0, <2>1, <2>2, <2>4, <2>5, FilersKeep, MovedRefusals
<1>11. ASSUME NEW reported \in BOOLEAN,
              NEW s \in {"confirming", "refusing", "unverifying"},
              \/ CallLost(w, reported) \/ RecordPress(w)
              \/ ReceiveAnswer(w, s, reported) \/ RecoverResult(w, s, reported)
       PROVE  FilersBlock' /\ OneFiler' /\ RefusalsSound'
  <2>1. /\ UNCHANGED <<now, attempt, provider, filed>>
        /\ AppendFact(a, Pressed) \/ UNCHANGED ledger
    BY <1>11 DEF CallLost, RecordPress, ReceiveAnswer, RecoverResult, AppendPressOnce
  <2>2. a \in Attempts
    BY <1>0, <1>11, WorkersAttempts
       DEF CallLost, RecordPress, ReceiveAnswer, RecoverResult, At, BoundSteps
  <2>3. FilersBlock' /\ OneFiler'
    BY <1>0, <1>a, <2>1, <2>2, AppendKeeps
  <2>4. RefusalsSound'
    <3>1. CASE \E t \in Steps \ {"refusing"} : Goto(w, t)
      BY <1>0, <2>1, <3>1, MovedRefusals
    <3>2. CASE Goto(w, "refusing") /\ Proves(a, "refusing")
      <4>1. /\ worker'[w].snap = snap
            /\ \A v \in Workers \ {w} : worker'[v] = worker[v]
        BY <1>0, <3>2 DEF Goto, TypeOK, Process
      <4>2. provider'[a].pressed /\ ~ filed'[a]
        BY <2>1, <3>2 DEF Proves
      <4> QED
        BY <1>0, <1>b, <2>1, <4>1, <4>2, RefusalsStay
    <3> QED
      BY <1>11, <3>1, <3>2
         DEF CallLost, RecordPress, ReceiveAnswer, RecoverResult, Steps
  <2> QED
    BY <2>3, <2>4
<1>12. ASSUME NEW accepted \in BOOLEAN, ClickFinalSubmit(w, accepted)
       PROVE  FALSE
  BY <1>12 DEF NoClick
<1>13. ASSUME NEW parked \in BOOLEAN, RecordConfirmed(w, parked)
       PROVE  FilersBlock' /\ OneFiler' /\ RefusalsSound'
  <2>1. a \in Attempts
    BY <1>0, <1>13, WorkersAttempts DEF RecordConfirmed, At, BoundSteps
  <2>2. /\ AppendFact(a, Confirmed) \/ UNCHANGED ledger
        /\ Finish(w) /\ UNCHANGED <<now, attempt, provider, filed>>
    BY <1>13 DEF RecordConfirmed, AppendConfirmationOnce
  <2> QED
    BY <1>0, <1>a, <2>1, <2>2, AppendKeeps, MovedRefusals
<1>14. CASE RecordRefused(w)
  <2>1. a \in Attempts
    BY <1>0, <1>14, WorkersAttempts DEF RecordRefused, At, BoundSteps
  <2>2. /\ AppendFact(a, refused) \/ UNCHANGED ledger
        /\ Finish(w) /\ UNCHANGED <<now, attempt, provider, filed>>
    BY <1>14 DEF RecordRefused, refused
  <2>3. ~ FiledOrMayFile(a)
    BY <1>0, <1>b, <1>14 DEF RecordRefused, At, RefusalsSound, FiledOrMayFile, MayFile
  <2> QED
    BY <1>0, <1>a, <2>1, <2>2, <2>3, AppendKeeps, MovedRefusals
<1>15. CASE RecordUnverified(w)
  BY <1>1, <1>15 DEF RecordUnverified
<1>16. CASE RecordFailure(w)
  <2> DEFINE cause == worker[w].cause
             proof == ReleasedClaimProof(cause, a # None /\ Has(ledger[a], "boundary_authorized"))
  <2>1. /\ UNCHANGED ledger \/ (a # None /\ AppendFact(a, NotSent(proof)))
        /\ At(w, "failing") /\ Finish(w) /\ UNCHANGED <<now, attempt, provider, filed>>
    BY <1>16, <1>b DEF RecordFailure
  <2>2. CASE UNCHANGED ledger
    BY <1>1, <2>1, <2>2
  <2>3. CASE a # None /\ AppendFact(a, NotSent(proof))
    <3>1. a \in Attempts
      BY <1>b, <2>3
    <3>2. ~ FiledOrMayFile(a) \/ Blocking(Append(ledger[a], NotSent(proof)))
      <4>1. CASE proof = "typed_pre_click_stop"
        BY <1>0, <3>1, <4>1, TypedStopKeeps
      <4>2. CASE cause \in ProvenStops
        BY <1>0, <1>b, <2>1, <2>3, <4>2, StoppedFileNothing DEF Stopped, At
      <4> QED
        BY <4>1, <4>2, ReleasedProofs
    <3>3. NotSent(proof) \in Fact /\ NotSent(proof).kind = "not_sent_proven"
      BY FactTypes DEF NotSent
    <3> HIDE DEF proof
    <3> QED
      BY <1>0, <2>1, <2>3, <3>1, <3>2, <3>3, AppendKeeps, MovedRefusals
  <2> QED
    BY <2>1, <2>2, <2>3
<1> QED
  BY <1>2, <1>3, <1>4, <1>5, <1>6, <1>7, <1>8, <1>9, <1>10, <1>11, <1>12, <1>13,
     <1>14, <1>15, <1>16 DEF WorkerStep, EarlyThrow

LEMMA RunnerFiling ==
  ASSUME NoClick, TypeOK, FilingInv, RunnerNext
  PROVE  FilersBlock' /\ OneFiler' /\ RefusalsSound'
<1>0. TypeOK /\ BindingInv /\ FilersBlock /\ OneFiler /\ RefusalsSound /\ CallersSound
  BY DEF FilingInv
<1>1. ASSUME NEW p \in Packets, CronSelects(p)
      PROVE  FilersBlock' /\ OneFiler' /\ RefusalsSound'
  <2>1. UNCHANGED <<now, ledger, attempt, provider, filed, worker>>
    BY <1>1 DEF CronSelects
  <2> QED
    BY <1>0, <2>1, QuietKeeps DEF RefusalsSound
<1>2. ASSUME NEW w \in Workers, NEW p \in Packets, LoadPacket(w, p)
      PROVE  FilersBlock' /\ OneFiler' /\ RefusalsSound'
  <2>1. UNCHANGED <<now, ledger, attempt, provider, filed>>
    BY <1>2 DEF LoadPacket
  <2>2. \A v \in Workers : worker'[v].pc = "refusing" => worker'[v] = worker[v]
    BY <1>0, <1>2 DEF LoadPacket, FirstStep, TypeOK
  <2> QED
    BY <1>0, <2>1, <2>2, QuietKeeps, RefusalsStay
<1>3. ASSUME NEW w \in Workers, WorkerCrash(w)
      PROVE  FilersBlock' /\ OneFiler' /\ RefusalsSound'
  BY <1>0, <1>3, QuietKeeps, MovedRefusals DEF WorkerCrash
<1>4. ASSUME NEW a \in Attempts, NEW accepted \in BOOLEAN, ProviderPress(a, accepted)
      PROVE  FilersBlock' /\ OneFiler' /\ RefusalsSound'
  <2>1. /\ UNCHANGED <<now, ledger, attempt, worker>>
        /\ \A b \in Attempts \ {a} : provider'[b] = provider[b] /\ filed'[b] = filed[b]
        /\ provider'[a].pressed
    BY <1>0, <1>4 DEF ProviderPress, TypeOK, ProviderRun
  <2>2. MayFile(a)
    BY <1>0, <1>4
       DEF ProviderPress, BeforeDeadline, MayFile, LeaseActive, BindingInv, AttemptBound
  <2>3. \A b \in Attempts : FiledOrMayFile(b)' => FiledOrMayFile(b)
    BY <2>1, <2>2 DEF FiledOrMayFile, MayFile, LeaseActive
  <2>4. BindingsStay
    BY <2>1 DEF BindingsStay
  <2>5. FilersBlock' /\ OneFiler'
    BY <1>0, <2>1, <2>3, <2>4, FilersKeep
  <2>6. \A b \in Attempts : provider[b].pressed /\ ~ filed[b]
                              => provider'[b].pressed /\ ~ filed'[b]
    BY <1>4, <2>1 DEF ProviderPress
  <2> QED
    BY <1>0, <2>1, <2>5, <2>6, RefusalsStay
<1>5. ASSUME NEW a \in Attempts, ProviderEnds(a)
      PROVE  FilersBlock' /\ OneFiler' /\ RefusalsSound'
  <2>1. /\ UNCHANGED <<now, ledger, attempt, worker, filed>>
        /\ \A b \in Attempts : provider'[b].pressed = provider[b].pressed
    BY <1>0, <1>5 DEF ProviderEnds, TypeOK, ProviderRun
  <2>2. \A b \in Attempts : FiledOrMayFile(b)' => FiledOrMayFile(b)
    <3>1. \A b \in Attempts : provider[b].phase = "ended" => provider'[b].phase = "ended"
      BY <1>0, <1>5 DEF ProviderEnds, TypeOK, ProviderRun
    <3> QED
      BY <2>1, <3>1 DEF FiledOrMayFile, MayFile, LeaseActive
  <2>3. BindingsStay
    BY <2>1 DEF BindingsStay
  <2> QED
    BY <1>0, <2>1, <2>2, <2>3, FilersKeep, RefusalsStay
<1> QED
  BY <1>1, <1>2, <1>3, <1>4, <1>5, WorkerFiling DEF RunnerNext, ProviderStep

LEMMA NextFiling ==
  ASSUME NoClick, ApplicantErrs = FALSE, TypeOK, FilingInv, [Next]_vars
  PROVE  FilingInv'
<1>0. TypeOK /\ BindingInv /\ FilersBlock /\ OneFiler /\ RefusalsSound /\ CallersSound
  BY DEF FilingInv
<1>1. BindingInv' /\ CallersSound'
  BY <1>0, NextBinding, NextCallers
<1>2. CASE Tick
  <2>1. UNCHANGED <<ledger, attempt, provider, filed, worker>> /\ now' = now + 1
    BY <1>2 DEF Tick
  <2>2. \A b \in Attempts : FiledOrMayFile(b)' => FiledOrMayFile(b)
    <3> SUFFICES ASSUME NEW b \in Attempts, LeaseActive(b)' PROVE LeaseActive(b)
      BY <2>1 DEF FiledOrMayFile, MayFile
    <3>1. now \in Nat /\ attempt[b].lease \in Nat
      BY BoundsAssumption DEF TypeOK, Binding
    <3> QED
      BY <2>1, <3>1 DEF LeaseActive
  <2>3. BindingsStay
    BY <2>1 DEF BindingsStay
  <2> QED
    BY <1>0, <1>1, <2>1, <2>2, <2>3, FilersKeep DEF FilingInv, RefusalsSound
<1>3. CASE UNCHANGED vars
  <2>1. UNCHANGED <<now, ledger, attempt, provider, filed, worker>>
    BY <1>3 DEF vars
  <2> QED
    BY <1>0, <1>1, <2>1, QuietKeeps DEF FilingInv, RefusalsSound
<1> QED
  BY <1>1, <1>2, <1>3, ApplicantFiling, EvidenceFiling, RunnerFiling
     DEF Next, FilingInv

-----------------------------------------------------------------------------
(* The theorems *)

LEMMA FilingHolds ==
  ASSUME Trusted
  PROVE  Spec => [](TypeOK /\ FilingInv)
<1>1. Init => TypeOK /\ FilingInv
  BY InitTypeOK, InitBinding, InitFiling, InitCallers DEF FilingInv
<1>2. TypeOK /\ FilingInv /\ [Next]_vars => (TypeOK /\ FilingInv)'
  <2>1. NoClick /\ ApplicantErrs = FALSE
    BY DEF Trusted, NoClick, ClickFinalSubmit
  <2> QED
    BY <2>1, NextTypeOK, NextFiling
<1> QED
  BY <1>1, <1>2, PTL DEF Spec

\* What the filing's safety rests on holds in every reachable state: claims and
\* processes are bound, what may be filed blocks, one attempt of a posting may be filed,
\* and a refusal is recorded only of a form the employer did not take.
THEOREM FilingInvHolds ==
  ASSUME Trusted
  PROVE  Spec => []FilingInv
BY FilingHolds, PTL

\* An employer posting never receives two applications of one user, through any
\* number of packets, processes, restarts and answers.
THEOREM NeverFiledTwice ==
  ASSUME Trusted
  PROVE  Spec => []NoDoubleFiling
<1>1. FilingInv => NoDoubleFiling
  BY DEF FilingInv, OneFiler, FiledOrMayFile, NoDoubleFiling
<1> QED
  BY <1>1, FilingHolds, PTL

\* Once the employer holds an attempt's application, the duplicate gate refuses on it.
THEOREM FiledAlwaysBlocks ==
  ASSUME Trusted
  PROVE  Spec => []FiledNeverClosed
<1>1. FilingInv => FiledNeverClosed
  BY DEF FilingInv, FilersBlock, FiledOrMayFile, FiledNeverClosed
<1> QED
  BY <1>1, FilingHolds, PTL

-----------------------------------------------------------------------------
(* What closes an authorized attempt *)

\* Only a call to the managed provider is answered with a refusal.
RefusersAreManaged ==
  \A w \in Workers :
    worker[w].pc \in {"calling", "refusing"} => Provider = "managed_browser"

\* For either provider, and whatever the applicant answers.
RefusalInv == RefusalsSound /\ RefusersAreManaged

\* A process moves on, and nothing is pressed or filed by it.
LEMMA MovedKeepsRefusals ==
  ASSUME TypeOK, BindingInv, RefusalInv, UNCHANGED <<provider, filed>>,
         NEW w \in Workers,
         \/ Finish(w)
         \/ \E c \in Causes : Throw(w, c)
         \/ \E s \in Steps \ {"calling", "refusing"} :
              Goto(w, s) \/ \E review : GotoWith(w, s, review)
  PROVE  RefusalInv'
<1>1. RefusalsSound'
  BY MovedRefusals DEF RefusalInv
<1>2. worker[w] \in Process /\ \A v \in Workers \ {w} : worker'[v] = worker[v]
  BY DEF TypeOK, Finish, Throw, Goto, GotoWith
<1>3. worker'[w].pc \notin {"calling", "refusing"}
  <2>1. CASE Finish(w)
    BY <2>1 DEF TypeOK, Finish, IdleProcess
  <2>2. ASSUME NEW c \in Causes, Throw(w, c)
        PROVE  worker'[w].pc \notin {"calling", "refusing"}
    BY <2>2, <1>2 DEF TypeOK, Throw, Process
  <2>3. ASSUME NEW s \in Steps \ {"calling", "refusing"},
               Goto(w, s) \/ \E review : GotoWith(w, s, review)
        PROVE  worker'[w].pc \notin {"calling", "refusing"}
    BY <2>3, <1>2 DEF TypeOK, Goto, GotoWith, Process
  <2> QED
    BY <2>1, <2>2, <2>3
<1>4. RefusersAreManaged'
  BY <1>2, <1>3 DEF RefusalInv, RefusersAreManaged
<1> QED
  BY <1>1, <1>4 DEF RefusalInv

LEMMA WorkerRefusals ==
  ASSUME TypeOK, BindingInv, RefusalInv, NEW w \in Workers, WorkerStep(w)
  PROVE  RefusalInv'
<1>0. RefusalsSound /\ RefusersAreManaged
  BY DEF RefusalInv
<1>b. ClaimOf(w) = worker[w].snap.claim /\ worker[w] \in Process
  BY DEF TypeOK, ClaimOf
<1>1. CASE ClaimPreparation(w) \/ Reload(w)
  <2>1. Finish(w) \/ \E s \in Steps \ {"calling", "refusing"} :
                       \E review : GotoWith(w, s, review)
    BY <1>1 DEF ClaimPreparation, Reload, Steps
  <2> QED
    BY <1>1, <2>1, MovedKeepsRefusals DEF ClaimPreparation, Reload
<1>2. ASSUME NEW s \in StopStatuses \cup {"submitting"}, PrepareParks(w, s)
      PROVE  RefusalInv'
  BY <1>2, MovedKeepsRefusals DEF PrepareParks, Steps
<1>3. ASSUME NEW s \in StopStatuses, HoldBeforeClaim(w, s) \/ StopBeforeBoundary(w, s)
      PROVE  RefusalInv'
  BY <1>3, MovedKeepsRefusals DEF HoldBeforeClaim, StopBeforeBoundary
<1>4. ASSUME NEW c, EarlyThrow(w, c) PROVE RefusalInv'
  <2>1. c \in Causes /\ Throw(w, c) /\ UNCHANGED <<provider, filed>>
    BY <1>4, EarlyCauses
       DEF EarlyThrow, PrepareThrows, ThrowBeforeBoundary, CallStopped
  <2> QED
    BY <2>1, MovedKeepsRefusals
<1>5. ASSUME NEW b \in Attempts, ClaimSubmission(w, b) PROVE RefusalInv'
  <2>1. UNCHANGED <<provider, filed>>
        /\ \E s \in Steps \ {"calling", "refusing"} : \E review : GotoWith(w, s, review)
    BY <1>5 DEF ClaimSubmission, Steps
  <2> QED
    BY <2>1, MovedKeepsRefusals
<1>6. CASE \/ ClaimLost(w) \/ AuthorizeRefused(w) \/ CallRefused(w) \/ Authorize(w)
           \/ RecoverPending(w) \/ NoSubmitControl(w) \/ ReadReceipt(w)
           \/ ThrowAfterBoundary(w)
  <2>1. UNCHANGED <<provider, filed>>
    BY <1>6 DEF ClaimLost, AuthorizeRefused, CallRefused, RecoverPending, Authorize,
                NoSubmitControl, ReadReceipt, ThrowAfterBoundary
  <2>2. \/ Finish(w) \/ \E c \in Causes : Throw(w, c)
        \/ \E s \in Steps \ {"calling", "refusing"} : Goto(w, s)
    BY <1>6 DEF ClaimLost, AuthorizeRefused, CallRefused, RecoverPending, Authorize,
                NoSubmitControl, ReadReceipt, ThrowAfterBoundary, Causes, Steps
  <2> QED
    BY <2>1, <2>2, MovedKeepsRefusals
<1>7. CASE CallProvider(w)
  <2>1. UNCHANGED filed
        /\ \A b \in Attempts : provider[b].pressed => provider'[b].pressed
    BY <1>7 DEF CallProvider, TypeOK, ProviderRun
  <2>2. Provider = "managed_browser" /\ \E s \in Steps \ {"refusing"} : Goto(w, s)
    BY <1>7 DEF CallProvider, Steps
  <2>3. RefusalsSound'
    BY <1>0, <2>1, <2>2, MovedRefusals
  <2> QED
    BY <2>2, <2>3 DEF RefusalInv, RefusersAreManaged
<1>8. ASSUME NEW accepted \in BOOLEAN, ClickFinalSubmit(w, accepted) PROVE RefusalInv'
  <2>1. Provider # "managed_browser" /\ Goto(w, "clicked")
    BY <1>8 DEF ClickFinalSubmit
  <2>2. /\ \A v \in Workers \ {w} : worker'[v] = worker[v]
        /\ worker'[w].pc = "clicked"
    BY <1>b, <2>1 DEF TypeOK, Goto, Process
  <2>3. RefusersAreManaged'
    BY <1>0, <2>2 DEF RefusersAreManaged
  <2>4. \A v \in Workers : worker'[v].pc # "refusing"
    BY <2>1, <2>3 DEF RefusersAreManaged
  <2> QED
    BY <2>3, <2>4 DEF RefusalInv, RefusalsSound
<1>9. ASSUME NEW reported \in BOOLEAN,
             NEW s \in {"confirming", "refusing", "unverifying"},
             \/ CallLost(w, reported) \/ RecordPress(w)
             \/ ReceiveAnswer(w, s, reported) \/ RecoverResult(w, s, reported)
      PROVE  RefusalInv'
  <2>1. UNCHANGED <<provider, filed>>
    BY <1>9 DEF CallLost, RecordPress, ReceiveAnswer, RecoverResult
  <2>2. CASE \E t \in Steps \ {"calling", "refusing"} : Goto(w, t)
    BY <2>1, <2>2, MovedKeepsRefusals
  <2>3. CASE Goto(w, "refusing") /\ Proves(ClaimOf(w), "refusing") /\ At(w, "calling")
    <3>1. /\ worker'[w].snap = worker[w].snap
          /\ \A v \in Workers \ {w} : worker'[v] = worker[v]
      BY <1>b, <2>3 DEF Goto, TypeOK, Process
    <3>2. provider'[ClaimOf(w)].pressed /\ ~ filed'[ClaimOf(w)]
      BY <2>1, <2>3 DEF Proves
    <3>3. RefusalsSound'
      BY <1>0, <1>b, <2>1, <3>1, <3>2, RefusalsStay
    <3>4. RefusersAreManaged'
      BY <1>0, <2>3, <3>1 DEF RefusersAreManaged, At
    <3> QED
      BY <3>3, <3>4 DEF RefusalInv
  <2> QED
    BY <1>9, <2>2, <2>3 DEF CallLost, RecordPress, ReceiveAnswer, RecoverResult, Steps
<1>10. ASSUME NEW parked \in BOOLEAN, RecordConfirmed(w, parked) PROVE RefusalInv'
  BY <1>10, MovedKeepsRefusals DEF RecordConfirmed
<1>11. CASE RecordRefused(w) \/ RecordUnverified(w) \/ RecordFailure(w)
  BY <1>11, MovedKeepsRefusals DEF RecordRefused, RecordUnverified, RecordFailure
<1> QED
  BY <1>1, <1>2, <1>3, <1>4, <1>5, <1>6, <1>7, <1>8, <1>9, <1>10, <1>11
     DEF WorkerStep, EarlyThrow

LEMMA NextRefusals ==
  ASSUME TypeOK, BindingInv, RefusalInv, [Next]_vars
  PROVE  RefusalInv'
<1>1. ASSUME UNCHANGED <<provider, filed, worker>> PROVE RefusalInv'
  BY <1>1 DEF RefusalInv, RefusalsSound, RefusersAreManaged
<1>2. CASE ApplicantNext
  <2>1. UNCHANGED <<provider, filed, worker>>
    BY <1>2 DEF ApplicantNext, RequestRead, RequestVerdict, RequestRefused, SubmitRequest,
         Approve, AnswerNotThere, AnswerFound, AnswerPacketNotThere,
         AnswerPacketFound, RepairOnLoad, RepairParked, CloseAbandoned
  <2> QED
    BY <1>1, <2>1
<1>3. CASE EvidenceNext \/ Tick \/ UNCHANGED vars
  BY <1>1, <1>3 DEF EvidenceNext, MailConfirms, StoredResponseConfirms, Tick, vars
<1>4. ASSUME NEW p \in Packets, CronSelects(p) PROVE RefusalInv'
  BY <1>1, <1>4 DEF CronSelects
<1>5. ASSUME NEW w \in Workers, NEW p \in Packets, LoadPacket(w, p) PROVE RefusalInv'
  <2>1. UNCHANGED <<provider, filed>>
    BY <1>5 DEF LoadPacket
  <2>2. \A v \in Workers : worker'[v] = worker[v]
                           \/ worker'[v].pc \notin {"calling", "refusing"}
    BY <1>5 DEF LoadPacket, FirstStep, TypeOK
  <2>3. RefusalsSound'
    BY <2>1, <2>2, RefusalsStay DEF RefusalInv
  <2> QED
    BY <2>2, <2>3 DEF RefusalInv, RefusersAreManaged
<1>6. ASSUME NEW w \in Workers, WorkerCrash(w) PROVE RefusalInv'
  BY <1>6, MovedKeepsRefusals DEF WorkerCrash
<1>7. ASSUME NEW a \in Attempts, NEW accepted \in BOOLEAN,
             ProviderPress(a, accepted) \/ ProviderEnds(a)
      PROVE  RefusalInv'
  <2>1. /\ UNCHANGED worker
        /\ \A b \in Attempts : provider[b].pressed /\ ~ filed[b]
                                 => provider'[b].pressed /\ ~ filed'[b]
    BY <1>7 DEF ProviderPress, ProviderEnds, TypeOK, ProviderRun
  <2>2. RefusalsSound'
    BY <2>1, RefusalsStay DEF RefusalInv
  <2> QED
    BY <2>1, <2>2 DEF RefusalInv, RefusersAreManaged
<1> QED
  BY <1>2, <1>3, <1>4, <1>5, <1>6, <1>7, WorkerRefusals DEF Next, RunnerNext, ProviderStep

-----------------------------------------------------------------------------
(* The facts a step may close an attempt with *)

\* A fact that may close an authorized attempt says why.
MayClose(a, fact) ==
  \/ fact.kind # "not_sent_proven"
  \/ fact = NotSent("typed_pre_click_stop")
  \/ fact = NotSent("applicant_checked_not_sent") /\ ~ LeaseActive(a)
  \/ /\ fact = NotSent("employer_rejected_not_filed")
     /\ provider[a].pressed /\ ~ filed[a]
  \/ /\ \E proof \in {"run_progress_proven_not_pressed",
                      "plan_position_proven_not_pressed"} : fact = NotSent(proof)
     /\ provider[a].phase = "ended" /\ ~ provider[a].pressed

\* The step of AuthorizedClosesOnlyOnProof, for one attempt.
ClosedOnProof(a) ==
  /\ ledger'[a] # ledger[a] /\ Has(ledger[a], "boundary_authorized")
  /\ Blocking(ledger[a]) /\ ~ Blocking(ledger'[a])
  => \/ /\ ledger'[a] = Append(ledger[a], NotSent("applicant_checked_not_sent"))
        /\ ~ LeaseActive(a)
     \/ /\ ledger'[a] = Append(ledger[a], NotSent("employer_rejected_not_filed"))
        /\ provider[a].pressed /\ ~ filed[a]
     \/ /\ \E proof \in {"run_progress_proven_not_pressed",
                         "plan_position_proven_not_pressed"} :
             ledger'[a] = Append(ledger[a], NotSent(proof))
        /\ provider[a].phase = "ended" /\ ~ provider[a].pressed

LEMMA FactsCloseOnProof ==
  ASSUME TypeOK, NEW a \in Attempts,
         \/ ledger'[a] = ledger[a]
         \/ \E fact \in Fact : /\ ledger'[a] = Append(ledger[a], fact)
                               /\ MayClose(a, fact)
  PROVE  ClosedOnProof(a)
<1>1. CASE ledger'[a] = ledger[a]
  BY <1>1 DEF ClosedOnProof
<1>2. ASSUME NEW fact \in Fact, ledger'[a] = Append(ledger[a], fact), MayClose(a, fact)
      PROVE  ClosedOnProof(a)
  <2>0. ledger[a] \in Seq(Fact)
    BY DEF TypeOK
  <2>1. CASE fact.kind # "not_sent_proven"
    <3>1. Blocking(ledger[a]) => Blocking(Append(ledger[a], fact))
      BY <2>0, <2>1, BlockingSurvives
    <3> QED
      BY <1>2, <3>1 DEF ClosedOnProof
  <2>2. CASE fact = NotSent("typed_pre_click_stop")
    <3>1. Has(ledger[a], "boundary_authorized") => Blocking(Append(ledger[a], fact))
      BY <2>0, <2>2, TypedStopBlocks
    <3> QED
      BY <1>2, <3>1 DEF ClosedOnProof
  <2> QED
    BY <1>2, <2>1, <2>2 DEF ClosedOnProof, MayClose
<1> QED
  BY <1>1, <1>2

\* One attempt's fact.
LEMMA FactClosesOnProof ==
  ASSUME TypeOK, NEW b \in Attempts, NEW fact \in Fact,
         AppendFact(b, fact) \/ UNCHANGED ledger, MayClose(b, fact)
  PROVE  \A a \in Attempts : ClosedOnProof(a)
<1> SUFFICES ASSUME NEW a \in Attempts PROVE ClosedOnProof(a)
  OBVIOUS
<1>1. ledger'[a] = ledger[a] \/ (a = b /\ ledger'[a] = Append(ledger[a], fact))
  BY DEF AppendFact, TypeOK
<1> QED
  BY <1>1, FactsCloseOnProof

LEMMA ApplicantCloses ==
  ASSUME TypeOK, BindingInv, ApplicantNext
  PROVE  \A a \in Attempts : ClosedOnProof(a)
<1> DEFINE checked == NotSent("applicant_checked_not_sent")
           stop == NotSent("typed_pre_click_stop")
<1>a. checked \in Fact /\ stop \in Fact /\ Confirmed \in Fact
      /\ Confirmed.kind # "not_sent_proven"
  BY FactTypes DEF Confirmed
<1>1. ASSUME UNCHANGED ledger PROVE \A a \in Attempts : ClosedOnProof(a)
  BY <1>1 DEF ClosedOnProof
<1>2. ASSUME NEW r \in Requests,
             \/ \E p \in Packets, kind \in {"submit", "approve"} : RequestRead(r, p, kind)
             \/ RequestVerdict(r) \/ RequestRefused(r) \/ SubmitRequest(r) \/ Approve(r)
      PROVE  \A a \in Attempts : ClosedOnProof(a)
  BY <1>1, <1>2 DEF RequestRead, RequestVerdict, RequestRefused, SubmitRequest, Approve
<1>3. ASSUME NEW p \in Packets, AnswerNotThere(p) \/ AnswerFound(p) \/ RepairOnLoad(p)
      PROVE  \A a \in Attempts : ClosedOnProof(a)
  <2>1. PICK b \in Attempts : b = row[p].claim
    BY <1>3, ClaimedAttempts DEF AnswerNotThere, AnswerFound, RepairOnLoad, AsksAboutClaim
  <2>2. CASE AnswerNotThere(p)
    <3>1. AppendFact(b, checked) /\ ~ LeaseActive(b)
      BY <2>1, <2>2 DEF AnswerNotThere
    <3> QED
      BY <1>a, <3>1, FactClosesOnProof DEF MayClose
  <2>3. CASE AnswerFound(p)
    <3>1. AppendFact(b, Confirmed)
      BY <2>1, <2>3 DEF AnswerFound
    <3> QED
      BY <1>a, <3>1, FactClosesOnProof DEF MayClose
  <2>4. CASE RepairOnLoad(p)
    <3>1. AppendFact(b, stop)
      BY <2>1, <2>4 DEF RepairOnLoad
    <3> QED
      BY <1>a, <3>1, FactClosesOnProof DEF MayClose
  <2> QED
    BY <1>3, <2>2, <2>3, <2>4
<1>4. ASSUME NEW p \in Packets, AnswerPacketNotThere(p)
      PROVE  \A a \in Attempts : ClosedOnProof(a)
  <2> SUFFICES ASSUME NEW a \in Attempts PROVE ClosedOnProof(a)
    OBVIOUS
  <2>1. CASE ledger'[a] = Append(ledger[a], checked) /\ ~ LeaseActive(a)
    BY <1>a, <2>1, FactsCloseOnProof DEF MayClose
  <2>2. CASE ledger'[a] = ledger[a]
    BY <2>2, FactsCloseOnProof
  <2>3. NeverReachedEmployer(ledger[a]) => ~ LeaseActive(a)
    BY DEF NeverReachedEmployer, LeaseActive
  <2> QED
    BY <1>4, <2>1, <2>2, <2>3 DEF AnswerPacketNotThere, AsksAboutPacket
<1>5. ASSUME NEW p \in Packets, AnswerPacketFound(p)
      PROVE  \A a \in Attempts : ClosedOnProof(a)
  <2>1. PICK b \in Attempts : AppendFact(b, Confirmed)
    BY <1>5 DEF AnswerPacketFound, AttemptsOf
  <2> QED
    BY <1>a, <2>1, FactClosesOnProof DEF MayClose
<1>6. ASSUME NEW p \in Packets, RepairParked(p)
      PROVE  \A a \in Attempts : ClosedOnProof(a)
  BY <1>1, <1>6 DEF RepairParked
<1>7. ASSUME NEW b \in Attempts, CloseAbandoned(b)
      PROVE  \A a \in Attempts : ClosedOnProof(a)
  <2>1. AppendFact(b, stop)
    BY <1>7 DEF CloseAbandoned
  <2> QED
    BY <1>a, <2>1, FactClosesOnProof DEF MayClose
<1> QED
  BY <1>2, <1>3, <1>4, <1>5, <1>6, <1>7 DEF ApplicantNext

LEMMA WorkerCloses ==
  ASSUME TypeOK, BindingInv, RefusalInv, CallersSound, NEW w \in Workers, WorkerStep(w)
  PROVE  \A a \in Attempts : ClosedOnProof(a)
<1>1. ASSUME UNCHANGED ledger PROVE \A a \in Attempts : ClosedOnProof(a)
  BY <1>1 DEF ClosedOnProof
<1>2. ASSUME NEW b \in Attempts, NEW fact \in {Opened, Authorized, Pressed, Confirmed},
             AppendFact(b, fact) \/ UNCHANGED ledger
      PROVE  \A a \in Attempts : ClosedOnProof(a)
  <2>1. fact \in Fact /\ fact.kind # "not_sent_proven"
    BY FactTypes DEF Opened, Authorized, Pressed, Confirmed
  <2> QED
    BY <1>2, <2>1, FactClosesOnProof DEF MayClose
<1>3. CASE UNCHANGED ledger
  BY <1>1, <1>3
<1>4. ASSUME NEW b \in Attempts, ClaimSubmission(w, b)
      PROVE  \A a \in Attempts : ClosedOnProof(a)
  BY <1>2, <1>4 DEF ClaimSubmission
<1>5. ASSUME worker[w].pc \in BoundSteps,
             NEW fact \in {Authorized, Pressed, Confirmed}, AppendFact(ClaimOf(w), fact)
      PROVE  \A a \in Attempts : ClosedOnProof(a)
  <2>1. PICK b \in Attempts : b = ClaimOf(w)
    BY <1>5, WorkersAttempts
  <2> QED
    BY <1>2, <1>5, <2>1
<1>6. CASE Authorize(w)
  BY <1>5, <1>6 DEF Authorize, At, BoundSteps
<1>7. ASSUME NEW reported \in BOOLEAN,
             NEW s \in {"confirming", "refusing", "unverifying"},
             \/ CallLost(w, reported) \/ RecordPress(w)
             \/ ReceiveAnswer(w, s, reported) \/ RecoverResult(w, s, reported)
      PROVE  \A a \in Attempts : ClosedOnProof(a)
  <2>1. AppendFact(ClaimOf(w), Pressed) \/ UNCHANGED ledger
    BY <1>7 DEF CallLost, RecordPress, ReceiveAnswer, RecoverResult, AppendPressOnce
  <2>2. worker[w].pc \in BoundSteps
    BY <1>7 DEF CallLost, RecordPress, ReceiveAnswer, RecoverResult, At, BoundSteps
  <2> QED
    BY <1>1, <1>5, <2>1, <2>2
<1>8. ASSUME NEW parked \in BOOLEAN, RecordConfirmed(w, parked)
      PROVE  \A a \in Attempts : ClosedOnProof(a)
  <2>1. AppendFact(ClaimOf(w), Confirmed) \/ UNCHANGED ledger
    BY <1>8 DEF RecordConfirmed, AppendConfirmationOnce
  <2>2. worker[w].pc \in BoundSteps
    BY <1>8 DEF RecordConfirmed, At, BoundSteps
  <2> QED
    BY <1>1, <1>5, <2>1, <2>2
<1>9. CASE RecordRefused(w)
  <2>1. PICK b \in Attempts : b = ClaimOf(w)
    BY <1>9, WorkersAttempts DEF RecordRefused, At, BoundSteps
  <2>2. PICK fact \in Fact : fact = NotSent("employer_rejected_not_filed")
    BY FactTypes
  <2>3. AppendFact(b, fact) \/ UNCHANGED ledger
    BY <1>9, <2>1, <2>2 DEF RecordRefused
  <2>4. provider[b].pressed /\ ~ filed[b]
    BY <1>9, <2>1 DEF RecordRefused, At, RefusalInv, RefusalsSound, ClaimOf
  <2> QED
    BY <2>2, <2>3, <2>4, FactClosesOnProof DEF MayClose
<1>10. ASSUME worker[w].snap.claim # None,
              AppendFact(worker[w].snap.claim, NotSent("typed_pre_click_stop"))
       PROVE  \A a \in Attempts : ClosedOnProof(a)
  <2>1. PICK b \in Attempts : b = worker[w].snap.claim
    BY <1>10 DEF TypeOK, Process, Review
  <2>2. PICK fact \in Fact : fact = NotSent("typed_pre_click_stop")
    BY FactTypes
  <2> QED
    BY <1>10, <2>1, <2>2, FactClosesOnProof DEF MayClose
<1>11. ASSUME NEW s \in StopStatuses, StopBeforeBoundary(w, s)
       PROVE  \A a \in Attempts : ClosedOnProof(a)
  <2>1. ClaimOf(w) # None
    BY <1>11, WorkersAttempts, NoneAssumption DEF StopBeforeBoundary, At, BoundSteps
  <2> QED
    BY <1>1, <1>10, <1>11, <2>1 DEF StopBeforeBoundary, ClaimOf
<1>12. CASE RecordFailure(w)
  <2> DEFINE c == worker[w].snap.claim
             proof == ReleasedClaimProof(worker[w].cause,
                                         c # None /\ Has(ledger[c], "boundary_authorized"))
  <2>1. /\ UNCHANGED ledger \/ (c # None /\ AppendFact(c, NotSent(proof)))
        /\ worker[w].pc = "failing"
    BY <1>12 DEF RecordFailure, At
  <2>2. CASE c # None /\ AppendFact(c, NotSent(proof)) /\ worker[w].cause \in ProvenStops
    <3>1. Stopped(w)
      BY <2>1, <2>2 DEF Stopped
    <3>2. PICK b \in Attempts : b = c
      BY <3>1, CallersAttempts
    <3>3. provider[b].phase = "ended" /\ ~ provider[b].pressed
      BY <3>1, <3>2 DEF CallersSound
    <3>4. NotSent(proof) \in Fact
      BY FactTypes
    <3>5. \/ proof = "typed_pre_click_stop"
          \/ proof \in {"run_progress_proven_not_pressed",
                         "plan_position_proven_not_pressed"}
      BY ReleasedProofs
    <3> HIDE DEF proof
    <3>6. MayClose(b, NotSent(proof))
      BY <3>3, <3>5 DEF MayClose
    <3> QED
      BY <2>2, <3>2, <3>4, <3>6, FactClosesOnProof
  <2>3. CASE c # None /\ AppendFact(c, NotSent(proof)) /\ worker[w].cause \notin ProvenStops
    <3>1. proof = "typed_pre_click_stop"
      BY <2>3, ReleasedProofs
    <3> QED
      BY <1>10, <2>3, <3>1
  <2> QED
    BY <1>1, <2>1, <2>2, <2>3
<1>13. CASE \/ ClaimPreparation(w) \/ Reload(w)
            \/ \E s \in StopStatuses \cup {"submitting"} : PrepareParks(w, s)
            \/ \E s \in StopStatuses : HoldBeforeClaim(w, s)
            \/ \E c : EarlyThrow(w, c)
            \/ ClaimLost(w) \/ AuthorizeRefused(w) \/ CallProvider(w) \/ CallRefused(w)
            \/ RecoverPending(w) \/ NoSubmitControl(w) \/ ReadReceipt(w)
            \/ ThrowAfterBoundary(w) \/ RecordUnverified(w)
            \/ \E accepted \in BOOLEAN : ClickFinalSubmit(w, accepted)
  <2>1. UNCHANGED ledger
    BY <1>13 DEF ClaimPreparation, Reload, PrepareParks, HoldBeforeClaim, EarlyThrow,
       PrepareThrows, ThrowBeforeBoundary, CallStopped, ClaimLost, AuthorizeRefused, CallProvider, CallRefused,
       RecoverPending, NoSubmitControl, ReadReceipt, ThrowAfterBoundary,
       RecordUnverified, ClickFinalSubmit
  <2> QED
    BY <1>1, <2>1
<1> QED
  BY <1>4, <1>6, <1>7, <1>8, <1>9, <1>11, <1>12, <1>13 DEF WorkerStep, EarlyThrow

LEMMA NextCloses ==
  ASSUME TypeOK, BindingInv, RefusalInv, CallersSound, Next
  PROVE  \A a \in Attempts : ClosedOnProof(a)
<1>1. ASSUME UNCHANGED ledger PROVE \A a \in Attempts : ClosedOnProof(a)
  BY <1>1 DEF ClosedOnProof
<1>2. CASE EvidenceNext
  <2>1. PICK p \in Packets : MailConfirms(p) \/ StoredResponseConfirms(p)
    BY <1>2 DEF EvidenceNext
  <2>2. PICK b \in Attempts : b = row[p].claim
    BY <2>1, ClaimedAttempts DEF MailConfirms, StoredResponseConfirms
  <2>3. AppendFact(b, Confirmed)
    BY <2>1, <2>2 DEF MailConfirms, StoredResponseConfirms
  <2>4. Confirmed \in Fact /\ Confirmed.kind # "not_sent_proven"
    BY FactTypes DEF Confirmed
  <2> QED
    BY <2>3, <2>4, FactClosesOnProof DEF MayClose
<1>3. CASE \/ Tick \/ ProviderStep \/ \E p \in Packets : CronSelects(p)
           \/ \E p \in Packets, w \in Workers : LoadPacket(w, p)
           \/ \E w \in Workers : WorkerCrash(w)
  BY <1>1, <1>3 DEF Tick, ProviderStep, ProviderPress, ProviderEnds, CronSelects,
                    LoadPacket, WorkerCrash
<1> QED
  BY <1>2, <1>3, ApplicantCloses, WorkerCloses DEF Next, RunnerNext

LEMMA RefusalsHold == Spec => [](TypeOK /\ BindingInv /\ RefusalInv)
<1>1. Init => TypeOK /\ BindingInv /\ RefusalInv
  BY InitTypeOK, InitBinding, InitFiling
     DEF RefusalInv, RefusersAreManaged, Init, IdleProcess
<1>2. TypeOK /\ BindingInv /\ RefusalInv /\ [Next]_vars
        => (TypeOK /\ BindingInv /\ RefusalInv)'
  BY NextTypeOK, NextBinding, NextRefusals
<1> QED
  BY <1>1, <1>2, PTL DEF Spec

\* An attempt whose employer boundary was authorized becomes safe to repeat only on the
\* applicant's look once the authorization is over, on the provider's report that the
\* employer refused the very form it pressed, or on a run's proof that it ended without
\* a press, for either provider and whether or not the applicant's answers are true: no
\* other stop, crash or stale failure closes it, and by the time a failure is written the
\* run that proved it presses nothing any more.  Code: submissionAttemptRetrySafety over
\* recordManagedAuthorizedAttemptRefused, releasedClaimProofKind in
\* recordSubmissionRunnerFailure, and POST /applications/:id/submission/unverified.
THEOREM ClosedOnlyOnProof == Spec => AuthorizedClosesOnlyOnProof
<1>1. TypeOK /\ BindingInv /\ RefusalInv /\ CallersSound /\ [Next]_vars
        => [\A a \in Attempts : ClosedOnProof(a)]_vars
  BY NextCloses
<1>2. Spec => [][\A a \in Attempts : ClosedOnProof(a)]_vars
  BY <1>1, RefusalsHold, CallersHold, PTL DEF Spec
<1> QED
  BY <1>2 DEF AuthorizedClosesOnlyOnProof, ClosedOnProof

-----------------------------------------------------------------------------
(* One process at a time *)

\* At most one call of processSubmissionApplication runs.
OneProcess == \A v, w \in Workers : v = w

\* What is proved of one process takes for granted, too, that the provider's
\* configuration is there (Outages = FALSE): a failure for want of it puts the packet
\* back into the queue with whatever its row says of an earlier send.

\* Past the applicant's approval and not parked.
Sending == {"submitting", "submitted"}

\* The row a process took its claim on is still its own while it acts: nobody released the
\* claim or asked the applicant about it, and only a confirmation may have come.
KeepsItsClaim(w) ==
  LET review == row[worker[w].packet]
  IN worker[w].pc \in BoundSteps =>
       /\ review.claim = ClaimOf(w)
       /\ review.status \in Sending
       /\ review.unv = "none"

\* A call goes on with a row it read at rest, so its write, guarded by the status it
\* read, cannot land on a row that is being sent.
ReadAtRest(r) ==
  request[r].phase # "idle" => request[r].current.status \notin Sending

AloneInv ==
  /\ \A w \in Workers : KeepsItsClaim(w)
  /\ \A r \in Requests : ReadAtRest(r)

LEMMA InitAlone == Init => AloneInv
BY DEF Init, AloneInv, KeepsItsClaim, ReadAtRest, IdleProcess, IdleCall, BoundSteps

\* A step that writes only a row that is at rest, or asked about, or settled by nothing
\* but a confirmation.
LEMMA RowsApart ==
  ASSUME TypeOK, AloneInv, UNCHANGED worker, NEW q \in Packets,
         \A p \in Packets \ {q} : row'[p] = row[p],
         \/ row'[q] = row[q]
         \/ row[q].status \notin Sending \/ row[q].unv # "none"
         \/ /\ row'[q].status \in Sending /\ row'[q].claim = row[q].claim
            /\ row'[q].unv = row[q].unv
  PROVE  \A w \in Workers : KeepsItsClaim(w)'
<1> SUFFICES ASSUME NEW w \in Workers, worker[w].pc \in BoundSteps
             PROVE  KeepsItsClaim(w)'
  BY DEF KeepsItsClaim
<1>1. KeepsItsClaim(w) /\ worker[w].packet \in Packets
  BY DEF AloneInv, TypeOK, Process
<1> QED
  BY <1>1 DEF KeepsItsClaim, ClaimOf

LEMMA ApplicantAlone ==
  ASSUME TypeOK, AloneInv, ApplicantNext
  PROVE  AloneInv'
<1>a. UNCHANGED worker
  BY DEF ApplicantNext, RequestRead, RequestVerdict, RequestRefused, SubmitRequest,
         Approve, AnswerNotThere, AnswerFound, AnswerPacketNotThere,
         AnswerPacketFound, RepairOnLoad, RepairParked, CloseAbandoned
<1>b. ASSUME UNCHANGED row PROVE \A w \in Workers : KeepsItsClaim(w)'
  BY <1>a, <1>b, PacketsAssumption, RowsApart
<1>c. ASSUME NEW r \in Requests, \A s \in Requests \ {r} : request'[s] = request[s],
             ReadAtRest(r)'
      PROVE  \A s \in Requests : ReadAtRest(s)'
  BY <1>c DEF AloneInv, ReadAtRest
<1>d. ASSUME UNCHANGED request PROVE \A s \in Requests : ReadAtRest(s)'
  BY <1>d DEF AloneInv, ReadAtRest
<1>1. ASSUME NEW r \in Requests, NEW p \in Packets, NEW kind \in {"submit", "approve"},
             RequestRead(r, p, kind)
      PROVE  AloneInv'
  <2>1. ReadAtRest(r)'
    BY <1>1 DEF RequestRead, StartAllowed, ReadAtRest, Sending, TypeOK
  <2>2. UNCHANGED row /\ \A s \in Requests \ {r} : request'[s] = request[s]
    BY <1>1 DEF RequestRead, TypeOK
  <2> QED
    BY <1>b, <1>c, <2>1, <2>2 DEF AloneInv
<1>2. ASSUME NEW r \in Requests, RequestVerdict(r) PROVE AloneInv'
  <2>1. ReadAtRest(r)'
    BY <1>2 DEF RequestVerdict, AloneInv, ReadAtRest, TypeOK, Call
  <2>2. UNCHANGED row /\ \A s \in Requests \ {r} : request'[s] = request[s]
    BY <1>2 DEF RequestVerdict, TypeOK
  <2> QED
    BY <1>b, <1>c, <2>1, <2>2 DEF AloneInv
<1>3. ASSUME NEW r \in Requests, RequestRefused(r) \/ SubmitRequest(r) \/ Approve(r)
      PROVE  AloneInv'
  <2> DEFINE q == request[r].packet
  <2>1. q \in Packets /\ request[r].current.status \notin Sending
    BY <1>3 DEF RequestRefused, SubmitRequest, Approve, AloneInv, ReadAtRest, TypeOK, Call
  <2>2. /\ \A p \in Packets \ {q} : row'[p] = row[p]
        /\ row'[q] = row[q] \/ row[q].status = request[r].current.status
    BY <1>3 DEF RequestRefused, SubmitRequest, Approve, TypeOK
  <2>3. \A w \in Workers : KeepsItsClaim(w)'
    BY <1>a, <2>1, <2>2, RowsApart
  <2>4. request'[r] = IdleCall /\ \A s \in Requests \ {r} : request'[s] = request[s]
    BY <1>3 DEF RequestRefused, SubmitRequest, Approve, TypeOK
  <2>5. ReadAtRest(r)'
    BY <2>4 DEF ReadAtRest, IdleCall
  <2> QED
    BY <1>c, <2>3, <2>4, <2>5 DEF AloneInv
<1>4. ASSUME NEW q \in Packets,
             \/ AnswerNotThere(q) \/ AnswerFound(q)
             \/ AnswerPacketNotThere(q) \/ AnswerPacketFound(q)
             \/ RepairOnLoad(q) \/ RepairParked(q)
      PROVE  AloneInv'
  <2>1. \A p \in Packets \ {q} : row'[p] = row[p]
    BY <1>4 DEF AnswerNotThere, AnswerFound, AnswerPacketNotThere, AnswerPacketFound,
                RepairOnLoad, RepairParked, TypeOK
  <2>2. row[q].status = "needs_attention" \/ row[q].unv = "open"
    BY <1>4 DEF AnswerNotThere, AnswerFound, AnswerPacketNotThere, AnswerPacketFound,
                RepairOnLoad, RepairParked, AsksAboutClaim, AsksAboutPacket
  <2>3. \A w \in Workers : KeepsItsClaim(w)'
    BY <1>a, <2>1, <2>2, RowsApart DEF Sending
  <2>4. UNCHANGED request
    BY <1>4 DEF AnswerNotThere, AnswerFound, AnswerPacketNotThere, AnswerPacketFound,
                RepairOnLoad, RepairParked
  <2> QED
    BY <1>d, <2>3, <2>4 DEF AloneInv
<1>5. ASSUME NEW a \in Attempts, CloseAbandoned(a) PROVE AloneInv'
  <2>1. UNCHANGED <<row, request>>
    BY <1>5 DEF CloseAbandoned
  <2> QED
    BY <1>b, <1>d, <2>1 DEF AloneInv
<1> QED
  BY <1>1, <1>2, <1>3, <1>4, <1>5 DEF ApplicantNext

LEMMA EvidenceAlone ==
  ASSUME TypeOK, AloneInv, EvidenceNext
  PROVE  AloneInv'
<1>1. PICK q \in Packets : MailConfirms(q) \/ StoredResponseConfirms(q)
  BY DEF EvidenceNext
<1>2. UNCHANGED <<worker, request>> /\ \A p \in Packets \ {q} : row'[p] = row[p]
  BY <1>1 DEF MailConfirms, StoredResponseConfirms, TypeOK
<1>3. \/ row[q].status \notin Sending \/ row[q].unv # "none"
      \/ /\ row'[q].status \in Sending /\ row'[q].claim = row[q].claim
         /\ row'[q].unv = row[q].unv
  <2>1. CASE StoredResponseConfirms(q)
    BY <2>1 DEF StoredResponseConfirms, Sending
  <2>2. CASE MailConfirms(q)
    <3>1. row'[q] = MarkSubmitted(row[q], row[q].unv) /\ row[q] \in Review
      BY <2>2 DEF MailConfirms, TypeOK
    <3> QED
      BY <3>1 DEF MarkSubmitted, Review, Sending
  <2> QED
    BY <1>1, <2>1, <2>2
<1>4. \A w \in Workers : KeepsItsClaim(w)'
  BY <1>2, <1>3, RowsApart
<1> QED
  BY <1>2, <1>4 DEF AloneInv, ReadAtRest

\* A process that goes on with its claim while its row is left alone, or stops acting.
LEMMA GoesOn ==
  ASSUME TypeOK, AloneInv, NEW w \in Workers,
         \/ worker'[w].pc \notin BoundSteps
         \/ /\ worker[w].pc \in BoundSteps /\ UNCHANGED row
            /\ worker'[w].packet = worker[w].packet /\ worker'[w].snap = worker[w].snap
  PROVE  KeepsItsClaim(w)'
BY DEF AloneInv, KeepsItsClaim, ClaimOf

LEMMA MovesOn ==
  ASSUME TypeOK, AloneInv, NEW w \in Workers,
         \/ Finish(w) \/ \E c \in Causes : Throw(w, c)
         \/ \E s \in Steps \ BoundSteps :
              Goto(w, s) \/ \E review \in Review : GotoWith(w, s, review)
         \/ worker[w].pc \in BoundSteps /\ UNCHANGED row /\ \E s \in Steps : Goto(w, s)
  PROVE  KeepsItsClaim(w)'
<1>0. worker[w] \in Process
  BY DEF TypeOK
<1>1. CASE Finish(w)
  <2>1. worker'[w].pc \notin BoundSteps
    BY <1>1 DEF Finish, IdleProcess, BoundSteps, TypeOK
  <2> QED
    BY <2>1, GoesOn
<1>2. ASSUME NEW c \in Causes, Throw(w, c) PROVE KeepsItsClaim(w)'
  <2>1. worker'[w].pc \notin BoundSteps
    BY <1>0, <1>2 DEF Throw, BoundSteps, TypeOK, Process
  <2> QED
    BY <2>1, GoesOn
<1>3. ASSUME NEW s \in Steps \ BoundSteps,
             Goto(w, s) \/ \E review \in Review : GotoWith(w, s, review)
      PROVE  KeepsItsClaim(w)'
  <2>1. worker'[w].pc \notin BoundSteps
    BY <1>0, <1>3 DEF Goto, GotoWith, TypeOK, Process
  <2> QED
    BY <2>1, GoesOn
<1>4. ASSUME worker[w].pc \in BoundSteps, UNCHANGED row, NEW s \in Steps, Goto(w, s)
      PROVE  KeepsItsClaim(w)'
  <2>1. worker'[w].packet = worker[w].packet /\ worker'[w].snap = worker[w].snap
    BY <1>0, <1>4 DEF Goto, TypeOK, Process
  <2> QED
    BY <1>4, <2>1, GoesOn
<1> QED
  BY <1>1, <1>2, <1>3, <1>4

\* A process takes a claim on the row it read, which nothing has been asked about.
LEMMA ClaimAlone ==
  ASSUME Outages = FALSE, TypeOK, RowsInv, NEW w \in Workers, NEW a \in Attempts,
         ClaimSubmission(w, a)
  PROVE  KeepsItsClaim(w)'
<1>1. PICK p \in Packets, snap \in Review :
        p = worker[w].packet /\ snap = worker[w].snap
  BY DEF TypeOK, Process
<1>2. row[p] = snap /\ snap.status = "submitting"
  BY <1>1 DEF ClaimSubmission, Submitting, MayClaim
<1>3. snap.unv = "none"
  BY <1>2 DEF RowsInv, ReviewSound, RowShape, Underway
<1> DEFINE claimed == [snap EXCEPT !.claim = a]
<1>4. claimed.claim = a /\ claimed.status = "submitting" /\ claimed.unv = "none"
  BY <1>2, <1>3 DEF Review
<1>5. row' = [row EXCEPT ![p] = claimed] /\ GotoWith(w, "claimed", claimed)
  BY <1>1 DEF ClaimSubmission
<1> HIDE DEF claimed
<1>6. row'[p] = claimed /\ worker'[w].snap = claimed /\ worker'[w].packet = p
  BY <1>1, <1>5 DEF GotoWith, TypeOK, Process
<1> QED
  BY <1>4, <1>6 DEF KeepsItsClaim, ClaimOf, Sending

\* A process takes up a held claim: what is being sent has not been asked about.
LEMMA LoadAlone ==
  ASSUME Outages = FALSE, TypeOK, RowsInv, AloneInv, NEW w \in Workers,
         NEW p \in Packets, LoadPacket(w, p)
  PROVE  KeepsItsClaim(w)'
<1>1. UNCHANGED row /\ worker[w].pc = "idle"
  BY DEF LoadPacket, At
<1>2. CASE worker' = worker
  BY <1>1, <1>2 DEF KeepsItsClaim, BoundSteps
<1>3. CASE worker'[w] = [pc |-> FirstStep(row[p]), packet |-> p,
                         snap |-> row[p], cause |-> "none"]
  <2>1. worker'[w].pc \in BoundSteps => row[p].status = "submitting"
    BY <1>3 DEF FirstStep, ClaimIsHeld, BoundSteps
  <2>2. row[p].status = "submitting" => row[p].unv = "none"
    BY DEF RowsInv, ReviewSound, RowShape, Underway
  <2> QED
    BY <1>1, <1>3, <2>1, <2>2 DEF KeepsItsClaim, ClaimOf, Sending
<1> QED
  BY <1>2, <1>3 DEF LoadPacket, TypeOK

LEMMA WorkerAlone ==
  ASSUME Outages = FALSE, TypeOK, RowsInv, AloneInv, NEW w \in Workers, WorkerStep(w)
  PROVE  KeepsItsClaim(w)'
<1>1. ASSUME NEW a \in Attempts, ClaimSubmission(w, a) PROVE KeepsItsClaim(w)'
  BY <1>1, ClaimAlone
<1>2. CASE \/ ClaimPreparation(w) \/ Reload(w)
           \/ \E s \in StopStatuses \cup {"submitting"} : PrepareParks(w, s)
  <2>1. \/ Finish(w)
        \/ \E s \in Steps \ BoundSteps :
             Goto(w, s) \/ \E review \in Review : GotoWith(w, s, review)
    <3>1. CASE ClaimPreparation(w)
      <4>1. worker[w].snap \in Review
        BY DEF TypeOK, Process
      <4>2. [worker[w].snap EXCEPT !.status = "preparing", !.claim = None] \in Review
        BY <4>1, ReviewTypes DEF Statuses
      <4> QED
        BY <3>1, <4>2 DEF ClaimPreparation, Steps, BoundSteps
    <3>2. CASE Reload(w)
      <4>1. row[worker[w].packet] \in Review
        BY DEF TypeOK, Process
      <4> QED
        BY <3>2, <4>1 DEF Reload, Steps, BoundSteps
    <3>3. CASE \E s \in StopStatuses \cup {"submitting"} : PrepareParks(w, s)
      BY <3>3 DEF PrepareParks, Steps, BoundSteps
    <3> QED
      BY <1>2, <3>1, <3>2, <3>3
  <2> QED
    BY <2>1, MovesOn
<1>3. CASE \/ \E s \in StopStatuses : HoldBeforeClaim(w, s) \/ StopBeforeBoundary(w, s)
           \/ \E c : EarlyThrow(w, c)
           \/ ClaimLost(w) \/ AuthorizeRefused(w) \/ RecoverPending(w)
           \/ NoSubmitControl(w) \/ ThrowAfterBoundary(w)
           \/ \E parked \in BOOLEAN : RecordConfirmed(w, parked)
           \/ RecordRefused(w) \/ RecordUnverified(w) \/ RecordFailure(w)
  <2>1. Finish(w) \/ \E c \in Causes : Throw(w, c)
    BY <1>3, EarlyCauses DEF HoldBeforeClaim, StopBeforeBoundary,
       ClaimLost, AuthorizeRefused, RecoverPending, NoSubmitControl, ThrowAfterBoundary,
       RecordConfirmed, RecordRefused, RecordUnverified, RecordFailure, Causes
  <2> QED
    BY <2>1, MovesOn
<1>4. CASE \/ Authorize(w) \/ CallProvider(w) \/ CallRefused(w)
           \/ RecordPress(w) \/ ReadReceipt(w)
           \/ \E accepted \in BOOLEAN : ClickFinalSubmit(w, accepted)
           \/ \E reported \in BOOLEAN :
                \/ CallLost(w, reported)
                \/ \E s \in {"confirming", "refusing", "unverifying"} :
                     ReceiveAnswer(w, s, reported) \/ RecoverResult(w, s, reported)
  <2>1. worker[w].pc \in BoundSteps /\ UNCHANGED row /\ \E s \in Steps : Goto(w, s)
    BY <1>4 DEF Authorize, CallProvider, CallRefused, RecordPress, ReadReceipt,
       ClickFinalSubmit, CallLost, ReceiveAnswer, RecoverResult, At, BoundSteps, Steps
  <2> QED
    BY <2>1, MovesOn
<1> QED
  BY <1>1, <1>2, <1>3, <1>4 DEF WorkerStep, EarlyThrow

LEMMA NextAlone ==
  ASSUME OneProcess, Outages = FALSE, TypeOK, RowsInv, AloneInv, [Next]_vars
  PROVE  AloneInv'
<1>1. ASSUME NEW w \in Workers, KeepsItsClaim(w)', UNCHANGED request PROVE AloneInv'
  <2>1. \A v \in Workers : KeepsItsClaim(v)'
    <3> SUFFICES ASSUME NEW v \in Workers PROVE KeepsItsClaim(v)'
      OBVIOUS
    <3>1. v = w
      BY DEF OneProcess
    <3> QED
      BY <1>1, <3>1
  <2> QED
    BY <1>1, <2>1 DEF AloneInv, ReadAtRest
<1>2. ASSUME UNCHANGED <<row, worker, request>> PROVE AloneInv'
  BY <1>2 DEF AloneInv, KeepsItsClaim, ClaimOf, ReadAtRest
<1>3. ASSUME NEW w \in Workers, WorkerStep(w) PROVE AloneInv'
  <2>1. UNCHANGED request
    BY <1>3 DEF WorkerStep, ClaimPreparation, Reload, PrepareParks, HoldBeforeClaim,
       StopBeforeBoundary, PrepareThrows, ThrowBeforeBoundary, CallStopped,
       ClaimSubmission, ClaimLost, Authorize, AuthorizeRefused, CallProvider, CallRefused,
       RecoverPending, CallLost, ReceiveAnswer, RecoverResult, ClickFinalSubmit,
       NoSubmitControl, RecordPress, ReadReceipt, ThrowAfterBoundary, RecordConfirmed,
       RecordRefused, RecordUnverified, RecordFailure
  <2> QED
    BY <1>1, <1>3, <2>1, WorkerAlone
<1>4. ASSUME NEW w \in Workers, NEW p \in Packets, LoadPacket(w, p) PROVE AloneInv'
  <2>1. UNCHANGED request
    BY <1>4 DEF LoadPacket
  <2> QED
    BY <1>1, <1>4, <2>1, LoadAlone
<1>5. ASSUME NEW w \in Workers, WorkerCrash(w) PROVE AloneInv'
  <2>1. Finish(w) /\ UNCHANGED request
    BY <1>5 DEF WorkerCrash
  <2> QED
    BY <1>1, <2>1, MovesOn
<1>6. CASE \/ Tick \/ UNCHANGED vars \/ ProviderStep \/ \E p \in Packets : CronSelects(p)
  BY <1>2, <1>6 DEF Tick, vars, ProviderStep, ProviderPress, ProviderEnds, CronSelects
<1> QED
  BY <1>3, <1>4, <1>5, <1>6, ApplicantAlone, EvidenceAlone DEF Next, RunnerNext

LEMMA AloneHolds ==
  ASSUME OneProcess, Outages = FALSE
  PROVE  Spec => [](TypeOK /\ BindingInv /\ RowsInv /\ AloneInv)
<1>1. TypeOK /\ RowsInv /\ AloneInv /\ [Next]_vars => AloneInv'
  BY NextAlone
<1> QED
  BY <1>1, InitAlone, RowsHold, PTL DEF Spec

-----------------------------------------------------------------------------
(* What is closed stays closed *)

\* The step of ClosedStaysClosed, for one attempt.
StaysClosed(a) ==
  ledger'[a] # ledger[a] /\ RetrySafety(ledger[a]) = "safe_not_sent"
    => RetrySafety(ledger'[a]) = "safe_not_sent"

\* Facts are added only to attempts that are not closed.
LEMMA OpenOnes ==
  ASSUME TypeOK, NEW b \in Attempts, NEW fact, AppendFact(b, fact) \/ UNCHANGED ledger,
         RetrySafety(ledger[b]) # "safe_not_sent"
  PROVE  \A a \in Attempts : StaysClosed(a)
BY DEF AppendFact, StaysClosed, TypeOK

LEMMA UnsettledIsOpen ==
  ASSUME NEW events, ~ Has(events, "not_sent_proven")
  PROVE  RetrySafety(events) # "safe_not_sent"
BY DEF RetrySafety

LEMMA ApplicantReopensNone ==
  ASSUME TypeOK, BindingInv, ApplicantNext
  PROVE  \A a \in Attempts : StaysClosed(a)
<1>1. ASSUME UNCHANGED ledger PROVE \A a \in Attempts : StaysClosed(a)
  BY <1>1 DEF StaysClosed
<1>2. ASSUME NEW r \in Requests,
             \/ \E p \in Packets, kind \in {"submit", "approve"} : RequestRead(r, p, kind)
             \/ RequestVerdict(r) \/ RequestRefused(r) \/ SubmitRequest(r) \/ Approve(r)
      PROVE  \A a \in Attempts : StaysClosed(a)
  BY <1>1, <1>2 DEF RequestRead, RequestVerdict, RequestRefused, SubmitRequest, Approve
<1>3. ASSUME NEW p \in Packets, AnswerNotThere(p) \/ AnswerFound(p)
      PROVE  \A a \in Attempts : StaysClosed(a)
  <2>1. PICK b \in Attempts : b = row[p].claim /\ RetrySafety(ledger[b]) # "safe_not_sent"
    BY <1>3, ClaimedAttempts
       DEF AnswerNotThere, AnswerFound, AsksAboutClaim, BlockedUnverified
  <2>2. \E fact : AppendFact(b, fact)
    BY <1>3, <2>1 DEF AnswerNotThere, AnswerFound
  <2> QED
    BY <2>1, <2>2, OpenOnes
<1>4. ASSUME NEW p \in Packets, AnswerPacketNotThere(p)
      PROVE  \A a \in Attempts : StaysClosed(a)
  <2> SUFFICES ASSUME NEW a \in Attempts, ledger'[a] # ledger[a]
               PROVE  RetrySafety(ledger[a]) # "safe_not_sent"
    BY DEF StaysClosed
  <2>1. MayHavePressed(a) \/ NeverReachedEmployer(ledger[a])
    BY <1>4 DEF AnswerPacketNotThere
  <2>2. NeverReachedEmployer(ledger[a]) => RetrySafety(ledger[a]) # "safe_not_sent"
    BY UnsettledIsOpen DEF NeverReachedEmployer
  <2> QED
    BY <2>1, <2>2 DEF MayHavePressed
<1>5. ASSUME NEW p \in Packets, AnswerPacketFound(p)
      PROVE  \A a \in Attempts : StaysClosed(a)
  <2>1. PICK b \in Attempts : AppendFact(b, Confirmed) /\ MayHavePressed(b)
    BY <1>5 DEF AnswerPacketFound, AttemptsOf
  <2> QED
    BY <2>1, OpenOnes DEF MayHavePressed
<1>6. ASSUME NEW b \in Attempts, NeverReachedEmployer(ledger[b]),
             AppendFact(b, NotSent("typed_pre_click_stop"))
      PROVE  \A a \in Attempts : StaysClosed(a)
  BY <1>6, UnsettledIsOpen, OpenOnes DEF NeverReachedEmployer
<1>7. ASSUME NEW p \in Packets, RepairOnLoad(p) PROVE \A a \in Attempts : StaysClosed(a)
  BY <1>6, <1>7, ClaimedAttempts DEF RepairOnLoad
<1>8. ASSUME NEW p \in Packets, RepairParked(p) PROVE \A a \in Attempts : StaysClosed(a)
  BY <1>1, <1>8 DEF RepairParked
<1>9. ASSUME NEW b \in Attempts, CloseAbandoned(b)
      PROVE  \A a \in Attempts : StaysClosed(a)
  BY <1>6, <1>9 DEF CloseAbandoned
<1> QED
  BY <1>2, <1>3, <1>4, <1>5, <1>7, <1>8, <1>9 DEF ApplicantNext

LEMMA EvidenceReopensNone ==
  ASSUME Outages = FALSE, TypeOK, BindingInv, RowsInv, EvidenceNext
  PROVE  \A a \in Attempts : StaysClosed(a)
<1>1. PICK p \in Packets : MailConfirms(p) \/ StoredResponseConfirms(p)
  BY DEF EvidenceNext
<1>2. PICK b \in Attempts : b = row[p].claim
  BY <1>1, ClaimedAttempts DEF MailConfirms, StoredResponseConfirms
<1>3. RetrySafety(ledger[b]) # "safe_not_sent"
  BY <1>2, NoneAssumption DEF RowsInv, ClaimIsOpen, Blocking
<1>4. AppendFact(b, Confirmed)
  BY <1>1, <1>2 DEF MailConfirms, StoredResponseConfirms
<1> QED
  BY <1>3, <1>4, OpenOnes

\* The attempt a process acts for is not closed: its row still carries the claim.
LEMMA OwnIsOpen ==
  ASSUME Outages = FALSE, TypeOK, BindingInv, RowsInv, AloneInv, NEW w \in Workers,
         worker[w].pc \in BoundSteps
  PROVE  ClaimOf(w) \in Attempts /\ Blocking(ledger[ClaimOf(w)])
<1>1. PICK p \in Packets : p = worker[w].packet
  BY DEF TypeOK, Process
<1>2. ClaimOf(w) \in Attempts /\ row[p].claim = ClaimOf(w)
  BY <1>1, WorkersAttempts DEF AloneInv, KeepsItsClaim
<1> QED
  BY <1>2, NoneAssumption DEF RowsInv, ClaimIsOpen

LEMMA WorkerReopensNone ==
  ASSUME Outages = FALSE, TypeOK, BindingInv, RowsInv, AloneInv,
         NEW w \in Workers, WorkerStep(w)
  PROVE  \A a \in Attempts : StaysClosed(a)
<1>1. ASSUME UNCHANGED ledger PROVE \A a \in Attempts : StaysClosed(a)
  BY <1>1 DEF StaysClosed
<1>2. ASSUME NEW b \in Attempts, ClaimSubmission(w, b)
      PROVE  \A a \in Attempts : StaysClosed(a)
  <2>1. AppendFact(b, Opened) /\ ledger[b] = << >>
    BY <1>2 DEF ClaimSubmission, BindingInv, AttemptBound
  <2>2. RetrySafety(ledger[b]) # "safe_not_sent"
    BY <2>1 DEF RetrySafety
  <2> QED
    BY <2>1, <2>2, OpenOnes
<1>3. ASSUME worker[w].pc \in BoundSteps, NEW fact,
             AppendFact(ClaimOf(w), fact) \/ UNCHANGED ledger
      PROVE  \A a \in Attempts : StaysClosed(a)
  <2>1. PICK b \in Attempts : b = ClaimOf(w) /\ Blocking(ledger[b])
    BY <1>3, OwnIsOpen
  <2> QED
    BY <1>3, <2>1, OpenOnes DEF Blocking
<1>4. CASE \/ Authorize(w) \/ RecordPress(w) \/ RecordRefused(w)
           \/ \E s \in StopStatuses : StopBeforeBoundary(w, s)
           \/ \E parked \in BOOLEAN : RecordConfirmed(w, parked)
           \/ \E reported \in BOOLEAN :
                \/ CallLost(w, reported)
                \/ \E s \in {"confirming", "refusing", "unverifying"} :
                     ReceiveAnswer(w, s, reported) \/ RecoverResult(w, s, reported)
  <2>1. worker[w].pc \in BoundSteps
    BY <1>4 DEF Authorize, RecordPress, RecordRefused, StopBeforeBoundary,
       RecordConfirmed, CallLost, ReceiveAnswer, RecoverResult, At, BoundSteps
  <2>2. \E fact : AppendFact(ClaimOf(w), fact) \/ UNCHANGED ledger
    BY <1>4 DEF Authorize, RecordPress, RecordRefused, StopBeforeBoundary,
       RecordConfirmed, CallLost, ReceiveAnswer, RecoverResult, AppendPressOnce,
       AppendConfirmationOnce
  <2> QED
    BY <1>3, <2>1, <2>2
<1>5. CASE RecordFailure(w)
  <2>1. CASE UNCHANGED ledger
    BY <1>1, <2>1
  <2>2. CASE ledger' # ledger
    <3>1. /\ ClaimOf(w) # None /\ Unsettled(ClaimOf(w))
          /\ \E fact : AppendFact(ClaimOf(w), fact)
      BY <1>5, <2>2 DEF RecordFailure, MayRecordFailure, ClaimOf
    <3>2. ClaimOf(w) \in Attempts
      BY <3>1 DEF TypeOK, Process, Review, ClaimOf
    <3> QED
      BY <3>1, <3>2, UnsettledIsOpen, OpenOnes DEF Unsettled
  <2> QED
    BY <2>1, <2>2
<1>6. CASE \/ ClaimPreparation(w) \/ Reload(w)
           \/ \E s \in StopStatuses \cup {"submitting"} : PrepareParks(w, s)
           \/ \E s \in StopStatuses : HoldBeforeClaim(w, s)
           \/ \E c : EarlyThrow(w, c)
           \/ ClaimLost(w) \/ AuthorizeRefused(w) \/ CallProvider(w) \/ CallRefused(w)
           \/ RecoverPending(w) \/ NoSubmitControl(w) \/ ReadReceipt(w)
           \/ ThrowAfterBoundary(w) \/ RecordUnverified(w)
           \/ \E accepted \in BOOLEAN : ClickFinalSubmit(w, accepted)
  <2>1. UNCHANGED ledger
    BY <1>6 DEF ClaimPreparation, Reload, PrepareParks, HoldBeforeClaim, EarlyThrow,
       PrepareThrows, ThrowBeforeBoundary, CallStopped, ClaimLost, AuthorizeRefused, CallProvider, CallRefused,
       RecoverPending, NoSubmitControl, ReadReceipt, ThrowAfterBoundary,
       RecordUnverified, ClickFinalSubmit
  <2> QED
    BY <1>1, <2>1
<1> QED
  BY <1>2, <1>4, <1>5, <1>6 DEF WorkerStep, EarlyThrow

LEMMA NextReopensNone ==
  ASSUME Outages = FALSE, TypeOK, BindingInv, RowsInv, AloneInv, Next
  PROVE  \A a \in Attempts : StaysClosed(a)
<1>1. CASE \/ Tick \/ ProviderStep \/ \E p \in Packets : CronSelects(p)
           \/ \E p \in Packets, w \in Workers : LoadPacket(w, p)
           \/ \E w \in Workers : WorkerCrash(w)
  BY <1>1 DEF Tick, ProviderStep, ProviderPress, ProviderEnds, CronSelects, LoadPacket,
              WorkerCrash, StaysClosed
<1> QED
  BY <1>1, ApplicantReopensNone, EvidenceReopensNone, WorkerReopensNone
     DEF Next, RunnerNext

\* With one process at a time, an attempt that was closed as not sent stays closed, for
\* either provider, through crashes, retries and true or false answers: the applicant who
\* was told she can send again is not refused for the same press.  With two processes it
\* is false, which the run LatePress shows.  Code: every writer of a fact checks the row's
\* claim or the fold first (stillOwnsAuthorizedAttempt, readPacketAttempts,
\* recordSubmissionRunnerFailure).
THEOREM ClosedForGood ==
  ASSUME OneProcess, Outages = FALSE
  PROVE  Spec => ClosedStaysClosed
<1>1. TypeOK /\ BindingInv /\ RowsInv /\ AloneInv /\ [Next]_vars
        => [\A a \in Attempts : StaysClosed(a)]_vars
  BY NextReopensNone
<1>2. Spec => [][\A a \in Attempts : StaysClosed(a)]_vars
  BY <1>1, AloneHolds, PTL DEF Spec
<1> QED
  BY <1>2 DEF ClosedStaysClosed, StaysClosed

-----------------------------------------------------------------------------
(* One process at a time files a posting once, whoever presses Send *)

\* While a process may press, or let the provider press, nothing else of the posting is
\* filed or may be: what the boundary check saw is still so.
PressersAlone ==
  \A w \in Workers : At(w, "authorized") =>
    \A b \in Attempts \ {ClaimOf(w)} :
      FiledOrMayFile(b)
        => PostingOf[attempt[b].packet] # PostingOf[worker[w].packet]

\* Every step of a process leaves "authorized", and only one enters it.
LEMMA EntersAuthorized ==
  ASSUME TypeOK, NEW w \in Workers, WorkerStep(w), worker'[w].pc = "authorized"
  PROVE  Authorize(w)
<1>0. worker[w] \in Process
  BY DEF TypeOK
<1>1. ASSUME \/ Finish(w) \/ \E c \in Causes : Throw(w, c)
             \/ \E s \in Steps \ {"authorized"} :
                  Goto(w, s) \/ \E review : GotoWith(w, s, review)
      PROVE  FALSE
  <2>1. CASE Finish(w)
    BY <2>1 DEF Finish, IdleProcess, TypeOK
  <2>2. ASSUME NEW c \in Causes, Throw(w, c) PROVE FALSE
    BY <1>0, <2>2 DEF Throw, TypeOK, Process
  <2>3. ASSUME NEW s \in Steps \ {"authorized"},
               Goto(w, s) \/ \E review : GotoWith(w, s, review)
        PROVE  FALSE
    BY <1>0, <2>3 DEF Goto, GotoWith, TypeOK, Process
  <2> QED
    BY <1>1, <2>1, <2>2, <2>3
<1>2. CASE \/ ClaimPreparation(w) \/ Reload(w)
           \/ \E s \in StopStatuses \cup {"submitting"} : PrepareParks(w, s)
           \/ \E s \in StopStatuses : HoldBeforeClaim(w, s) \/ StopBeforeBoundary(w, s)
           \/ \E c : EarlyThrow(w, c)
           \/ \E a \in Attempts : ClaimSubmission(w, a)
           \/ ClaimLost(w) \/ AuthorizeRefused(w)
  BY <1>1, <1>2, EarlyCauses DEF ClaimPreparation, Reload, PrepareParks,
     HoldBeforeClaim, StopBeforeBoundary, ClaimSubmission, ClaimLost,
     AuthorizeRefused, Steps, Causes
<1>3. CASE \/ CallProvider(w) \/ CallRefused(w) \/ RecoverPending(w)
           \/ NoSubmitControl(w) \/ RecordPress(w) \/ ReadReceipt(w)
           \/ ThrowAfterBoundary(w)
           \/ \E accepted \in BOOLEAN : ClickFinalSubmit(w, accepted)
           \/ \E parked \in BOOLEAN : RecordConfirmed(w, parked)
           \/ RecordRefused(w) \/ RecordUnverified(w) \/ RecordFailure(w)
  BY <1>1, <1>3 DEF CallProvider, CallRefused, RecoverPending, NoSubmitControl,
     RecordPress, ReadReceipt, ThrowAfterBoundary, ClickFinalSubmit, RecordConfirmed,
     RecordRefused, RecordUnverified, RecordFailure, Steps, Causes
<1>4. CASE \E reported \in BOOLEAN :
             \/ CallLost(w, reported)
             \/ \E s \in {"confirming", "refusing", "unverifying"} :
                  ReceiveAnswer(w, s, reported) \/ RecoverResult(w, s, reported)
  BY <1>1, <1>4 DEF CallLost, ReceiveAnswer, RecoverResult, Steps
<1> QED
  BY <1>2, <1>3, <1>4 DEF WorkerStep, EarlyThrow

\* What happens around a process that waits at its boundary.
AroundIt ==
  \/ ApplicantNext \/ EvidenceNext \/ ProviderStep \/ Tick \/ UNCHANGED vars
  \/ \E p \in Packets : CronSelects(p)

\* With one process, it is at its boundary by authorizing, or because it stayed there.
LEMMA AtTheBoundary ==
  ASSUME OneProcess, TypeOK, [Next]_vars, NEW w \in Workers,
         worker'[w].pc = "authorized"
  PROVE  Authorize(w) \/ AroundIt
<1>1. ASSUME NEW v \in Workers, WorkerStep(v) PROVE Authorize(w)
  <2>1. v = w
    BY DEF OneProcess
  <2> QED
    BY <1>1, <2>1, EntersAuthorized
<1>2. ASSUME NEW v \in Workers, WorkerCrash(v) PROVE FALSE
  <2>1. v = w
    BY DEF OneProcess
  <2> QED
    BY <1>2, <2>1 DEF WorkerCrash, Finish, IdleProcess, TypeOK
<1>3. ASSUME NEW v \in Workers, NEW p \in Packets, LoadPacket(v, p) PROVE FALSE
  <2>1. v = w
    BY DEF OneProcess
  <2> QED
    BY <1>3, <2>1 DEF LoadPacket, FirstStep, At, TypeOK
<1> QED
  BY <1>1, <1>2, <1>3 DEF Next, RunnerNext, AroundIt

LEMMA ApplicantFacts ==
  ASSUME TypeOK, BindingInv, ApplicantNext \/ EvidenceNext, NEW a \in Attempts,
         Has(ledger'[a], "boundary_authorized")
  PROVE  Has(ledger[a], "boundary_authorized")
<1> DEFINE checked == NotSent("applicant_checked_not_sent")
           stop == NotSent("typed_pre_click_stop")
<1>a. ledger[a] \in Seq(Fact)
  BY DEF TypeOK
<1>b. ASSUME NEW fact \in {checked, stop, Confirmed}, ledger'[a] = Append(ledger[a], fact)
      PROVE  Has(ledger[a], "boundary_authorized")
  <2>1. fact \in Fact /\ fact.kind # "boundary_authorized"
    BY FactTypes DEF NotSent, Confirmed
  <2> QED
    BY <1>a, <1>b, <2>1, HasAppended DEF EventKinds
<1>c. ASSUME NEW b \in Attempts, NEW fact \in {checked, stop, Confirmed},
             AppendFact(b, fact)
      PROVE  Has(ledger[a], "boundary_authorized")
  <2>1. ledger'[a] = ledger[a] \/ ledger'[a] = Append(ledger[a], fact)
    BY <1>c DEF AppendFact, TypeOK
  <2> QED
    BY <1>b, <2>1
<1>1. CASE ledger' = ledger
  BY <1>1
<1>2. ASSUME NEW p \in Packets,
             \/ AnswerNotThere(p) \/ AnswerFound(p) \/ RepairOnLoad(p)
             \/ MailConfirms(p) \/ StoredResponseConfirms(p)
      PROVE  Has(ledger[a], "boundary_authorized")
  <2>1. PICK b \in Attempts : b = row[p].claim
    BY <1>2, ClaimedAttempts DEF AnswerNotThere, AnswerFound, RepairOnLoad,
       AsksAboutClaim, MailConfirms, StoredResponseConfirms
  <2>2. \E fact \in {checked, stop, Confirmed} : AppendFact(b, fact)
    BY <1>2, <2>1 DEF AnswerNotThere, AnswerFound, RepairOnLoad, MailConfirms,
       StoredResponseConfirms
  <2> QED
    BY <1>c, <2>2
<1>3. ASSUME NEW p \in Packets, AnswerPacketNotThere(p)
      PROVE  Has(ledger[a], "boundary_authorized")
  <2>1. ledger'[a] = ledger[a] \/ ledger'[a] = Append(ledger[a], checked)
    BY <1>3 DEF AnswerPacketNotThere
  <2> QED
    BY <1>b, <2>1
<1>4. ASSUME NEW p \in Packets, AnswerPacketFound(p)
      PROVE  Has(ledger[a], "boundary_authorized")
  <2>1. \E b \in Attempts : AppendFact(b, Confirmed)
    BY <1>4 DEF AnswerPacketFound, AttemptsOf
  <2> QED
    BY <1>c, <2>1
<1>5. ASSUME NEW b \in Attempts, CloseAbandoned(b)
      PROVE  Has(ledger[a], "boundary_authorized")
  BY <1>c, <1>5 DEF CloseAbandoned
<1>6. CASE \/ \E r \in Requests :
                \/ \E p \in Packets, kind \in {"submit", "approve"} :
                     RequestRead(r, p, kind)
                \/ RequestVerdict(r) \/ RequestRefused(r)
                \/ SubmitRequest(r) \/ Approve(r)
           \/ \E p \in Packets : RepairParked(p)
  <2>1. ledger' = ledger
    BY <1>6 DEF RequestRead, RequestVerdict, RequestRefused, SubmitRequest, Approve,
                RepairParked
  <2> QED
    BY <1>1, <2>1
<1> QED
  BY <1>2, <1>3, <1>4, <1>5, <1>6 DEF ApplicantNext, EvidenceNext

\* Around a waiting process nothing becomes a filer that was none: the provider presses
\* only inside an authorization on record.
LEMMA NoNewFilers ==
  ASSUME TypeOK, BindingInv, AroundIt, NEW b \in Attempts, FiledOrMayFile(b)'
  PROVE  FiledOrMayFile(b) /\ attempt' = attempt
<1>1. CASE ApplicantNext \/ EvidenceNext
  <2>1. UNCHANGED <<now, attempt, provider, filed>>
    BY <1>1 DEF ApplicantNext, RequestRead, RequestVerdict, RequestRefused,
       SubmitRequest, Approve, AnswerNotThere, AnswerFound, AnswerPacketNotThere,
       AnswerPacketFound, RepairOnLoad, RepairParked, CloseAbandoned, EvidenceNext,
       MailConfirms, StoredResponseConfirms
  <2> QED
    BY <1>1, <2>1, ApplicantFacts DEF FiledOrMayFile, MayFile, LeaseActive
<1>2. ASSUME NEW a \in Attempts, NEW accepted \in BOOLEAN, ProviderPress(a, accepted)
      PROVE  FiledOrMayFile(b) /\ attempt' = attempt
  <2>1. /\ UNCHANGED <<now, ledger, attempt>>
        /\ b # a => provider'[b] = provider[b] /\ filed'[b] = filed[b]
    BY <1>2 DEF ProviderPress, TypeOK
  <2>2. MayFile(a)
    BY <1>2
       DEF ProviderPress, BeforeDeadline, MayFile, LeaseActive, BindingInv, AttemptBound
  <2> QED
    BY <2>1, <2>2 DEF FiledOrMayFile, MayFile, LeaseActive
<1>3. ASSUME NEW a \in Attempts, ProviderEnds(a)
      PROVE  FiledOrMayFile(b) /\ attempt' = attempt
  <2>1. /\ UNCHANGED <<now, ledger, attempt, filed>>
        /\ provider'[b].pressed = provider[b].pressed
        /\ provider'[b].phase = provider[b].phase \/ provider'[b].phase = "ended"
    BY <1>3 DEF ProviderEnds, TypeOK, ProviderRun
  <2> QED
    BY <2>1 DEF FiledOrMayFile, MayFile, LeaseActive
<1>4. CASE Tick
  <2>1. UNCHANGED <<ledger, attempt, provider, filed>> /\ now' = now + 1
    BY <1>4 DEF Tick
  <2>2. now \in Nat /\ attempt[b].lease \in Nat
    BY BoundsAssumption DEF TypeOK, Binding
  <2> QED
    BY <2>1, <2>2 DEF FiledOrMayFile, MayFile, LeaseActive
<1>5. CASE UNCHANGED vars \/ \E p \in Packets : CronSelects(p)
  <2>1. UNCHANGED <<now, ledger, attempt, provider, filed>>
    BY <1>5 DEF vars, CronSelects
  <2> QED
    BY <2>1 DEF FiledOrMayFile, MayFile, LeaseActive
<1> QED
  BY <1>1, <1>2, <1>3, <1>4, <1>5 DEF AroundIt, ProviderStep

LEMMA NextPressers ==
  ASSUME OneProcess, TypeOK, BindingInv, FilersBlock, PressersAlone, [Next]_vars
  PROVE  PressersAlone'
<1> SUFFICES ASSUME NEW w \in Workers, worker'[w].pc = "authorized",
                    NEW b \in Attempts, b # worker'[w].snap.claim, FiledOrMayFile(b)'
             PROVE  PostingOf[attempt'[b].packet] # PostingOf[worker'[w].packet]
  BY DEF PressersAlone, At, ClaimOf
<1>1. CASE Authorize(w)
  <2>1. worker'[w].packet = worker[w].packet /\ worker'[w].snap = worker[w].snap
    BY <1>1 DEF Authorize, Goto, TypeOK, Process
  <2>2. b \in Attempts \ {ClaimOf(w)}
    BY <2>1 DEF ClaimOf
  <2> QED
    BY <1>1, <2>1, <2>2, AuthorizedAlone
<1>2. CASE AroundIt
  <2>1. UNCHANGED worker
    BY <1>2 DEF AroundIt, ApplicantNext, RequestRead, RequestVerdict, RequestRefused,
       SubmitRequest, Approve, AnswerNotThere, AnswerFound, AnswerPacketNotThere,
       AnswerPacketFound, RepairOnLoad, RepairParked, CloseAbandoned, EvidenceNext,
       MailConfirms, StoredResponseConfirms, ProviderStep, ProviderPress, ProviderEnds,
       Tick, vars, CronSelects
  <2>2. FiledOrMayFile(b) /\ attempt' = attempt
    BY <1>2, NoNewFilers
  <2> QED
    BY <2>1, <2>2 DEF PressersAlone, At, ClaimOf
<1> QED
  BY <1>1, <1>2, AtTheBoundary

\* The runner presses Send itself: for an attempt that still blocks, the only one of its
\* posting that is filed or may be.
LEMMA ClickFiling ==
  ASSUME Outages = FALSE, TypeOK, BindingInv, RowsInv, AloneInv,
         FilersBlock, OneFiler, PressersAlone,
         NEW w \in Workers, NEW accepted \in BOOLEAN, ClickFinalSubmit(w, accepted)
  PROVE  FilersBlock' /\ OneFiler'
<1>1. PICK a \in Attempts : a = ClaimOf(w) /\ Blocking(ledger[a])
  BY OwnIsOpen DEF ClickFinalSubmit, At, BoundSteps
<1>2. /\ UNCHANGED <<now, ledger, attempt>> /\ At(w, "authorized")
      /\ \A b \in Attempts \ {a} : provider'[b] = provider[b] /\ filed'[b] = filed[b]
  BY <1>1 DEF ClickFinalSubmit, TypeOK
<1>3. \A b \in Attempts \ {a} : FiledOrMayFile(b)' <=> FiledOrMayFile(b)
  BY <1>2 DEF FiledOrMayFile, MayFile, LeaseActive
<1>4. FilersBlock'
  BY <1>1, <1>2, <1>3 DEF FilersBlock
<1>5. ASSUME NEW b \in Attempts \ {a}, FiledOrMayFile(b)'
      PROVE  PostingOf[attempt'[b].packet] # PostingOf[attempt'[a].packet]
  <2>1. attempt[a].packet = worker[w].packet
    BY <1>1, NoneAssumption DEF BindingInv, WorkerBound, ClaimOf
  <2> QED
    BY <1>1, <1>2, <1>3, <1>5, <2>1 DEF PressersAlone
<1>6. ASSUME NEW b \in Attempts, NEW c \in Attempts, b # c,
             FiledOrMayFile(b)', FiledOrMayFile(c)'
      PROVE  PostingOf[attempt'[b].packet] # PostingOf[attempt'[c].packet]
  <2>1. CASE b # a /\ c # a
    BY <1>2, <1>3, <1>6, <2>1 DEF OneFiler
  <2>2. CASE b = a \/ c = a
    BY <1>5, <1>6, <2>2
  <2> QED
    BY <2>1, <2>2
<1> QED
  BY <1>4, <1>6 DEF OneFiler

\* What may be filed blocks, one attempt of a posting may be filed, and nothing else of
\* the posting may while a process is at its boundary.
OnePressInv ==
  BindingInv /\ RowsInv /\ AloneInv /\ RefusalInv /\ CallersSound /\ FilersBlock
  /\ OneFiler /\ PressersAlone

LEMMA NextOnePress ==
  ASSUME OneProcess, Outages = FALSE, ApplicantErrs = FALSE, TypeOK, OnePressInv,
         [Next]_vars
  PROVE  OnePressInv'
<1>0. /\ BindingInv /\ RowsInv /\ AloneInv /\ RefusalInv /\ CallersSound
      /\ FilersBlock /\ OneFiler /\ PressersAlone
  BY DEF OnePressInv
<1>1. /\ BindingInv' /\ RowsInv' /\ AloneInv' /\ RefusalInv' /\ CallersSound'
      /\ PressersAlone'
  BY <1>0, NextBinding, NextRows, NextAlone, NextRefusals, NextCallers, NextPressers
<1>2. FilersBlock' /\ OneFiler'
  <2>1. CASE NoClick
    <3>1. FilingInv
      BY <1>0 DEF FilingInv, RefusalInv
    <3> QED
      BY <2>1, <3>1, NextFiling DEF FilingInv
  <2>2. CASE ~ NoClick
    BY <1>0, <2>2, ClickFiling DEF NoClick
  <2> QED
    BY <2>1, <2>2
<1> QED
  BY <1>1, <1>2 DEF OnePressInv

LEMMA OnePressHolds ==
  ASSUME OneProcess, Outages = FALSE, ApplicantErrs = FALSE
  PROVE  Spec => [](TypeOK /\ OnePressInv)
<1>1. Init => TypeOK /\ OnePressInv
  <2>1. ASSUME Init PROVE PressersAlone /\ RefusersAreManaged
    BY <2>1 DEF Init, PressersAlone, RefusersAreManaged, At, IdleProcess
  <2> QED
    BY <2>1, InitTypeOK, InitBinding, InitRows, InitAlone, InitFiling, InitCallers
       DEF OnePressInv, RefusalInv
<1>2. TypeOK /\ OnePressInv /\ [Next]_vars => (TypeOK /\ OnePressInv)'
  BY NextTypeOK, NextOnePress
<1> QED
  BY <1>1, <1>2, PTL DEF Spec

\* With one process at a time, an employer posting never receives two applications of one
\* user even where the runner presses Send itself (direct_browser), and its press is not
\* bounded by the authorization's expiry.  With two processes it is false.  Code:
\* clickFinalSubmit after assertFinalRunnerBoundaryClear.
THEOREM OneProcessFilesOnce ==
  ASSUME OneProcess, Outages = FALSE, ApplicantErrs = FALSE
  PROVE  Spec => []NoDoubleFiling
<1>1. OnePressInv => NoDoubleFiling
  BY DEF OnePressInv, OneFiler, FiledOrMayFile, NoDoubleFiling
<1> QED
  BY <1>1, OnePressHolds, PTL

\* And the ledger never reads as safe to repeat once the employer holds the application:
\* no look closes an attempt whose press is still to come, as the run DirectLateClick shows
\* of two processes.  Code: submissionAttemptRetrySafety over the row's claim.
THEOREM OneProcessFiledBlocks ==
  ASSUME OneProcess, Outages = FALSE, ApplicantErrs = FALSE
  PROVE  Spec => []FiledNeverClosed
<1>1. OnePressInv => FiledNeverClosed
  BY DEF OnePressInv, FilersBlock, FiledOrMayFile, FiledNeverClosed
<1> QED
  BY <1>1, OnePressHolds, PTL
=============================================================================
