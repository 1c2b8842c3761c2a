------------------------------- MODULE FillRuns -------------------------------
(***************************************************************************)
(* One packet's fill runs across restarts of the server: who owns a run,   *)
(* who may still write for it, and who frees it when its process is gone.  *)
(*                                                                         *)
(* A call of processSubmissionApplication (src/src/routes/                 *)
(* submissionRunner.ts) fills the employer's form over minutes.  The       *)
(* process registers the packets it works on (src/src/lib/                 *)
(* managedRunLifecycle.ts) so that a SIGTERM can release them (src/src/    *)
(* index.ts, managedRunRestartRelease.ts); what a dead process left is     *)
(* found by the next boot (managedRunBootSweep.ts) or, after hours, by a   *)
(* dashboard poll (stalledFillRunRelease.ts).  All of them write the row a *)
(* slow call may still be filling.  What happens to an attempt after its   *)
(* claim is module Submission's; here sending is a claim and a press.      *)
(***************************************************************************)
EXTENDS Integers

CONSTANTS
  Calls,      \* concurrent calls of processSubmissionApplication
  Boots,      \* bound: process lifetimes; the last one is not killed
  None,       \* no call, no owner
  AgeFloor,   \* MANAGED_RUN_BOOT_SWEEP_AGE_FLOOR_MS, in ticks
  StallBound, \* STALLED_FILL_RUN_RELEASE_MS, in ticks
  MaxRuns     \* bound: submission_run_id values, and fillFaults, taken together

ASSUME CallsAssumption == Calls # {} /\ None \notin Calls
ASSUME BootsAssumption == Boots \in Nat \ {0} /\ None \notin 1..Boots
ASSUME FillBoundsAssumption ==
  /\ AgeFloor \in Nat /\ StallBound \in Nat /\ AgeFloor < StallBound
  /\ MaxRuns \in Nat

VARIABLES
  row,      \* the packet's review
  runs,     \* submission_run_id values minted so far
  call,     \* call -> where it is, its process, the row it acts on
  server,   \* process -> "unborn", "up", "stopping" or "gone"
  registry, \* process -> its entry for this packet: the call, the boundary mark
  duty,     \* process -> its shutdown worklist still holds this packet
  sweep,    \* process -> whether its boot sweep is due, and the owner it found
  fillFaults, \* requeues and unrecorded failures so far
  unrecorded  \* history: the runs whose failure could not be recorded

\* Process lifetimes in the order they boot.
Servers == 1..Boots

faultVars == <<fillFaults, unrecorded>>
fillVars == <<row, runs, call, server, registry, duty, sweep, fillFaults, unrecorded>>

NoEntry == [call |-> None, boundary |-> FALSE]

InFlight == {"preparing", "filling"}

\* The statuses submit-request starts a run from.
ReRunnable ==
  {"ready_to_submit", "submit_requested", "needs_attention",
   "ready_for_final_approval", "failed"}

NewPacket ==
  [status |-> "ready_to_submit", run |-> 0, owner |-> None, age |-> 0,
   claim |-> None]

IdleCall == [pc |-> "idle", server |-> 1, seen |-> NewPacket, signalled |-> FALSE]

\* The first process has served for a while: its boot sweep is done.
FillInit ==
  /\ row = NewPacket
  /\ runs = 0
  /\ call = [c \in Calls |-> IdleCall]
  /\ server = [s \in Servers |-> IF s = 1 THEN "up" ELSE "unborn"]
  /\ registry = [s \in Servers |-> NoEntry]
  /\ duty = [s \in Servers |-> FALSE]
  /\ sweep = [s \in Servers |-> [due |-> s # 1, owner |-> None]]
  /\ fillFaults = 0 /\ unrecorded = {}

\* Where no fair step is enabled: every server is gone.
FillAtRest ==
  /\ row = NewPacket /\ runs = 0 /\ call = [c \in Calls |-> IdleCall]
  /\ server = [s \in Servers |-> "gone"] /\ registry = [s \in Servers |-> NoEntry]
  /\ duty = [s \in Servers |-> FALSE]
  /\ sweep = [s \in Servers |-> [due |-> FALSE, owner |-> None]]
  /\ fillFaults = 0 /\ unrecorded = {}

At(c, step) == call[c].pc = step
\* The copy a call keeps does not age.
Goto(c, step) == call' = [call EXCEPT ![c].pc = step]
GotoWith(c, step, review) ==
  call' = [call EXCEPT ![c].pc = step, ![c].seen = [review EXCEPT !.age = 0]]

\* Whole-spec equality: the clock only measures how old the row is.
Unchanged(seen) == [row EXCEPT !.age = 0] = seen

\* Every write of the review stamps updated_at.
Write(review) == row' = [review EXCEPT !.age = 0]

-----------------------------------------------------------------------------
(* The process's registry *)

RegisterManagedRun(c, boundary) ==
  registry' = [registry EXCEPT ![call[c].server] =
                 [call |-> c, boundary |-> boundary]]

MarkBoundaryReached(c) ==
  registry' = [registry EXCEPT ![call[c].server].boundary =
                 registry[call[c].server] # NoEntry]

\* The entry goes only when it is this call's own: the token.
UnregisterManagedRun(c) ==
  registry' = IF registry[call[c].server].call = c
                THEN [registry EXCEPT ![call[c].server] = NoEntry]
                ELSE registry

\* A call returns: its finally block unregisters it.
End(c) ==
  /\ call' = [call EXCEPT ![c] = IdleCall]
  /\ UnregisterManagedRun(c)

\* managedProviderCallSignalFor: no boundary mark, or no entry, means abortable.
CarriesShutdownSignal(c) == ~ registry[call[c].server].boundary

-----------------------------------------------------------------------------
(* How a call comes to the packet *)

\* POST submit-request: a fresh run on the row, then this process's own call.
SubmitRequest(c, s) ==
  /\ At(c, "idle") /\ server[s] = "up"
  /\ row.status \in ReRunnable /\ row.claim = None
  /\ runs + fillFaults < MaxRuns
  /\ runs' = runs + 1
  /\ Write([row EXCEPT !.status = "submit_requested", !.run = runs + 1])
  /\ call' = [call EXCEPT ![c].pc = "starting", ![c].server = s]
  /\ UNCHANGED <<server, registry, duty, sweep, faultVars>>

\* POST approve: the shutdown gate does not name this route.
Approve(c, s) ==
  /\ At(c, "idle") /\ server[s] \in {"up", "stopping"}
  /\ row.status = "ready_for_final_approval"
  /\ Write([row EXCEPT !.status = "submitting", !.claim = None])
  /\ call' = [call EXCEPT ![c].pc = "starting", ![c].server = s]
  /\ UNCHANGED <<runs, server, registry, duty, sweep, faultVars>>

\* The cron selects its batch now and comes to the packet later.
CronSelects(c, s) ==
  /\ At(c, "idle") /\ server[s] = "up"
  /\ row.status \in {"submit_requested", "submitting"}
  /\ call' = [call EXCEPT ![c].pc = "starting", ![c].server = s]
  /\ UNCHANGED <<row, runs, server, registry, duty, sweep, faultVars>>

\* It reads the row and registers.  A row some call is already filling is
\* registered and unregistered in one turn of the event loop.
BeginStep(c) ==
  /\ At(c, "starting")
  /\ \/ /\ row.status = "submit_requested"
        /\ RegisterManagedRun(c, FALSE)
        /\ GotoWith(c, "read", row)
     \/ /\ row.status = "submitting" /\ row.claim = None
        /\ RegisterManagedRun(c, TRUE)
        /\ GotoWith(c, "submitting", row)
     \/ /\ row.status = "submitting" /\ row.claim # None
        /\ RegisterManagedRun(c, TRUE)
        /\ GotoWith(c, "recovering", row)
     \/ /\ row.status \in InFlight
        /\ registry' = [registry EXCEPT ![call[c].server] = NoEntry]
        /\ call' = [call EXCEPT ![c] = IdleCall]
     \/ /\ row.status \notin InFlight \cup {"submit_requested", "submitting"}
        /\ call' = [call EXCEPT ![c] = IdleCall]
        /\ UNCHANGED registry
  /\ UNCHANGED <<row, runs, server, duty, sweep, faultVars>>

\* A claimed packet's retained result is some other attempt's: module Submission.
RecoveryEnds(c) ==
  /\ At(c, "recovering") /\ End(c)
  /\ UNCHANGED <<row, runs, server, duty, sweep, faultVars>>

-----------------------------------------------------------------------------
(* Filling the form *)

\* Mutant: the claim asks for the run it read, not for the row.
SameRunWaits(seen) == row.run = seen.run

\* claimPreparation's condition: the exact row that was read.
MayClaimPreparation(seen) == Unchanged(seen)

ClaimPreparation(c) ==
  LET claimed == [call[c].seen EXCEPT !.status = "preparing", !.claim = None,
                                      !.owner = call[c].server]
  IN /\ At(c, "read")
     /\ IF MayClaimPreparation(call[c].seen)
          THEN /\ Write(claimed) /\ GotoWith(c, "filling", claimed)
               /\ UNCHANGED registry
          ELSE UNCHANGED row /\ End(c)
     /\ UNCHANGED <<runs, server, duty, sweep, faultVars>>

\* Mutant: a write asks for the packet's claim alone.
OwnsClaim(seen) == row.claim = seen.claim

\* writeReview's condition: the run and the claim the caller acted on.
OwnsRun(seen) == row.run = seen.run /\ row.claim = seen.claim

WriteReview(c, review) == IF OwnsRun(call[c].seen) THEN Write(review) ELSE UNCHANGED row

\* One of prepareManaged's three stage writes; its refusal is not looked at.
Progress(c) ==
  /\ At(c, "filling")
  /\ WriteReview(c, [call[c].seen EXCEPT !.status = "filling"])
  /\ UNCHANGED <<runs, call, server, registry, duty, sweep, faultVars>>

\* The last write: waiting for approval, going out by standing consent, or parked.
Prepared(c, status) ==
  /\ At(c, "filling")
  /\ WriteReview(c, [call[c].seen EXCEPT !.status = status])
  /\ Goto(c, "prepared")
  /\ UNCHANGED <<runs, server, registry, duty, sweep, faultVars>>

\* The row is read again, whatever run it is now in.
Reread(c) ==
  /\ At(c, "prepared")
  /\ IF row.status = "submitting"
       THEN MarkBoundaryReached(c) /\ GotoWith(c, "submitting", row)
       ELSE End(c)
  /\ UNCHANGED <<row, runs, server, duty, sweep, faultVars>>

\* Mutant: the failure is recorded on the exact row that was read.
FailsRowRead(seen) == Unchanged(seen)

\* recordSubmissionRunnerFailure's condition on a call that read no claim.
FailsRun(seen) == row.run = seen.run

\* An error on the way, recorded on the run it happened in.  "failed" is what an error
\* without a type of its own leaves, and only of a packet without a claim.
Throws(c, status, keepsClaim) ==
  /\ call[c].pc \in {"read", "filling", "prepared", "submitting"}
  /\ status = "failed" => row.claim = None
  /\ IF FailsRun(call[c].seen)
       THEN Write([row EXCEPT !.status = status,
                              !.claim = IF keepsClaim THEN row.claim ELSE None])
       ELSE UNCHANGED row
  /\ End(c)
  /\ UNCHANGED <<runs, server, duty, sweep, faultVars>>

Fault == runs + fillFaults < MaxRuns /\ fillFaults' = fillFaults + 1

\* The provider is not configured (no token for its bridge, say): the unclaimed packet
\* waits again, in the same run, "requeued, not terminal".
Requeues(c) ==
  /\ At(c, "filling") /\ FailsRun(call[c].seen) /\ row.claim = None
  /\ Fault
  /\ Write([row EXCEPT !.status = "submit_requested"])
  /\ End(c)
  /\ UNCHANGED <<runs, server, duty, sweep, unrecorded>>

\* The error, and then the write that should record it fails too.
FailureLost(c) ==
  /\ call[c].pc \in {"read", "filling", "prepared", "submitting"}
  /\ FailsRun(call[c].seen)
  /\ Fault
  /\ unrecorded' = unrecorded \cup {call[c].seen.run}
  /\ End(c)
  /\ UNCHANGED <<row, runs, server, duty, sweep>>

-----------------------------------------------------------------------------
(* Sending *)

ClaimSubmission(c) ==
  /\ At(c, "submitting")
  /\ IF call[c].seen.claim = None /\ Unchanged(call[c].seen)
       THEN /\ Write([row EXCEPT !.claim = c])
            /\ GotoWith(c, "claimed", [row EXCEPT !.claim = c])
            /\ UNCHANGED registry
       ELSE UNCHANGED row /\ End(c)
  /\ UNCHANGED <<runs, server, duty, sweep, faultVars>>

\* The provider call that presses Send takes the signal the registry says.
CallProvider(c) ==
  /\ At(c, "claimed")
  /\ ~ (CarriesShutdownSignal(c) /\ server[call[c].server] = "stopping")
  /\ call' = [call EXCEPT ![c].pc = "pressing",
                          ![c].signalled = CarriesShutdownSignal(c)]
  /\ UNCHANGED <<row, runs, server, registry, duty, sweep, faultVars>>

\* The call's outcome, or an abort that leaves the outcome unknown, on the row
\* that still carries this claim.
Settle(c, status) ==
  /\ IF row.claim = c THEN Write([row EXCEPT !.status = status]) ELSE UNCHANGED row
  /\ End(c)
  /\ UNCHANGED <<runs, server, duty, sweep, faultVars>>

Answered(c, status) == At(c, "pressing") /\ Settle(c, status)

CallAborted(c) ==
  /\ \/ At(c, "aborted")
     \/ /\ At(c, "claimed") /\ CarriesShutdownSignal(c)
        /\ server[call[c].server] = "stopping"
  /\ Settle(c, "needs_attention")

-----------------------------------------------------------------------------
(* Releasing a run *)

Silent(bound) == row.age > bound

\* Mutant: only the second of the two statuses is released.
ReleasableFilling == row.status = "filling" /\ row.claim = None

\* stalledFillRunIsReleasable without its clock.  Only a managed run is modelled, so
\* there is no browser session to veto it; an unclaimed packet has no attempt open.
Releasable == row.status \in InFlight /\ row.claim = None

\* Mutant: the release writes a status of its own.
ReleaseAsStalled == [row EXCEPT !.status = "stalled", !.run = 0]

\* releaseStalledFillRun: the run is cleared, and with it every write it still owes.
Release == [row EXCEPT !.status = "needs_attention", !.run = 0]

\* releaseManagedRunForRestart forgets the owner too.  Its bound is zero, and it
\* may lose its try-lock.
RestartRelease(expected) ==
  IF Releasable /\ row.owner = expected
    THEN Write([Release EXCEPT !.owner = None]) \/ UNCHANGED row
    ELSE UNCHANGED row

-----------------------------------------------------------------------------
(* Processes *)

LastBoot(s) == s = Boots

Swept == [due |-> FALSE, owner |-> None]

\* releaseManagedRunsBeforeExit: the signal aborts what carries it, and the
\* worklist is what the registry says has not reached the boundary.
Sigterm(s) ==
  /\ server[s] = "up" /\ ~ LastBoot(s)
  /\ server' = [server EXCEPT ![s] = "stopping"]
  /\ duty' = [duty EXCEPT ![s] = registry[s].call # None /\ ~ registry[s].boundary]
  /\ call' = [c \in Calls |->
       IF At(c, "pressing") /\ call[c].server = s /\ call[c].signalled
         THEN [call[c] EXCEPT !.pc = "aborted"] ELSE call[c]]
  /\ UNCHANGED <<row, runs, registry, sweep, faultVars>>

ShutdownRelease(s) ==
  /\ duty[s]
  /\ duty' = [duty EXCEPT ![s] = FALSE]
  /\ RestartRelease(s)
  /\ UNCHANGED <<runs, call, server, registry, sweep, faultVars>>

\* The exit, or a kill: every call of the process is gone.
Dies(s) ==
  /\ server[s] \in {"up", "stopping"} /\ ~ LastBoot(s)
  /\ server' = [server EXCEPT ![s] = "gone"]
  /\ registry' = [registry EXCEPT ![s] = NoEntry]
  /\ duty' = [duty EXCEPT ![s] = FALSE]
  /\ sweep' = [sweep EXCEPT ![s] = Swept]
  /\ call' = [c \in Calls |->
       IF call[c].pc # "idle" /\ call[c].server = s THEN IdleCall ELSE call[c]]
  /\ UNCHANGED <<row, runs, faultVars>>

\* A deploy boots the next process while the last one may still be serving.
Boot(s) ==
  /\ server[s] = "unborn" /\ server[s - 1] # "unborn"
  /\ server' = [server EXCEPT ![s] = "up"]
  /\ UNCHANGED <<row, runs, call, registry, duty, sweep, faultVars>>

\* findOrphanedManagedRunCandidates and the age floor, once per boot.
SweepSelects(s) ==
  /\ server[s] \in {"up", "stopping"} /\ sweep[s].due
  /\ sweep' = [sweep EXCEPT ![s] =
       IF /\ row.status \in InFlight \cup {"submitting"}
          /\ row.owner \notin {None, s} /\ Silent(AgeFloor)
         THEN [due |-> FALSE, owner |-> row.owner] ELSE Swept]
  /\ UNCHANGED <<row, runs, call, server, registry, duty, faultVars>>

\* The owner is asked again under the lock; the age floor is not.
SweepReleases(s) ==
  /\ server[s] \in {"up", "stopping"} /\ sweep[s].owner # None
  /\ RestartRelease(sweep[s].owner)
  /\ sweep' = [sweep EXCEPT ![s] = Swept]
  /\ UNCHANGED <<runs, call, server, registry, duty, faultVars>>

\* A dashboard poll repairs what has been silent past the long bound.
StallRelease ==
  /\ \E s \in Servers : server[s] = "up"
  /\ Releasable /\ Silent(StallBound)
  /\ Write(Release)
  /\ UNCHANGED <<runs, call, server, registry, duty, sweep, faultVars>>

\* The clock, as far as the silence of a row somebody may sweep can tell it.
Tick ==
  /\ row.status \in InFlight \cup {"submitting"}
  /\ row.age <= StallBound
  /\ row' = [row EXCEPT !.age = @ + 1]
  /\ UNCHANGED <<runs, call, server, registry, duty, sweep, faultVars>>

-----------------------------------------------------------------------------
(* A call's own steps, other than the stage writes it may repeat *)
CallStep(c) ==
  \/ BeginStep(c) \/ RecoveryEnds(c) \/ ClaimPreparation(c)
  \/ \E status \in {"ready_for_final_approval", "submitting", "needs_attention"} :
       Prepared(c, status)
  \/ Reread(c)
  \/ \E status \in {"needs_attention", "failed"}, keepsClaim \in BOOLEAN :
       Throws(c, status, keepsClaim)
  \/ ClaimSubmission(c) \/ CallProvider(c) \/ CallAborted(c)
  \/ \E status \in {"submitted", "needs_attention"} : Answered(c, status)

FillNext ==
  \/ \E c \in Calls, s \in Servers :
       SubmitRequest(c, s) \/ Approve(c, s) \/ CronSelects(c, s)
  \/ \E c \in Calls : CallStep(c) \/ Progress(c) \/ Requeues(c) \/ FailureLost(c)
  \/ \E s \in Servers :
       \/ Sigterm(s) \/ ShutdownRelease(s) \/ Dies(s) \/ Boot(s)
       \/ SweepSelects(s) \/ SweepReleases(s)
  \/ StallRelease \/ Tick

FillSpec == FillInit /\ [][FillNext]_fillVars

-----------------------------------------------------------------------------
(* Properties *)

Reviews ==
  [status : ReRunnable \cup InFlight \cup {"submitting", "submitted"},
   run : 0..MaxRuns, owner : Servers \cup {None}, age : 0..(StallBound + 1),
   claim : Calls \cup {None}]

\* The rows, calls, processes and registries of the files above.
FillTypeOK ==
  /\ row \in Reviews /\ runs \in 0..MaxRuns
  /\ call \in [Calls -> [pc : {"idle", "starting", "read", "filling", "prepared",
                                "submitting", "claimed", "pressing", "aborted",
                                "recovering"},
                          server : Servers, seen : Reviews, signalled : BOOLEAN]]
  /\ server \in [Servers -> {"unborn", "up", "stopping", "gone"}]
  /\ registry \in [Servers -> [call : Calls \cup {None}, boundary : BOOLEAN]]
  /\ duty \in [Servers -> BOOLEAN]
  /\ sweep \in [Servers -> [due : BOOLEAN, owner : Servers \cup {None}]]
  /\ fillFaults \in 0..MaxRuns /\ unrecorded \subseteq 0..MaxRuns

\* A run that was released or replaced never comes back, whatever its call still
\* writes: the packet changes runs only to none or to one nobody had before
\* (writeReview's fence).
DisplacedStaysOut ==
  [][row'.run # row.run => row'.run = 0 \/ row'.run > runs]_fillVars

\* At most one call fills the form for the row's current run, over any number of
\* cron sweeps, routes and processes (claimPreparation's condition).
OneFiller ==
  \A c, d \in Calls :
    /\ At(c, "filling") /\ At(d, "filling")
    /\ call[c].seen.run = row.run /\ call[d].seen.run = row.run
    => c = d

\* A packet in preparation whose process lives is being filled by a call of that
\* process: only a death, or a failure that could not be written, strands one (fail,
\* and every early return, settle the row or put it back in the queue).
OnlyDeathStrands ==
  row.status \in InFlight /\ row.run \notin unrecorded /\ server[row.owner] # "gone" =>
    \E c \in Calls : /\ At(c, "filling") /\ call[c].server = row.owner
                     /\ call[c].seen.run = row.run

\* A packet somebody asked to send does not stay in preparation for ever, whichever
\* process died, was released or lost its row on the way, once the provider is
\* configured and failures can be recorded again (fillFaults counts the times they were not).
RequestSettles ==
  row.status \in InFlight \cup {"submit_requested"} ~>
    row.status \notin InFlight \cup {"submit_requested"}

=============================================================================
