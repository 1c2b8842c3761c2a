--------------------------- MODULE BackgroundProofs ---------------------------
(***************************************************************************)
(* What holds of a packet's fill runs and of the drain of the job boards,  *)
(* for any number of calls, processes, servers and sources.                *)
(***************************************************************************)
EXTENDS Background, FiniteSetTheorems, TLAPS

-----------------------------------------------------------------------------
(* Fill runs: types *)

\* The rows the code writes are reviews.
LEMMA RowTypes ==
  ASSUME NEW r \in Reviews
  PROVE  /\ [r EXCEPT !.age = 0] \in Reviews
         /\ \A s \in ReRunnable \cup InFlight \cup {"submitting", "submitted"} :
              [r EXCEPT !.status = s] \in Reviews
         /\ \A n \in 0..MaxRuns : [r EXCEPT !.run = n] \in Reviews
         /\ \A o \in Servers \cup {None} : [r EXCEPT !.owner = o] \in Reviews
         /\ \A a \in Calls \cup {None} : [r EXCEPT !.claim = a] \in Reviews
BY FillBoundsAssumption DEF Reviews

LEMMA NewPacketType == NewPacket \in Reviews /\ 1 \in Servers
BY FillBoundsAssumption, BootsAssumption DEF Reviews, NewPacket, ReRunnable, Servers

\* What each kind of step leaves of the types: a write of the row, a move of a call, an
\* entry of the registry.
LEMMA WriteType ==
  ASSUME NEW r \in Reviews, Write(r) PROVE row' \in Reviews
BY RowTypes DEF Write

CallRecords ==
  [pc : {"idle", "starting", "read", "filling", "prepared", "submitting", "claimed",
         "pressing", "aborted", "recovering"},
   server : Servers, seen : Reviews, signalled : BOOLEAN]

LEMMA IdleCallType == IdleCall \in CallRecords
BY NewPacketType DEF IdleCall, CallRecords

LEMMA CallTypes ==
  ASSUME FillTypeOK, NEW c \in Calls
  PROVE  /\ \A step \in {"starting", "read", "filling", "prepared", "submitting",
                         "claimed", "pressing", "aborted", "recovering"} :
              /\ Goto(c, step) => call' \in [Calls -> CallRecords]
              /\ \A r \in Reviews :
                   GotoWith(c, step, r) => call' \in [Calls -> CallRecords]
         /\ \A p \in CallRecords :
              call' = [call EXCEPT ![c] = p] => call' \in [Calls -> CallRecords]
<1>1. call \in [Calls -> CallRecords]
  BY DEF FillTypeOK, CallRecords
<1>2. \A p \in CallRecords : [call EXCEPT ![c] = p] \in [Calls -> CallRecords]
  BY <1>1
<1>3. ASSUME NEW step \in {"starting", "read", "filling", "prepared", "submitting",
                           "claimed", "pressing", "aborted", "recovering"}
      PROVE  /\ Goto(c, step) => call' \in [Calls -> CallRecords]
             /\ \A r \in Reviews :
                  GotoWith(c, step, r) => call' \in [Calls -> CallRecords]
  <2>1. [call[c] EXCEPT !.pc = step] \in CallRecords
    BY <1>1 DEF CallRecords
  <2>2. \A r \in Reviews :
          [call[c] EXCEPT !.pc = step, !.seen = [r EXCEPT !.age = 0]] \in CallRecords
    BY <1>1, RowTypes DEF CallRecords
  <2>3. [call EXCEPT ![c].pc = step] = [call EXCEPT ![c] = [call[c] EXCEPT !.pc = step]]
    BY <1>1
  <2>4. \A r : [call EXCEPT ![c].pc = step, ![c].seen = [r EXCEPT !.age = 0]] =
                 [call EXCEPT ![c] = [call[c] EXCEPT !.pc = step,
                                                     !.seen = [r EXCEPT !.age = 0]]]
    BY <1>1
  <2> QED
    BY <1>2, <2>1, <2>2, <2>3, <2>4 DEF Goto, GotoWith
<1> QED
  BY <1>2, <1>3

Registries == [Servers -> [call : Calls \cup {None}, boundary : BOOLEAN]]

LEMMA RegistryTypes ==
  ASSUME FillTypeOK, NEW c \in Calls
  PROVE  /\ \A b \in BOOLEAN : RegisterManagedRun(c, b) => registry' \in Registries
         /\ MarkBoundaryReached(c) => registry' \in Registries
         /\ UnregisterManagedRun(c) => registry' \in Registries
         /\ \A s \in Servers : [registry EXCEPT ![s] = NoEntry] \in Registries
<1>1. call[c].server \in Servers /\ registry \in Registries
  BY DEF FillTypeOK, Registries
<1>2. MarkBoundaryReached(c) => registry' \in Registries
  <2> DEFINE marked == registry[call[c].server] # NoEntry
             entry == [registry[call[c].server] EXCEPT !.boundary = marked]
  <2>1. entry \in [call : Calls \cup {None}, boundary : BOOLEAN]
    BY <1>1 DEF Registries
  <2>2. MarkBoundaryReached(c) => registry' = [registry EXCEPT ![call[c].server] = entry]
    BY <1>1 DEF MarkBoundaryReached
  <2> QED
    BY <1>1, <2>1, <2>2 DEF Registries
<1>3. ASSUME NEW b \in BOOLEAN, RegisterManagedRun(c, b) PROVE registry' \in Registries
  <2>1. [call |-> c, boundary |-> b] \in [call : Calls \cup {None}, boundary : BOOLEAN]
    OBVIOUS
  <2> QED
    BY <1>1, <1>3, <2>1 DEF Registries, RegisterManagedRun
<1>4. NoEntry \in [call : Calls \cup {None}, boundary : BOOLEAN]
  BY DEF NoEntry
<1>5. \A s \in Servers : [registry EXCEPT ![s] = NoEntry] \in Registries
  BY <1>1, <1>4 DEF Registries
<1> QED
  BY <1>1, <1>2, <1>3, <1>5 DEF UnregisterManagedRun

LEMMA FillInitTypes == FillInit => FillTypeOK
BY NewPacketType, IdleCallType, FillBoundsAssumption
DEF FillInit, FillTypeOK, CallRecords, NoEntry

\* How a call comes to the packet, up to the moment it registers.
LEMMA ArrivalTypes ==
  ASSUME FillTypeOK, NEW c \in Calls, NEW s \in Servers,
         SubmitRequest(c, s) \/ Approve(c, s) \/ CronSelects(c, s) \/ BeginStep(c)
  PROVE  FillTypeOK'
<1>1. call' = [call EXCEPT ![c].pc = "starting", ![c].server = s] =>
        call' \in [Calls -> CallRecords]
  <2> call \in [Calls -> CallRecords]
    BY DEF FillTypeOK, CallRecords
  <2>1. [call[c] EXCEPT !.pc = "starting", !.server = s] \in CallRecords
    BY DEF CallRecords
  <2>2. [call EXCEPT ![c].pc = "starting", ![c].server = s] =
          [call EXCEPT ![c] = [call[c] EXCEPT !.pc = "starting", !.server = s]]
    OBVIOUS
  <2> QED
    BY <2>1, <2>2, CallTypes
<1>2. row \in Reviews
  BY DEF FillTypeOK
<1>3. CASE SubmitRequest(c, s)
  <2>1. runs' \in 0..MaxRuns /\ runs + 1 \in 0..MaxRuns
    BY <1>3, FillBoundsAssumption DEF SubmitRequest, FillTypeOK
  <2>2. [row EXCEPT !.status = "submit_requested", !.run = runs + 1] \in Reviews
    BY <1>2, <2>1 DEF Reviews, ReRunnable
  <2> QED
    BY <1>1, <1>3, <2>1, <2>2, WriteType DEF faultVars, SubmitRequest, FillTypeOK, CallRecords
<1>4. CASE Approve(c, s)
  <2>1. [row EXCEPT !.status = "submitting", !.claim = None] \in Reviews
    BY <1>2 DEF Reviews
  <2> QED
    BY <1>1, <1>4, <2>1, WriteType DEF faultVars, Approve, FillTypeOK, CallRecords
<1>5. CASE CronSelects(c, s)
  BY <1>1, <1>5 DEF faultVars, CronSelects, FillTypeOK, CallRecords
<1>6. CASE BeginStep(c)
  <2>1. call' \in [Calls -> CallRecords]
    BY <1>2, <1>6, CallTypes, IdleCallType DEF BeginStep
  <2>2. registry' \in Registries
    <3>1. registry \in Registries /\ call[c].server \in Servers
      BY DEF FillTypeOK, Registries
    <3> QED
      BY <1>6, <3>1, RegistryTypes DEF BeginStep
  <2> QED
    BY <1>6, <2>1, <2>2 DEF faultVars, BeginStep, FillTypeOK, CallRecords, Registries
<1> QED
  BY <1>3, <1>4, <1>5, <1>6

\* A step of a call that fills or sends: its writes are reviews, its moves are calls.
LEMMA CallStepTypes ==
  ASSUME FillTypeOK, NEW c \in Calls,
         CallStep(c) \/ Progress(c) \/ Requeues(c) \/ FailureLost(c)
  PROVE  FillTypeOK'
<1>1. row \in Reviews /\ call[c].seen \in Reviews /\ call[c].server \in Servers
  BY DEF FillTypeOK
<1>2. registry \in Registries /\ call \in [Calls -> CallRecords]
  BY DEF FillTypeOK, Registries, CallRecords
<1>3. End(c) => /\ call' \in [Calls -> CallRecords]
                /\ registry' \in Registries
  BY CallTypes, IdleCallType, RegistryTypes DEF End
<1>4. \A r \in Reviews : Write(r) => row' \in Reviews
  BY WriteType
<1>5. CASE BeginStep(c)
  BY <1>1, <1>5, ArrivalTypes
<1>6. CASE RecoveryEnds(c)
  BY <1>3, <1>6 DEF faultVars, RecoveryEnds, FillTypeOK, CallRecords, Registries
<1>7. CASE ClaimPreparation(c)
  <2> DEFINE claimed == [call[c].seen EXCEPT !.status = "preparing", !.claim = None,
                                             !.owner = call[c].server]
  <2>1. claimed \in Reviews
    BY <1>1 DEF Reviews, InFlight
  <2>2. row' \in Reviews
    BY <1>1, <1>4, <1>7, <2>1 DEF ClaimPreparation
  <2>3. call' \in [Calls -> CallRecords] /\ registry' \in Registries
    BY <1>2, <1>3, <1>7, <2>1, CallTypes DEF ClaimPreparation
  <2> QED
    BY <1>7, <2>2, <2>3 DEF faultVars, ClaimPreparation, FillTypeOK, CallRecords, Registries
<1>8. ASSUME NEW status \in ReRunnable \cup InFlight \cup {"submitting"},
             WriteReview(c, [call[c].seen EXCEPT !.status = status])
      PROVE  row' \in Reviews
  BY <1>1, <1>4, <1>8, RowTypes DEF WriteReview
<1>9. CASE Progress(c)
  BY <1>8, <1>9 DEF faultVars, Progress, FillTypeOK, CallRecords, InFlight
<1>10. ASSUME NEW status \in {"ready_for_final_approval", "submitting",
                              "needs_attention"}, Prepared(c, status)
       PROVE  FillTypeOK'
  <2>1. row' \in Reviews
    BY <1>8, <1>10 DEF Prepared, ReRunnable
  <2>2. call' \in [Calls -> CallRecords]
    BY <1>10, CallTypes DEF Prepared
  <2> QED
    BY <1>10, <2>1, <2>2 DEF faultVars, Prepared, FillTypeOK, CallRecords
<1>11. CASE Reread(c)
  <2>1. call' \in [Calls -> CallRecords] /\ registry' \in Registries
    BY <1>1, <1>3, <1>11, CallTypes, RegistryTypes DEF Reread
  <2> QED
    BY <1>11, <2>1 DEF faultVars, Reread, FillTypeOK, CallRecords, Registries
<1>12. ASSUME NEW status \in {"needs_attention", "failed"}, NEW keepsClaim \in BOOLEAN,
              Throws(c, status, keepsClaim)
       PROVE  FillTypeOK'
  <2>1. [row EXCEPT !.status = status,
                    !.claim = IF keepsClaim THEN row.claim ELSE None] \in Reviews
    BY <1>1 DEF Reviews, ReRunnable
  <2>2. row' \in Reviews
    BY <1>1, <1>4, <1>12, <2>1 DEF Throws
  <2> QED
    BY <1>3, <1>12, <2>2 DEF faultVars, Throws, FillTypeOK, CallRecords, Registries
<1>13. CASE ClaimSubmission(c)
  <2>1. [row EXCEPT !.claim = c] \in Reviews
    BY <1>1, RowTypes
  <2>2. row' \in Reviews
    BY <1>1, <1>4, <1>13, <2>1 DEF ClaimSubmission
  <2>3. call' \in [Calls -> CallRecords] /\ registry' \in Registries
    BY <1>2, <1>3, <1>13, <2>1, CallTypes DEF ClaimSubmission
  <2> QED
    BY <1>13, <2>2, <2>3 DEF faultVars, ClaimSubmission, FillTypeOK, CallRecords, Registries
<1>14. CASE CallProvider(c)
  <2>1. [call[c] EXCEPT !.pc = "pressing", !.signalled = CarriesShutdownSignal(c)]
          \in CallRecords
    BY <1>2 DEF CallRecords, CarriesShutdownSignal
  <2>2. call' = [call EXCEPT ![c] = [call[c] EXCEPT !.pc = "pressing",
                                       !.signalled = CarriesShutdownSignal(c)]]
    BY <1>2, <1>14 DEF CallProvider
  <2> QED
    BY <1>14, <2>1, <2>2, CallTypes DEF faultVars, CallProvider, FillTypeOK, CallRecords
<1>15. ASSUME NEW status \in {"submitted", "needs_attention"}, Settle(c, status)
       PROVE  FillTypeOK'
  <2>1. row' \in Reviews
    BY <1>1, <1>4, <1>15, RowTypes DEF Settle, ReRunnable
  <2> QED
    BY <1>3, <1>15, <2>1 DEF faultVars, Settle, FillTypeOK, CallRecords, Registries
<1>16. Fault => fillFaults' \in 0..MaxRuns
  BY FillBoundsAssumption DEF Fault, FillTypeOK
<1>17. CASE Requeues(c)
  <2>1. row' \in Reviews
    BY <1>1, <1>4, <1>17, RowTypes DEF Requeues, ReRunnable
  <2> QED
    BY <1>3, <1>16, <1>17, <2>1 DEF Requeues, FillTypeOK, CallRecords, Registries
<1>18. CASE FailureLost(c)
  <2>1. unrecorded' \subseteq 0..MaxRuns
    BY <1>1, <1>18 DEF FailureLost, FillTypeOK, Reviews
  <2> QED
    BY <1>3, <1>16, <1>18, <2>1 DEF FailureLost, FillTypeOK, CallRecords, Registries
<1> QED
  BY <1>5, <1>6, <1>7, <1>9, <1>10, <1>11, <1>12, <1>13, <1>14, <1>15, <1>17, <1>18
  DEF CallStep, CallAborted, Answered

\* The processes, the releases and the clock.
LEMMA ProcessTypes ==
  ASSUME FillTypeOK,
         \/ \E s \in Servers : \/ Sigterm(s) \/ ShutdownRelease(s) \/ Dies(s) \/ Boot(s)
                              \/ SweepSelects(s) \/ SweepReleases(s)
         \/ StallRelease \/ Tick
  PROVE  FillTypeOK'
<1>1. row \in Reviews /\ call \in [Calls -> CallRecords] /\ registry \in Registries
  BY DEF FillTypeOK, CallRecords, Registries
<1>2. Release \in Reviews /\ [Release EXCEPT !.owner = None] \in Reviews
  <2>1. 0 \in 0..MaxRuns
    BY FillBoundsAssumption
  <2> QED
    BY <1>1, <2>1 DEF Release, Reviews, ReRunnable
<1>3. \A o : RestartRelease(o) => row' \in Reviews
  BY <1>1, <1>2, WriteType DEF RestartRelease
<1>4. ASSUME NEW s \in Servers, Sigterm(s) PROVE FillTypeOK'
  <2>1. \A c \in Calls : [call[c] EXCEPT !.pc = "aborted"] \in CallRecords
    BY <1>1 DEF CallRecords
  <2>2. call' \in [Calls -> CallRecords]
    BY <1>1, <1>4, <2>1 DEF Sigterm
  <2> QED
    BY <1>4, <2>2 DEF faultVars, Sigterm, FillTypeOK, CallRecords
<1>5. ASSUME NEW s \in Servers, ShutdownRelease(s) PROVE FillTypeOK'
  BY <1>3, <1>5 DEF faultVars, ShutdownRelease, FillTypeOK
<1>6. ASSUME NEW s \in Servers, Dies(s) PROVE FillTypeOK'
  <2>1. call' \in [Calls -> CallRecords]
    BY <1>1, <1>6, IdleCallType DEF Dies
  <2>2. registry' \in Registries
    BY <1>1, <1>6 DEF Dies, Registries, NoEntry
  <2> QED
    BY <1>6, <2>1, <2>2 DEF faultVars, Dies, FillTypeOK, CallRecords, Registries, Swept
<1>7. ASSUME NEW s \in Servers, Boot(s) PROVE FillTypeOK'
  BY <1>7 DEF faultVars, Boot, FillTypeOK
<1>8. ASSUME NEW s \in Servers, SweepSelects(s) PROVE FillTypeOK'
  <2>1. row.owner \in Servers \cup {None}
    BY <1>1 DEF Reviews
  <2> QED
    BY <1>8, <2>1 DEF faultVars, SweepSelects, FillTypeOK, Swept
<1>9. ASSUME NEW s \in Servers, SweepReleases(s) PROVE FillTypeOK'
  BY <1>3, <1>9 DEF faultVars, SweepReleases, FillTypeOK, Swept
<1>10. CASE StallRelease
  BY <1>2, <1>10, WriteType DEF faultVars, StallRelease, FillTypeOK
<1>11. CASE Tick
  <2>1. row' \in Reviews
    BY <1>1, <1>11, FillBoundsAssumption DEF Tick, Reviews
  <2> QED
    BY <1>11, <2>1 DEF faultVars, Tick, FillTypeOK
<1> QED
  BY <1>4, <1>5, <1>6, <1>7, <1>8, <1>9, <1>10, <1>11

LEMMA FillNextTypes == FillTypeOK /\ [FillNext]_fillVars => FillTypeOK'
<1>1. FillTypeOK /\ UNCHANGED fillVars => FillTypeOK'
  BY DEF FillTypeOK, fillVars
<1> QED
  BY <1>1, ArrivalTypes, CallStepTypes, ProcessTypes DEF FillNext

-----------------------------------------------------------------------------
(* Fill runs: the inductive invariant *)

\* A call runs in a process that lives.
CallsOfTheLiving ==
  \A c \in Calls : ~ At(c, "idle") => server[call[c].server] \in {"up", "stopping"}

\* What a call remembers of the row it acts on.
Remembers(c) ==
  /\ At(c, "read") => call[c].seen.status = "submit_requested" /\ call[c].seen.run # 0
  /\ At(c, "filling") => /\ call[c].seen.run # 0 /\ call[c].seen.claim = None
                         /\ call[c].seen.owner = call[c].server
  /\ At(c, "submitting") => call[c].seen.status = "submitting"
  /\ call[c].seen.run <= runs

CallsRemember == \A c \in Calls : Remembers(c)

\* The row's run was minted; a request has one; nobody holds a claim while a form is filled.
RowsRun ==
  /\ row.run <= runs
  /\ row.status = "submit_requested" => row.run # 0
  /\ row.status \in InFlight => row.claim = None /\ row.owner \in Servers

\* A run somebody fills was begun: it is not waiting to begin.
FillersHaveBegun ==
  \A c \in Calls :
    At(c, "filling") /\ call[c].seen.run = row.run => row.status # "submit_requested"

FillInv ==
  /\ CallsOfTheLiving /\ CallsRemember /\ RowsRun /\ FillersHaveBegun
  /\ OneFiller /\ OnlyDeathStrands

LEMMA FillInitInv == FillInit => FillInv
BY NewPacketType, BootsAssumption
DEF FillInit, FillInv, CallsOfTheLiving, CallsRemember, Remembers, RowsRun,
    FillersHaveBegun, OneFiller, OnlyDeathStrands, At, IdleCall, NewPacket, InFlight

\* A step of one call c on the row it has: c begins to fill only from a request that
\* waits; the row's run stays; and who leaves a run it fills leaves the row settled.
OwnStep(c) ==
  /\ runs' = runs /\ server' = server /\ row'.run = row.run
  /\ \A d \in Calls \ {c} : call'[d] = call[d]
  /\ call'[c].pc # "idle" => call[c].pc # "idle" /\ call'[c].server = call[c].server
  /\ row'.status = "submit_requested" =>
       \/ row.status = "submit_requested"
       \/ /\ call[c].pc = "filling" /\ call[c].seen.run = row.run
          /\ call'[c].pc # "filling"
  /\ unrecorded \subseteq unrecorded'
  /\ call'[c].pc = "filling" =>
       \/ call[c].pc = "filling" /\ call'[c].seen = call[c].seen
       \/ /\ row.status = "submit_requested" /\ row'.status # "submit_requested"
          /\ call'[c].seen.run = row.run
  /\ row'.status \in InFlight =>
       \/ /\ call'[c].pc = "filling" /\ call'[c].seen.run = row.run
          /\ call'[c].server = row'.owner
       \/ /\ row.status \in InFlight /\ row'.owner = row.owner
          /\ \/ ~ (call[c].pc = "filling" /\ call[c].seen.run = row.run)
             \/ row.run \in unrecorded'

LEMMA OwnStepInv ==
  ASSUME FillTypeOK, FillInv, NEW c \in Calls, OwnStep(c), Remembers(c)', RowsRun'
  PROVE  FillInv'
<1> USE DEF FillInv, At
<1>1. CallsOfTheLiving'
  BY DEF CallsOfTheLiving, OwnStep
<1>2. CallsRemember'
  BY DEF CallsRemember, Remembers, OwnStep
<1>3. FillersHaveBegun'
  BY DEF FillersHaveBegun, OneFiller, OwnStep
<1>4. OneFiller'
  BY DEF OneFiller, FillersHaveBegun, OwnStep
<1>5. OnlyDeathStrands'
  <2> SUFFICES ASSUME row'.status \in InFlight, row.run \notin unrecorded',
                      server[row'.owner] # "gone"
               PROVE  \E d \in Calls : /\ call'[d].pc = "filling"
                                       /\ call'[d].server = row'.owner
                                       /\ call'[d].seen.run = row.run
    BY DEF OnlyDeathStrands, OwnStep
  <2>1. CASE /\ call'[c].pc = "filling" /\ call'[c].seen.run = row.run
             /\ call'[c].server = row'.owner
    BY <2>1
  <2>2. CASE /\ row.status \in InFlight /\ row'.owner = row.owner
             /\ \/ ~ (call[c].pc = "filling" /\ call[c].seen.run = row.run)
                \/ row.run \in unrecorded'
    BY <2>2 DEF OnlyDeathStrands, OwnStep
  <2> QED
    BY <2>1, <2>2 DEF OwnStep
<1> QED
  BY <1>1, <1>2, <1>3, <1>4, <1>5

\* Where a call is after it moved, and what it holds.
LEMMA Moves ==
  ASSUME FillTypeOK, NEW c \in Calls
  PROVE  /\ \A step : Goto(c, step) =>
              /\ \A d \in Calls \ {c} : call'[d] = call[d]
              /\ call'[c].pc = step /\ call'[c].server = call[c].server
              /\ call'[c].seen = call[c].seen
         /\ \A step, r : GotoWith(c, step, r) =>
              /\ \A d \in Calls \ {c} : call'[d] = call[d]
              /\ call'[c].pc = step /\ call'[c].server = call[c].server
              /\ call'[c].seen = [r EXCEPT !.age = 0]
         /\ End(c) =>
              /\ \A d \in Calls \ {c} : call'[d] = call[d]
              /\ call'[c] = IdleCall
<1> call \in [Calls -> CallRecords]
  BY DEF FillTypeOK, CallRecords
<1> QED
  BY DEF Goto, GotoWith, End, CallRecords

\* A call that ended remembers the new packet.
LEMMA EndedRemembers ==
  ASSUME FillTypeOK, NEW c \in Calls, call'[c] = IdleCall, runs' = runs
  PROVE  Remembers(c)'
BY FillBoundsAssumption DEF Remembers, At, IdleCall, NewPacket, FillTypeOK

\* A step that writes no row and lets its call end, or move with the copy it has.
LEMMA BeginStepInv ==
  ASSUME FillTypeOK, FillInv, NEW c \in Calls, BeginStep(c) \/ RecoveryEnds(c)
  PROVE  FillInv'
<1>1. RowsRun' /\ runs' = runs /\ server' = server /\ unrecorded' = unrecorded /\ row' = row
  BY DEF faultVars, BeginStep, RecoveryEnds, FillInv, RowsRun
<1>2. row \in Reviews /\ row.run <= runs
  BY DEF FillTypeOK, FillInv, RowsRun
<1>3. [row EXCEPT !.age = 0].run = row.run /\ [row EXCEPT !.age = 0].status = row.status
  BY <1>2 DEF Reviews
<1>4. /\ \A d \in Calls \ {c} : call'[d] = call[d]
      /\ \/ call'[c] = IdleCall
         \/ /\ call'[c].pc = "read" /\ row.status = "submit_requested"
            /\ call'[c].seen = [row EXCEPT !.age = 0]
         \/ /\ call'[c].pc \in {"submitting", "recovering"}
            /\ row.status = "submitting" /\ call'[c].seen = [row EXCEPT !.age = 0]
      /\ call[c].pc \in {"starting", "recovering"}
      /\ call'[c] = IdleCall \/ call'[c].server = call[c].server
  <2>1. CASE RecoveryEnds(c)
    BY <2>1, Moves DEF RecoveryEnds, At
  <2>2. CASE BeginStep(c)
    <3> call \in [Calls -> CallRecords]
      BY DEF FillTypeOK, CallRecords
    <3>1. call' = [call EXCEPT ![c] = IdleCall] =>
            call'[c] = IdleCall /\ \A d \in Calls \ {c} : call'[d] = call[d]
      OBVIOUS
    <3> QED
      BY <2>2, <3>1, Moves DEF BeginStep, At
  <2> QED
    BY <2>1, <2>2
<1>5. Remembers(c)'
  BY <1>1, <1>2, <1>3, <1>4, EndedRemembers DEF Remembers, At, FillInv, RowsRun
<1>6. OwnStep(c)
  BY <1>1, <1>4 DEF OwnStep, IdleCall
<1> QED
  BY <1>1, <1>5, <1>6, OwnStepInv

\* The claim on a waiting request takes exactly the row that was read.
LEMMA ClaimPreparationInv ==
  ASSUME FillTypeOK, FillInv, NEW c \in Calls, ClaimPreparation(c)
  PROVE  FillInv'
<1> DEFINE seen == call[c].seen
           claimed == [seen EXCEPT !.status = "preparing", !.claim = None,
                                   !.owner = call[c].server]
<1>1. /\ row \in Reviews /\ seen \in Reviews /\ call[c].server \in Servers
      /\ row.run <= runs /\ call[c].pc = "read"
      /\ seen.status = "submit_requested" /\ seen.run # 0 /\ seen.run <= runs
  BY DEF FillTypeOK, FillInv, RowsRun, CallsRemember, Remembers, ClaimPreparation, At
<1>2. runs' = runs /\ server' = server /\ unrecorded' = unrecorded
  BY DEF faultVars, ClaimPreparation
<1>3. CASE MayClaimPreparation(seen)
  <2>1. row.run = seen.run /\ row.status = "submit_requested"
    BY <1>1, <1>3 DEF MayClaimPreparation, Unchanged, Reviews
  <2>2. row' = [claimed EXCEPT !.age = 0] /\ GotoWith(c, "filling", claimed)
    BY <1>3 DEF ClaimPreparation, Write
  <2>3. /\ row'.status = "preparing" /\ row'.run = seen.run /\ row'.claim = None
        /\ row'.owner = call[c].server
    BY <1>1, <2>2 DEF Reviews
  <2>4. /\ \A d \in Calls \ {c} : call'[d] = call[d]
        /\ call'[c].pc = "filling" /\ call'[c].server = call[c].server
        /\ call'[c].seen = row'
    <3> call \in [Calls -> CallRecords]
      BY DEF FillTypeOK, CallRecords
    <3> QED
      BY <2>2 DEF GotoWith, CallRecords
  <2>5. Remembers(c)' /\ RowsRun'
    BY <1>1, <1>2, <2>3, <2>4 DEF Remembers, RowsRun, At
  <2>6. OwnStep(c)
    BY <1>1, <1>2, <2>1, <2>3, <2>4 DEF OwnStep
  <2> QED
    BY <2>5, <2>6, OwnStepInv
<1>4. CASE ~ MayClaimPreparation(seen)
  <2>1. row' = row /\ End(c)
    BY <1>4 DEF ClaimPreparation
  <2>2. /\ \A d \in Calls \ {c} : call'[d] = call[d]
        /\ call'[c] = IdleCall
    BY <2>1, Moves
  <2>3. Remembers(c)' /\ RowsRun'
    BY <1>2, <2>1, <2>2, EndedRemembers DEF FillInv, RowsRun
  <2>4. OwnStep(c)
    BY <1>1, <1>2, <2>1, <2>2 DEF OwnStep, IdleCall
  <2> QED
    BY <2>3, <2>4, OwnStepInv
<1> QED
  BY <1>3, <1>4

\* What a filler writes reaches the row only in its own run, and then holds no claim.
LEMMA FillerWrites ==
  ASSUME FillTypeOK, FillInv, NEW c \in Calls, At(c, "filling"),
         NEW status \in ReRunnable \cup InFlight \cup {"submitting"},
         WriteReview(c, [call[c].seen EXCEPT !.status = status])
  PROVE  \/ /\ row' = row
            /\ row.run # call[c].seen.run \/ row.claim # None
         \/ /\ row.run = call[c].seen.run /\ row'.run = row.run
            /\ row'.status = status /\ row'.claim = None
            /\ row'.owner = call[c].server
<1>1. /\ call[c].seen \in Reviews /\ call[c].seen.claim = None
      /\ call[c].seen.owner = call[c].server
  BY DEF FillTypeOK, FillInv, CallsRemember, Remembers
<1> QED
  BY <1>1 DEF WriteReview, OwnsRun, Write, Reviews

LEMMA ProgressInv ==
  ASSUME FillTypeOK, FillInv, NEW c \in Calls, Progress(c)
  PROVE  FillInv'
<1>1. /\ call' = call /\ runs' = runs /\ server' = server
      /\ unrecorded' = unrecorded /\ call[c].pc = "filling"
  BY DEF faultVars, Progress, At
<1>2. \/ row' = row
      \/ /\ row.run = call[c].seen.run /\ row'.run = row.run
         /\ row'.status = "filling" /\ row'.claim = None
         /\ row'.owner = call[c].server
  BY FillerWrites DEF Progress, InFlight
<1>3. call[c].server \in Servers /\ Remembers(c)
  BY DEF FillTypeOK, FillInv, CallsRemember
<1>4. Remembers(c)' /\ RowsRun'
  BY <1>1, <1>2, <1>3 DEF FillInv, RowsRun, Remembers, At
<1>5. CASE row' = row
  BY <1>1, <1>5
  DEF FillInv, CallsOfTheLiving, CallsRemember, Remembers, RowsRun, FillersHaveBegun,
      OneFiller, OnlyDeathStrands, At
<1>6. CASE row' # row
  <2>1. OwnStep(c)
    BY <1>1, <1>2, <1>6 DEF OwnStep
  <2> QED
    BY <1>4, <2>1, OwnStepInv
<1> QED
  BY <1>5, <1>6

\* A filler that is done leaves its run settled: the write is refused only in another run.
LEMMA PreparedInv ==
  ASSUME FillTypeOK, FillInv, NEW c \in Calls,
         NEW status \in {"ready_for_final_approval", "submitting", "needs_attention"},
         Prepared(c, status)
  PROVE  FillInv'
<1>1. /\ runs' = runs /\ server' = server
      /\ unrecorded' = unrecorded /\ call[c].pc = "filling"
  BY DEF faultVars, Prepared, At
<1>2. \/ /\ row' = row
         /\ row.run # call[c].seen.run \/ row.claim # None
      \/ /\ row.run = call[c].seen.run /\ row'.run = row.run
         /\ row'.status = status /\ row'.claim = None
  <2> status \in ReRunnable \cup InFlight \cup {"submitting"}
    BY DEF ReRunnable
  <2> QED
    BY FillerWrites DEF Prepared
<1>3. /\ \A d \in Calls \ {c} : call'[d] = call[d]
      /\ call'[c].pc = "prepared" /\ call'[c].server = call[c].server
      /\ call'[c].seen = call[c].seen
  BY Moves DEF Prepared
<1>4. Remembers(c)' /\ RowsRun'
  BY <1>1, <1>2, <1>3
  DEF FillInv, RowsRun, CallsRemember, Remembers, At, InFlight
<1>5. OwnStep(c)
  BY <1>1, <1>2, <1>3 DEF OwnStep, InFlight, FillInv, RowsRun
<1> QED
  BY <1>4, <1>5, OwnStepInv

LEMMA RereadInv ==
  ASSUME FillTypeOK, FillInv, NEW c \in Calls, Reread(c)
  PROVE  FillInv'
<1>1. /\ runs' = runs /\ server' = server
      /\ unrecorded' = unrecorded /\ row' = row /\ call[c].pc = "prepared"
      /\ row \in Reviews /\ RowsRun
  BY DEF faultVars, Reread, At, FillTypeOK, FillInv
<1>2. /\ \A d \in Calls \ {c} : call'[d] = call[d]
      /\ \/ call'[c] = IdleCall
         \/ /\ call'[c].pc = "submitting" /\ row.status = "submitting"
            /\ call'[c].server = call[c].server
            /\ call'[c].seen = [row EXCEPT !.age = 0]
  BY Moves DEF Reread
<1>3. [row EXCEPT !.age = 0].run = row.run /\ [row EXCEPT !.age = 0].status = row.status
  BY <1>1 DEF Reviews
<1>4. Remembers(c)' /\ RowsRun'
  BY <1>1, <1>2, <1>3, EndedRemembers DEF RowsRun, Remembers, At
<1>5. OwnStep(c)
  BY <1>1, <1>2 DEF OwnStep, IdleCall
<1> QED
  BY <1>4, <1>5, OwnStepInv

\* An error ends the call; the row in its run no longer waits or fills.
LEMMA ThrowsInv ==
  ASSUME FillTypeOK, FillInv, NEW c \in Calls,
         NEW status \in {"needs_attention", "failed"}, NEW keepsClaim \in BOOLEAN,
         Throws(c, status, keepsClaim)
  PROVE  FillInv'
<1>1. /\ runs' = runs /\ server' = server
      /\ unrecorded' = unrecorded /\ call[c].pc # "idle"
      /\ row \in Reviews /\ RowsRun
  BY DEF faultVars, Throws, FillTypeOK, FillInv
<1>2. /\ \A d \in Calls \ {c} : call'[d] = call[d]
      /\ call'[c] = IdleCall
  BY Moves DEF Throws
<1>3. \/ row' = row /\ row.run # call[c].seen.run
      \/ row'.status \in {"needs_attention", "failed"} /\ row'.run = row.run
  BY <1>1 DEF Throws, FailsRun, Write, Reviews
<1>4. Remembers(c)' /\ RowsRun'
  BY <1>1, <1>2, <1>3, EndedRemembers DEF RowsRun, InFlight
<1>5. OwnStep(c)
  BY <1>1, <1>2, <1>3 DEF OwnStep, IdleCall, InFlight
<1> QED
  BY <1>4, <1>5, OwnStepInv

\* A requeued run waits again, and nobody fills it; a failure nobody could record leaves
\* the row as it is, and its run in the list.
LEMMA FaultInv ==
  ASSUME FillTypeOK, FillInv, NEW c \in Calls, Requeues(c) \/ FailureLost(c)
  PROVE  FillInv'
<1>1. /\ runs' = runs /\ server' = server /\ call[c].pc # "idle"
      /\ row \in Reviews /\ RowsRun /\ unrecorded \subseteq unrecorded'
      /\ call[c].seen.run = row.run
  BY DEF Requeues, FailureLost, FailsRun, At, FillTypeOK, FillInv
<1>2. /\ \A d \in Calls \ {c} : call'[d] = call[d]
      /\ call'[c] = IdleCall
  BY Moves DEF Requeues, FailureLost
<1>3. \/ row' = row /\ row.run \in unrecorded'
      \/ /\ row'.status = "submit_requested" /\ row'.run = row.run
         /\ call[c].pc = "filling" /\ row.run # 0
  BY <1>1 DEF Requeues, FailureLost, Write, Reviews, At, FillInv, CallsRemember, Remembers
<1>4. Remembers(c)' /\ RowsRun'
  BY <1>1, <1>2, <1>3, EndedRemembers DEF RowsRun, InFlight
<1>5. OwnStep(c)
  BY <1>1, <1>2, <1>3 DEF OwnStep, IdleCall, InFlight
<1> QED
  BY <1>4, <1>5, OwnStepInv

\* Sending writes rows that are not in preparation.
LEMMA SendingInv ==
  ASSUME FillTypeOK, FillInv, NEW c \in Calls,
         \/ ClaimSubmission(c) \/ CallProvider(c) \/ CallAborted(c)
         \/ \E status \in {"submitted", "needs_attention"} : Answered(c, status)
  PROVE  FillInv'
<1>1. row \in Reviews /\ RowsRun /\ Remembers(c) /\ c # None
  BY CallsAssumption DEF FillTypeOK, FillInv, CallsRemember
<1>2. CASE ClaimSubmission(c)
  <2>1. /\ runs' = runs /\ server' = server
        /\ unrecorded' = unrecorded /\ call[c].pc = "submitting"
    BY <1>2 DEF faultVars, ClaimSubmission, At
  <2>2. CASE call[c].seen.claim = None /\ Unchanged(call[c].seen)
    <3>1. row.status = "submitting"
      BY <1>1, <2>1, <2>2 DEF Unchanged, Remembers, At, Reviews
    <3>2. row'.status = row.status /\ row'.run = row.run
      BY <1>1, <1>2, <2>2 DEF ClaimSubmission, Write, Reviews
    <3>3. GotoWith(c, "claimed", [row EXCEPT !.claim = c])
      BY <1>2, <2>2 DEF ClaimSubmission
    <3>4. /\ \A d \in Calls \ {c} : call'[d] = call[d]
          /\ call'[c].pc = "claimed" /\ call'[c].server = call[c].server
          /\ call'[c].seen = [[row EXCEPT !.claim = c] EXCEPT !.age = 0]
      <4> call \in [Calls -> CallRecords]
        BY DEF FillTypeOK, CallRecords
      <4> QED
        BY <3>3 DEF GotoWith, CallRecords
    <3>5. call'[c].seen.run = row.run
      BY <1>1, <3>4 DEF Reviews
    <3>6. Remembers(c)' /\ RowsRun'
      BY <1>1, <2>1, <3>1, <3>2, <3>4, <3>5 DEF RowsRun, Remembers, At, InFlight
    <3>7. OwnStep(c)
      BY <2>1, <3>1, <3>2, <3>4 DEF OwnStep, InFlight
    <3> QED
      BY <3>6, <3>7, OwnStepInv
  <2>3. CASE ~ (call[c].seen.claim = None /\ Unchanged(call[c].seen))
    <3>1. row' = row /\ End(c)
      BY <1>2, <2>3 DEF ClaimSubmission
    <3>2. /\ \A d \in Calls \ {c} : call'[d] = call[d]
          /\ call'[c] = IdleCall
      BY <3>1, Moves
    <3>3. Remembers(c)' /\ RowsRun'
      BY <1>1, <2>1, <3>1, <3>2, EndedRemembers DEF RowsRun
    <3>4. OwnStep(c)
      BY <2>1, <3>1, <3>2 DEF OwnStep, IdleCall
    <3> QED
      BY <3>3, <3>4, OwnStepInv
  <2> QED
    BY <2>2, <2>3
<1>3. CASE CallProvider(c)
  <2>1. /\ runs' = runs /\ server' = server
        /\ unrecorded' = unrecorded /\ row' = row /\ call[c].pc = "claimed"
        /\ \A d \in Calls \ {c} : call'[d] = call[d]
        /\ call'[c].pc = "pressing" /\ call'[c].server = call[c].server
        /\ call'[c].seen = call[c].seen
    <3> call \in [Calls -> CallRecords]
      BY DEF FillTypeOK, CallRecords
    <3> QED
      BY <1>3 DEF faultVars, CallProvider, At, CallRecords
  <2>2. Remembers(c)' /\ RowsRun'
    BY <1>1, <2>1 DEF RowsRun, Remembers, At
  <2>3. OwnStep(c)
    BY <2>1 DEF OwnStep
  <2> QED
    BY <2>2, <2>3, OwnStepInv
<1>4. ASSUME NEW status \in {"submitted", "needs_attention"}, Settle(c, status),
             call[c].pc \in {"pressing", "aborted", "claimed"}
      PROVE  FillInv'
  <2>1. /\ runs' = runs /\ server' = server /\ unrecorded' = unrecorded
        /\ \A d \in Calls \ {c} : call'[d] = call[d]
        /\ call'[c] = IdleCall
    BY <1>4, Moves DEF faultVars, Settle
  <2>2. row' = row \/ (row'.status = status /\ row'.run = row.run)
    BY <1>1, <1>4 DEF Settle, Write, Reviews
  <2>3. Remembers(c)' /\ RowsRun'
    BY <1>1, <2>1, <2>2, EndedRemembers DEF RowsRun, InFlight
  <2>4. OwnStep(c)
    BY <1>4, <2>1, <2>2 DEF OwnStep, IdleCall, InFlight
  <2> QED
    BY <2>3, <2>4, OwnStepInv
<1> QED
  BY <1>2, <1>3, <1>4 DEF CallAborted, Answered, At

\* A route or the cron takes up the packet: the request it writes is of a new run.
LEMMA TakenUpInv ==
  ASSUME FillTypeOK, FillInv, NEW c \in Calls, NEW s \in Servers,
         SubmitRequest(c, s) \/ Approve(c, s) \/ CronSelects(c, s)
  PROVE  FillInv'
<1>1. /\ server' = server /\ unrecorded' = unrecorded
      /\ server[s] \in {"up", "stopping"} /\ call[c].pc = "idle"
      /\ \A d \in Calls \ {c} : call'[d] = call[d]
      /\ call'[c].pc = "starting" /\ call'[c].server = s
      /\ call'[c].seen = call[c].seen
  <2> call \in [Calls -> CallRecords]
    BY DEF FillTypeOK, CallRecords
  <2> QED
    BY DEF faultVars, SubmitRequest, Approve, CronSelects, At, CallRecords
<1>2. /\ row \in Reviews /\ runs \in Nat /\ RowsRun
      /\ \A d \in Calls : call[d].seen.run \in Nat /\ call[d].seen.run <= runs
  BY FillBoundsAssumption DEF FillTypeOK, FillInv, Reviews, CallsRemember, Remembers
<1>3. \/ row' = row /\ runs' = runs
      \/ /\ row'.status = "submit_requested" /\ row'.run = runs + 1 /\ runs' = runs + 1
      \/ /\ row'.status = "submitting" /\ row'.run = row.run /\ runs' = runs
  BY <1>2 DEF SubmitRequest, Approve, CronSelects, Write, Reviews
<1>4. CallsOfTheLiving'
  BY <1>1 DEF FillInv, CallsOfTheLiving, At
<1>5. CallsRemember'
  BY <1>1, <1>2, <1>3 DEF FillInv, CallsRemember, Remembers, At
<1>6. RowsRun'
  BY <1>2, <1>3, FillBoundsAssumption DEF RowsRun, InFlight, Reviews
<1>7. FillersHaveBegun'
  BY <1>1, <1>2, <1>3 DEF FillInv, FillersHaveBegun, At
<1>8. OneFiller'
  BY <1>1, <1>2, <1>3 DEF FillInv, OneFiller, At
<1>9. OnlyDeathStrands'
  BY <1>1, <1>3 DEF FillInv, OnlyDeathStrands, InFlight, At
<1> QED
  BY <1>4, <1>5, <1>6, <1>7, <1>8, <1>9 DEF FillInv

\* A step that moves no call into or out of filling, and leaves the row, or leaves it
\* without a run that needs somebody: a release or the clock.
LEMMA RowStepInv ==
  ASSUME FillTypeOK, FillInv, runs' = runs, call' = call, unrecorded' = unrecorded,
         \A s \in Servers : \/ server'[s] = server[s]
                            \/ server[s] = "unborn" /\ server'[s] = "up",
         \/ /\ row'.status = row.status /\ row'.run = row.run
            /\ row'.claim = row.claim /\ row'.owner = row.owner
         \/ row'.status = "needs_attention" /\ row'.run = 0
  PROVE  FillInv'
<1>1. /\ runs \in Nat /\ call \in [Calls -> CallRecords]
      /\ \A c \in Calls : call[c].server \in Servers
  BY FillBoundsAssumption DEF FillTypeOK, CallRecords
<1>2. CallsOfTheLiving'
  BY <1>1 DEF FillInv, CallsOfTheLiving, At
<1>3. CallsRemember' /\ RowsRun'
  BY <1>1 DEF FillInv, CallsRemember, Remembers, RowsRun, At, InFlight
<1>4. FillersHaveBegun' /\ OneFiller'
  BY <1>1 DEF FillInv, FillersHaveBegun, OneFiller, CallsRemember, Remembers, At
<1>5. OnlyDeathStrands'
  BY <1>1 DEF FillInv, OnlyDeathStrands, RowsRun, At, InFlight
<1> QED
  BY <1>2, <1>3, <1>4, <1>5 DEF FillInv

\* What a release leaves.
LEMMA Released ==
  ASSUME row \in Reviews
  PROVE  /\ Write(Release) => row'.status = "needs_attention" /\ row'.run = 0
         /\ \A o : RestartRelease(o) =>
              row' = row \/ (row'.status = "needs_attention" /\ row'.run = 0)
BY DEF Release, RestartRelease, Write, Reviews

\* The signal, and a process that dies with every call it runs.
LEMMA ExitInv ==
  ASSUME FillTypeOK, FillInv, NEW s \in Servers, Sigterm(s) \/ Dies(s)
  PROVE  FillInv'
<1>1. /\ call \in [Calls -> CallRecords] /\ row' = row /\ runs' = runs
      /\ unrecorded' = unrecorded
      /\ server \in [Servers -> {"unborn", "up", "stopping", "gone"}]
      /\ \A c \in Calls : call[c].server \in Servers
  BY DEF faultVars, FillTypeOK, CallRecords, Sigterm, Dies
<1>2. CASE Sigterm(s)
  <2>1. \A c \in Calls :
          \/ call'[c] = call[c]
          \/ /\ call[c].pc = "pressing" /\ call'[c].pc = "aborted"
             /\ call'[c].server = call[c].server /\ call'[c].seen = call[c].seen
    BY <1>1, <1>2 DEF Sigterm, At, CallRecords
  <2>2. /\ server[s] = "up" /\ server'[s] = "stopping"
        /\ \A t \in Servers \ {s} : server'[t] = server[t]
    BY <1>1, <1>2 DEF Sigterm
  <2>3. CallsOfTheLiving'
    BY <1>1, <2>1, <2>2 DEF FillInv, CallsOfTheLiving, At
  <2>4. CallsRemember' /\ RowsRun'
    BY <1>1, <2>1 DEF FillInv, CallsRemember, Remembers, RowsRun, At
  <2>5. FillersHaveBegun' /\ OneFiller'
    BY <1>1, <2>1 DEF FillInv, FillersHaveBegun, OneFiller, At
  <2>6. OnlyDeathStrands'
    BY <1>1, <2>1, <2>2 DEF faultVars, FillInv, OnlyDeathStrands, RowsRun, At
  <2> QED
    BY <2>3, <2>4, <2>5, <2>6 DEF FillInv
<1>3. CASE Dies(s)
  <2>1. \A c \in Calls :
          \/ call'[c] = call[c] /\ (call[c].pc = "idle" \/ call[c].server # s)
          \/ call'[c] = IdleCall /\ call[c].server = s
    BY <1>1, <1>3 DEF Dies
  <2>2. /\ server'[s] = "gone"
        /\ \A t \in Servers \ {s} : server'[t] = server[t]
    BY <1>1, <1>3 DEF Dies
  <2>3. CallsOfTheLiving'
    BY <1>1, <2>1, <2>2 DEF FillInv, CallsOfTheLiving, At, IdleCall
  <2>4. CallsRemember' /\ RowsRun'
    <3> SUFFICES ASSUME NEW c \in Calls PROVE Remembers(c)' /\ RowsRun'
      BY CallsAssumption DEF CallsRemember
    <3> QED
      BY <1>1, <2>1, EndedRemembers
      DEF FillInv, CallsRemember, Remembers, RowsRun, At
  <2>5. FillersHaveBegun' /\ OneFiller'
    BY <1>1, <2>1 DEF FillInv, FillersHaveBegun, OneFiller, At, IdleCall
  <2>6. OnlyDeathStrands'
    BY <1>1, <2>1, <2>2 DEF faultVars, FillInv, OnlyDeathStrands, RowsRun, At
  <2> QED
    BY <2>3, <2>4, <2>5, <2>6 DEF FillInv
<1> QED
  BY <1>2, <1>3

LEMMA ProcessInv ==
  ASSUME FillTypeOK, FillInv,
         \/ \E s \in Servers : \/ ShutdownRelease(s) \/ Boot(s)
                              \/ SweepSelects(s) \/ SweepReleases(s)
         \/ StallRelease \/ Tick
  PROVE  FillInv'
<1>1. row \in Reviews /\ server \in [Servers -> {"unborn", "up", "stopping", "gone"}]
  BY DEF FillTypeOK
<1>2. runs' = runs /\ call' = call /\ unrecorded' = unrecorded
  BY DEF faultVars, ShutdownRelease, Boot, SweepSelects, SweepReleases, StallRelease, Tick
<1>3. \A s \in Servers : \/ server'[s] = server[s]
                         \/ server[s] = "unborn" /\ server'[s] = "up"
  BY <1>1 DEF ShutdownRelease, Boot, SweepSelects, SweepReleases, StallRelease, Tick
<1>4. CASE Tick
  <2>1. /\ row'.status = row.status /\ row'.run = row.run
        /\ row'.claim = row.claim /\ row'.owner = row.owner
    BY <1>1, <1>4 DEF Tick, Reviews
  <2> QED
    BY <1>2, <1>3, <2>1, RowStepInv
<1>5. CASE ~ Tick
  <2>1. row' = row \/ (row'.status = "needs_attention" /\ row'.run = 0)
    BY <1>1, <1>5, Released
    DEF ShutdownRelease, Boot, SweepSelects, SweepReleases, StallRelease
  <2> QED
    BY <1>2, <1>3, <2>1, RowStepInv
<1> QED
  BY <1>4, <1>5

LEMMA FillNextInv == FillTypeOK /\ FillInv /\ [FillNext]_fillVars => FillInv'
<1>1. FillInv /\ UNCHANGED fillVars => FillInv'
  BY DEF FillInv, CallsOfTheLiving, CallsRemember, Remembers, RowsRun, FillersHaveBegun,
         OneFiller, OnlyDeathStrands, At, fillVars
<1>2. ASSUME FillTypeOK, FillInv, NEW c \in Calls, CallStep(c) PROVE FillInv'
  BY <1>2, BeginStepInv, ClaimPreparationInv, PreparedInv, RereadInv, ThrowsInv,
     SendingInv
  DEF CallStep
<1> QED
  BY <1>1, <1>2, ProgressInv, FaultInv, TakenUpInv, ExitInv, ProcessInv DEF FillNext

\* The rows, calls, processes and registries of the fill runs keep their types.
THEOREM FillTypesCorrect == FillSpec => []FillTypeOK
BY FillInitTypes, FillNextTypes, PTL DEF FillSpec

LEMMA FillInvHolds == FillSpec => [](FillTypeOK /\ FillInv)
<1>1. FillInit => FillTypeOK /\ FillInv
  BY FillInitTypes, FillInitInv
<1>2. FillTypeOK /\ FillInv /\ [FillNext]_fillVars => FillTypeOK' /\ FillInv'
  BY FillNextTypes, FillNextInv
<1> QED
  BY <1>1, <1>2, PTL DEF FillSpec

\* However many calls, routes, cron sweeps and processes there are, at most one call fills
\* the form for the row's current run (claimPreparation's condition).
THEOREM OneCallFills == FillSpec => []OneFiller
<1>1. FillInv => OneFiller
  BY DEF FillInv
<1> QED
  BY <1>1, FillInvHolds, PTL

\* A packet in preparation whose process lives is being filled by a call of that process,
\* in the row's run, unless a failure of that run could not be written: every other way
\* out of a fill settles the row or puts it back in the queue.
THEOREM StrandedByDeathOnly == FillSpec => []OnlyDeathStrands
<1>1. FillInv => OnlyDeathStrands
  BY DEF FillInv
<1> QED
  BY <1>1, FillInvHolds, PTL

\* The run of the packet after a step: the same, none, or a new one.
RunMoves == row'.run # row.run => row'.run = 0 \/ row'.run > runs

LEMMA NextMovesRun == FillTypeOK /\ FillInv /\ [FillNext]_fillVars => [RunMoves]_fillVars
<1> SUFFICES ASSUME FillTypeOK, FillInv, FillNext PROVE RunMoves
  OBVIOUS
<1>1. row \in Reviews /\ runs \in Nat /\ \A c \in Calls : call[c].seen \in Reviews
  BY FillBoundsAssumption DEF FillTypeOK
<1>2. ASSUME NEW c \in Calls, NEW s \in Servers,
             SubmitRequest(c, s) \/ Approve(c, s) \/ CronSelects(c, s)
      PROVE  RunMoves
  <2>1. CASE SubmitRequest(c, s)
    BY <1>1, <2>1 DEF SubmitRequest, Write, Reviews, RunMoves
  <2>2. CASE Approve(c, s)
    BY <1>1, <2>2 DEF Approve, Write, Reviews, RunMoves
  <2>3. CASE CronSelects(c, s)
    BY <2>3 DEF CronSelects, RunMoves
  <2> QED
    BY <1>2, <2>1, <2>2, <2>3
<1>3. ASSUME NEW c \in Calls, ClaimPreparation(c) PROVE RunMoves
  BY <1>1, <1>3
  DEF ClaimPreparation, MayClaimPreparation, Unchanged, Write, Reviews, RunMoves
<1>4. ASSUME NEW c \in Calls, NEW status,
             WriteReview(c, [call[c].seen EXCEPT !.status = status])
      PROVE  RunMoves
  BY <1>1, <1>4 DEF WriteReview, OwnsRun, Write, Reviews, RunMoves
<1>5. ASSUME NEW c \in Calls, Progress(c) PROVE RunMoves
  BY <1>4, <1>5 DEF Progress
<1>6. ASSUME NEW c \in Calls, NEW status, Prepared(c, status) PROVE RunMoves
  BY <1>4, <1>6 DEF Prepared
<1>7. ASSUME NEW c \in Calls, NEW status, NEW keepsClaim \in BOOLEAN,
             Throws(c, status, keepsClaim) \/ Requeues(c) \/ FailureLost(c)
      PROVE  RunMoves
  BY <1>1, <1>7 DEF Throws, Requeues, FailureLost, Write, Reviews, RunMoves
<1>8. ASSUME NEW c \in Calls, NEW status,
             ClaimSubmission(c) \/ CallAborted(c) \/ Answered(c, status)
      PROVE  RunMoves
  BY <1>1, <1>8
  DEF ClaimSubmission, CallAborted, Answered, Settle, Write, Reviews, RunMoves
<1>9. ASSUME NEW c \in Calls,
             BeginStep(c) \/ RecoveryEnds(c) \/ Reread(c) \/ CallProvider(c)
      PROVE  RunMoves
  BY <1>9 DEF BeginStep, RecoveryEnds, Reread, CallProvider, RunMoves
<1>10. ASSUME NEW s \in Servers, \/ Sigterm(s) \/ ShutdownRelease(s) \/ Dies(s)
                                \/ Boot(s) \/ SweepSelects(s) \/ SweepReleases(s)
       PROVE  RunMoves
  BY <1>1, <1>10, Released
  DEF Sigterm, ShutdownRelease, Dies, Boot, SweepSelects, SweepReleases, RunMoves
<1>11. CASE StallRelease \/ Tick
  BY <1>1, <1>11, Released DEF StallRelease, Tick, Reviews, RunMoves
<1> QED
  BY <1>2, <1>3, <1>5, <1>6, <1>7, <1>8, <1>9, <1>10, <1>11 DEF FillNext, CallStep

\* A run that was released or replaced never comes back, whatever its calls still write.
THEOREM DisplacedRunsStayOut == FillSpec => DisplacedStaysOut
<1>1. FillTypeOK /\ FillInv /\ [FillNext]_fillVars =>
        [row'.run # row.run => row'.run = 0 \/ row'.run > runs]_fillVars
  BY NextMovesRun DEF RunMoves
<1> QED
  BY <1>1, FillInvHolds, PTL DEF FillSpec, DisplacedStaysOut

-----------------------------------------------------------------------------
(* The drain of the job boards *)

IsPoller(p) ==
  /\ p = [at |-> p.at, queue |-> p.queue, active |-> p.active, budget |-> p.budget,
          error |-> p.error, own |-> p.own, wait |-> p.wait]
  /\ IsFiniteSet(p.active) /\ p.own \subseteq Paced

PollTypes ==
  /\ poller = [s \in PollServers |-> poller[s]]
  /\ \A s \in PollServers : IsPoller(poller[s])
  /\ barrier \in [PollServers -> [Paced -> Nat]] /\ quiet \in [Paced -> Nat]

\* The server that drains holds the lock, and gives it up with no poll of its own left.
DrainsAlone ==
  \A s \in PollServers :
    /\ poller[s].at # "idle" => lockBy = s
    /\ poller[s].at \in {"idle", "cooling"} => poller[s].active = {}

\* A drain never runs two polls of the capped family.
CappedByDrain ==
  \A s \in PollServers : \A x, y \in OfFamily(poller[s].active, "crelate") : x = y

\* Who drains knows of every provider that must still be left alone, at least as long as
\* it must, and waits as long before it gives up the lock.
DrainKnows ==
  /\ ~ burst
  /\ \A f \in Paced : quiet[f] # 0 =>
       \E s \in PollServers : /\ lockBy = s /\ f \in poller[s].own
                             /\ quiet[f] <= barrier[s][f]
  /\ \A s \in PollServers :
       /\ poller[s].at = "idle" => poller[s].own = {}
       /\ poller[s].at = "cooling" =>
            /\ poller[s].wait \in Nat
            /\ \A f \in poller[s].own : barrier[s][f] <= poller[s].wait

PollInv == PollTypes /\ DrainsAlone /\ CappedByDrain /\ DrainKnows

LEMMA IdlePollerType == IsPoller(IdlePoller)
BY FS_EmptySet DEF IsPoller, IdlePoller

LEMMA PollInitInv == PollInit => PollInv
<1> SUFFICES ASSUME PollInit PROVE PollInv
  OBVIOUS
<1>1. /\ poller = [s \in PollServers |-> IdlePoller]
      /\ \A s \in PollServers : poller[s] = IdlePoller
      /\ barrier = [s \in PollServers |-> [f \in Paced |-> 0]]
      /\ quiet = [f \in Paced |-> 0] /\ burst = FALSE
  BY DEF PollInit
<1>2. PollTypes
  BY <1>1, IdlePollerType DEF PollTypes
<1>3. DrainsAlone /\ CappedByDrain
  BY <1>1 DEF DrainsAlone, CappedByDrain, IdlePoller, OfFamily
<1>4. DrainKnows
  BY <1>1 DEF DrainKnows, IdlePoller
<1> QED
  BY <1>2, <1>3, <1>4 DEF PollInv

\* The longest of a drain's own waits is one of them, or none.
LEMMA OwnCooldownBounds ==
  ASSUME PollTypes, NEW s \in PollServers
  PROVE  /\ OwnCooldown(s) \in Nat
         /\ \A f \in poller[s].own : barrier[s][f] <= OwnCooldown(s)
<1> DEFINE waits == {barrier[s][f] : f \in poller[s].own} \cup {0}
<1>1. poller[s].own \subseteq {"workable", "crelate"}
  BY DEF PollTypes, IsPoller, Paced
<1>2. barrier[s]["workable"] \in Nat /\ barrier[s]["crelate"] \in Nat
  BY DEF PollTypes, Paced
<1>3. \E m \in waits : \A n \in waits : m >= n
  <2>1. CASE poller[s].own = {}
    BY <2>1
  <2>2. CASE poller[s].own = {"workable"}
    BY <1>2, <2>2
  <2>3. CASE poller[s].own = {"crelate"}
    BY <1>2, <2>3
  <2>4. CASE poller[s].own = {"workable", "crelate"}
    BY <1>2, <2>4
  <2> QED
    BY <1>1, <2>1, <2>2, <2>3, <2>4
<1>4. \A n \in waits : Max(waits) >= n
  <2> HIDE DEF waits
  <2> QED
    BY <1>3 DEF Max
<1>5. waits \subseteq Nat
  BY <1>1, <1>2
<1>6. Max(waits) \in waits
  <2> HIDE DEF waits
  <2> QED
    BY <1>3 DEF Max
<1> QED
  BY <1>4, <1>5, <1>6 DEF OwnCooldown

\* One server's scheduler moves, starts nothing, and keeps what it knows.
SchedulerOnly(s) ==
  /\ poller' = [t \in PollServers |-> IF t = s THEN poller'[s] ELSE poller[t]]
  /\ IsPoller(poller'[s]) /\ lockBy' = lockBy
  /\ poller[s].at # "idle" /\ poller'[s].at # "idle"
  /\ poller'[s].active \subseteq poller[s].active /\ poller'[s].own = poller[s].own
  /\ poller'[s].at = "cooling" =>
       /\ poller'[s].active = {} /\ poller'[s].wait \in Nat
       /\ \A f \in poller[s].own : barrier[s][f] <= poller'[s].wait
  /\ UNCHANGED <<barrier, quiet, burst>>

LEMMA SchedulerOnlyInv ==
  ASSUME PollInv, NEW s \in PollServers, SchedulerOnly(s)
  PROVE  PollInv'
<1>1. \A t \in PollServers \ {s} : poller'[t] = poller[t]
  BY DEF SchedulerOnly
<1>2. PollTypes'
  BY <1>1 DEF PollInv, PollTypes, SchedulerOnly
<1>3. DrainsAlone'
  BY <1>1 DEF PollInv, DrainsAlone, SchedulerOnly
<1>4. CappedByDrain'
  BY <1>1 DEF PollInv, CappedByDrain, SchedulerOnly, OfFamily
<1>5. DrainKnows'
  BY <1>1 DEF PollInv, DrainKnows, SchedulerOnly
<1> QED
  BY <1>2, <1>3, <1>4, <1>5 DEF PollInv

MovedTo(p, a) == [p EXCEPT !.at = a]
MovedToWait(p, a, w) == [p EXCEPT !.at = a, !.wait = w]

LEMMA PollerMoves ==
  ASSUME NEW p, IsPoller(p), NEW a, NEW w
  PROVE  /\ IsPoller(MovedTo(p, a)) /\ IsPoller(MovedToWait(p, a, w))
         /\ MovedTo(p, a).at = a /\ MovedTo(p, a).active = p.active
         /\ MovedTo(p, a).own = p.own
         /\ MovedToWait(p, a, w).at = a /\ MovedToWait(p, a, w).wait = w
         /\ MovedToWait(p, a, w).active = p.active
         /\ MovedToWait(p, a, w).own = p.own
<1> DEFINE q == MovedTo(p, a)
           r == MovedToWait(p, a, w)
<1>1. q = [at |-> a, queue |-> p.queue, active |-> p.active, budget |-> p.budget,
           error |-> p.error, own |-> p.own, wait |-> p.wait]
  BY DEF IsPoller, MovedTo
<1>2. r = [at |-> a, queue |-> p.queue, active |-> p.active, budget |-> p.budget,
           error |-> p.error, own |-> p.own, wait |-> w]
  <2>1. r = [q EXCEPT !.wait = w]
    BY DEF MovedToWait, MovedTo
  <2> HIDE DEF q, r
  <2> QED
    BY <1>1, <2>1
<1>3. IsFiniteSet(p.active) /\ p.own \subseteq Paced
  BY DEF IsPoller
<1> HIDE DEF q, r
<1>4. IsPoller(q) /\ q.at = a /\ q.active = p.active /\ q.own = p.own
  BY <1>1, <1>3 DEF IsPoller
<1>5. IsPoller(r) /\ r.at = a /\ r.wait = w /\ r.active = p.active /\ r.own = p.own
  BY <1>2, <1>3 DEF IsPoller
<1> QED
  BY <1>4, <1>5 DEF q, r

LEMMA AwaitInv ==
  ASSUME PollInv, NEW s \in PollServers, Await(s) \/ WakeUp(s) \/ SettlePolls(s)
  PROVE  PollInv'
<1>1. IsPoller(poller[s]) /\ poller = [t \in PollServers |-> poller[t]]
  BY DEF PollInv, PollTypes
<1>2. \A a, w : /\ IsPoller(MovedTo(poller[s], a))
               /\ IsPoller(MovedToWait(poller[s], a, w))
  BY <1>1, PollerMoves
<1>4. \A p : [poller EXCEPT ![s] = p] =
              [t \in PollServers |-> IF t = s THEN p ELSE poller[t]]
  BY <1>1
<1>5. CASE Await(s)
  <2>1. \E a \in {"settling", "racing", "sleeping"} :
          \/ poller' = [poller EXCEPT ![s] = MovedTo(poller[s], a)]
          \/ \E w : poller' = [poller EXCEPT ![s] = MovedToWait(poller[s], a, w)]
    BY <1>5 DEF Await, MovedTo, MovedToWait
  <2>2. SchedulerOnly(s)
    <3>1. PICK a \in {"settling", "racing", "sleeping"} :
            \/ poller' = [poller EXCEPT ![s] = MovedTo(poller[s], a)]
            \/ \E w : poller' = [poller EXCEPT ![s] = MovedToWait(poller[s], a, w)]
      BY <2>1
    <3>2. /\ \/ poller'[s] = MovedTo(poller[s], a)
             \/ \E w : poller'[s] = MovedToWait(poller[s], a, w)
          /\ poller' = [t \in PollServers |-> IF t = s THEN poller'[s] ELSE poller[t]]
      BY <1>4, <3>1
    <3>3. /\ IsPoller(poller'[s]) /\ poller'[s].at = a
          /\ poller'[s].active = poller[s].active /\ poller'[s].own = poller[s].own
      BY <1>1, <3>2, PollerMoves
    <3>4. poller[s].at = "awake" /\ UNCHANGED <<lockBy, barrier, quiet, burst>>
      BY <1>5 DEF Await
    <3> QED
      BY <3>2, <3>3, <3>4 DEF SchedulerOnly
  <2> QED
    BY <2>2, SchedulerOnlyInv
<1>6. CASE WakeUp(s)
  <2>1. poller' = [poller EXCEPT ![s] = MovedTo(poller[s], "awake")]
    BY <1>1, <1>6 DEF WakeUp, MovedTo
  <2>2. SchedulerOnly(s)
    BY <1>1, <1>2, <1>4, <1>6, <2>1, PollerMoves DEF SchedulerOnly, WakeUp
  <2> QED
    BY <2>2, SchedulerOnlyInv
<1>7. CASE SettlePolls(s)
  <2>1. poller' =
          [poller EXCEPT ![s] = MovedToWait(poller[s], "cooling", OwnCooldown(s))]
    BY <1>1, <1>7 DEF SettlePolls, MovedToWait
  <2>2. /\ OwnCooldown(s) \in Nat
        /\ \A f \in poller[s].own : barrier[s][f] <= OwnCooldown(s)
    BY OwnCooldownBounds DEF PollInv
  <2>3. SchedulerOnly(s)
    BY <1>1, <1>2, <1>4, <1>7, <2>1, <2>2, PollerMoves
    DEF SchedulerOnly, SettlePolls, PollsSettled
  <2> QED
    BY <2>3, SchedulerOnlyInv
<1> QED
  BY <1>5, <1>6, <1>7

\* A poll that ends leaves the set of active ones; its drain is not cooling down.
LEMMA PollGoneInv ==
  ASSUME PollInv, NEW s \in PollServers, NEW x \in Sources,
         \/ \E stored \in BOOLEAN : PollEnds(s, x, stored)
         \/ WindowEnds(s, x) \/ PollFails(s, x) \/ PollThrows(s, x)
  PROVE  PollInv'
<1>1. PICK failed \in BOOLEAN : x \in poller[s].active /\ Leaves(s, x, failed)
  BY DEF PollEnds, WindowEnds, PollFails, PollThrows
<1>2. UNCHANGED <<lockBy, barrier, quiet, burst>>
  BY DEF PollEnds, WindowEnds, PollFails, PollThrows
<1>3. IsPoller(poller[s]) /\ poller = [t \in PollServers |-> poller[t]]
  BY DEF PollInv, PollTypes
<1>4. poller[s].at \notin {"idle", "cooling"}
  BY <1>1 DEF PollInv, DrainsAlone
<1>5. /\ poller' = [t \in PollServers |-> IF t = s THEN poller'[s] ELSE poller[t]]
      /\ poller'[s] = [poller[s] EXCEPT
           !.active = @ \ {x}, !.error = @ \/ failed,
           !.at = IF @ = "racing" THEN "awake" ELSE @]
  BY <1>1, <1>3 DEF Leaves
<1>6. IsFiniteSet(poller[s].active \ {x})
  BY <1>3, FS_RemoveElement DEF IsPoller
<1>7. /\ IsPoller(poller'[s]) /\ poller'[s].active = poller[s].active \ {x}
      /\ poller'[s].own = poller[s].own
      /\ poller'[s].at \in {"awake", poller[s].at}
  BY <1>3, <1>5, <1>6 DEF IsPoller
<1>8. SchedulerOnly(s)
  BY <1>2, <1>4, <1>5, <1>7 DEF SchedulerOnly
<1> QED
  BY <1>8, SchedulerOnlyInv

\* What starting a source's poll makes of the scheduler.
LEMMA FirstTaken ==
  ASSUME PollInv, NEW s \in PollServers, NEW sources, NEW family \in SUBSET Paced,
         poller[s].at # "idle", poller[s].at # "cooling", TakeFirst(s, sources, family)
  PROVE  \E x \in sources :
           /\ poller' = [t \in PollServers |-> IF t = s THEN poller'[s] ELSE poller[t]]
           /\ IsPoller(poller'[s]) /\ poller'[s].at = poller[s].at
           /\ poller'[s].active = poller[s].active \cup {x}
           /\ poller'[s].own = poller[s].own \cup family
<1>1. PICK x \in sources :
        poller' = [poller EXCEPT ![s].queue = @ \ {x}, ![s].active = @ \cup {x},
                                 ![s].own = @ \cup family]
  BY DEF TakeFirst
<1>2. IsPoller(poller[s]) /\ poller = [t \in PollServers |-> poller[t]]
  BY DEF PollInv, PollTypes
<1>3. /\ poller' = [t \in PollServers |-> IF t = s THEN poller'[s] ELSE poller[t]]
      /\ poller'[s] = [poller[s] EXCEPT !.queue = @ \ {x}, !.active = @ \cup {x},
                                        !.own = @ \cup family]
  BY <1>1, <1>2
<1>4. poller'[s] = [at |-> poller[s].at, queue |-> poller[s].queue \ {x},
                    active |-> poller[s].active \cup {x},
                    budget |-> poller[s].budget, error |-> poller[s].error,
                    own |-> poller[s].own \cup family, wait |-> poller[s].wait]
  BY <1>2, <1>3 DEF IsPoller
<1>5. /\ IsFiniteSet(poller[s].active \cup {x})
      /\ poller[s].own \cup family \subseteq Paced
  BY <1>2, FS_AddElement DEF IsPoller
<1>6. /\ poller'[s].at = poller[s].at
      /\ poller'[s].active = poller[s].active \cup {x}
      /\ poller'[s].own = poller[s].own \cup family
      /\ IsPoller(poller'[s])
  <2> DEFINE q == poller'[s]
  <2>1. q = [at |-> poller[s].at, queue |-> poller[s].queue \ {x},
             active |-> poller[s].active \cup {x},
             budget |-> poller[s].budget, error |-> poller[s].error,
             own |-> poller[s].own \cup family, wait |-> poller[s].wait]
    BY <1>4
  <2> HIDE DEF q
  <2>2. /\ q.at = poller[s].at /\ q.active = poller[s].active \cup {x}
        /\ q.own = poller[s].own \cup family
        /\ q = [at |-> q.at, queue |-> q.queue, active |-> q.active, budget |-> q.budget,
                error |-> q.error, own |-> q.own, wait |-> q.wait]
    BY <2>1
  <2> QED
    BY <1>5, <2>2 DEF IsPoller, q
<1> QED
  BY <1>3, <1>6

\* A paced family's poll starts only when its provider need not be left alone, and the
\* capped family's only when it has none.
LEMMA StartPacedInv ==
  ASSUME PollInv, NEW s \in PollServers, NEW f \in Paced, StartPaced(s, f)
  PROVE  PollInv'
<1>1. /\ poller[s].at = "awake" /\ f \in StartableFamilies(s) /\ lockBy = s
      /\ barrier' = [barrier EXCEPT ![s][f] = StartInterval]
      /\ burst' = (burst \/ quiet[f] > 0)
      /\ quiet' = [quiet EXCEPT ![f] = StartInterval] /\ lockBy' = lockBy
  BY DEF StartPaced, MayStart, PollInv, DrainsAlone
<1>2. PICK x \in OfFamily(poller[s].queue, f) :
        /\ poller' = [t \in PollServers |-> IF t = s THEN poller'[s] ELSE poller[t]]
        /\ IsPoller(poller'[s]) /\ poller'[s].at = poller[s].at
        /\ poller'[s].active = poller[s].active \cup {x}
        /\ poller'[s].own = poller[s].own \cup {f}
  <2>1. TakeFirst(s, OfFamily(poller[s].queue, f), {f}) /\ {f} \in SUBSET Paced
    BY DEF StartPaced
  <2> QED
    BY <1>1, <2>1, FirstTaken
<1>3. /\ StartInterval \in Nat /\ barrier \in [PollServers -> [Paced -> Nat]]
      /\ quiet \in [Paced -> Nat] /\ barrier[s][f] = 0
  BY <1>1, PollingAssumption DEF PollInv, PollTypes, StartableFamilies
<1>4. \A t \in PollServers \ {s} : poller'[t] = poller[t]
  BY <1>2
<1>5. PollTypes'
  BY <1>1, <1>2, <1>3, <1>4 DEF PollInv, PollTypes
<1>6. DrainsAlone'
  BY <1>1, <1>2, <1>4 DEF PollInv, DrainsAlone
<1>7. CappedByDrain'
  <2>1. FamilyOf[x] = f
    BY <1>2 DEF OfFamily
  <2>2. CASE f = "crelate"
    <3>1. IsFiniteSet(OfFamily(poller[s].active, f))
      BY FS_Subset DEF PollInv, PollTypes, IsPoller, OfFamily
    <3>2. Cardinality(OfFamily(poller[s].active, f)) < 1
      BY <1>1, <2>2 DEF StartableFamilies, MaxInFlight
    <3>3. OfFamily(poller[s].active, f) = {}
      BY <3>1, <3>2, FS_EmptySet, FS_CardinalityType
    <3> QED
      BY <1>2, <1>4, <2>2, <3>3 DEF PollInv, CappedByDrain, OfFamily
  <2>3. CASE f # "crelate"
    BY <1>2, <1>4, <2>1, <2>3 DEF PollInv, CappedByDrain, OfFamily
  <2> QED
    BY <2>2, <2>3
<1>8. DrainKnows'
  <2>1. quiet[f] = 0 /\ ~ burst'
    <3>1. quiet[f] # 0 => quiet[f] <= barrier[s][f]
      BY <1>1 DEF PollInv, DrainKnows
    <3>2. quiet[f] = 0
      BY <1>3, <3>1
    <3>3. ~ burst
      BY DEF PollInv, DrainKnows
    <3>4. ~ (quiet[f] > 0)
      BY <3>2
    <3>5. ~ burst'
      BY <1>1, <3>3, <3>4, Zenon
    <3> QED
      BY <3>2, <3>5
  <2>2. \A g \in Paced : quiet'[g] # 0 =>
          /\ g \in poller'[s].own /\ quiet'[g] <= barrier'[s][g]
    <3>1. \A g \in Paced \ {f} :
            quiet'[g] = quiet[g] /\ barrier'[s][g] = barrier[s][g]
      BY <1>1, <1>3
    <3>2. quiet'[f] = StartInterval /\ barrier'[s][f] = StartInterval
      BY <1>1, <1>3
    <3>3. \A g \in Paced : quiet[g] # 0 =>
            g \in poller[s].own /\ quiet[g] <= barrier[s][g]
      BY <1>1 DEF PollInv, DrainKnows
    <3> QED
      BY <1>2, <1>3, <3>1, <3>2, <3>3
  <2>3. \A t \in PollServers \ {s} : barrier'[t] = barrier[t]
    BY <1>1, <1>3
  <2> QED
    BY <1>1, <1>2, <1>4, <2>1, <2>2, <2>3 DEF PollInv, DrainKnows
<1> QED
  BY <1>5, <1>6, <1>7, <1>8 DEF PollInv

LEMMA StartOrdinaryInv ==
  ASSUME PollInv, NEW s \in PollServers, StartOrdinary(s)
  PROVE  PollInv'
<1>1. /\ poller[s].at = "awake" /\ lockBy = s
      /\ UNCHANGED <<lockBy, barrier, quiet, burst>>
  BY DEF StartOrdinary, MayStart, PollInv, DrainsAlone
<1>2. PICK x \in OfFamily(poller[s].queue, "ordinary") :
        /\ poller' = [t \in PollServers |-> IF t = s THEN poller'[s] ELSE poller[t]]
        /\ IsPoller(poller'[s]) /\ poller'[s].at = poller[s].at
        /\ poller'[s].active = poller[s].active \cup {x}
        /\ poller'[s].own = poller[s].own \cup {}
  <2>1. TakeFirst(s, OfFamily(poller[s].queue, "ordinary"), {}) /\ {} \in SUBSET Paced
    BY DEF StartOrdinary
  <2> QED
    BY <1>1, <2>1, FirstTaken
<1>3. \A t \in PollServers \ {s} : poller'[t] = poller[t]
  BY <1>2
<1>4. PollTypes'
  BY <1>1, <1>2, <1>3 DEF PollInv, PollTypes
<1>5. DrainsAlone'
  BY <1>1, <1>2, <1>3 DEF PollInv, DrainsAlone
<1>6. CappedByDrain'
  <2>1. FamilyOf[x] # "crelate"
    BY <1>2 DEF OfFamily
  <2> QED
    BY <1>2, <1>3, <2>1 DEF PollInv, CappedByDrain, OfFamily
<1>7. DrainKnows'
  BY <1>1, <1>2, <1>3 DEF PollInv, DrainKnows
<1> QED
  BY <1>4, <1>5, <1>6, <1>7 DEF PollInv

\* The scheduler of a drain that begins.
LEMMA DrainingPoller ==
  ASSUME NEW queue, NEW budget
  PROVE  LET p == [IdlePoller EXCEPT !.at = "awake", !.queue = queue, !.budget = budget]
         IN IsPoller(p) /\ p.active = {} /\ p.own = {} /\ p.at = "awake"
<1> SUFFICES ASSUME NEW i, IsPoller(i), i.active = {}, i.own = {}
             PROVE  LET p == [i EXCEPT !.at = "awake", !.queue = queue,
                                       !.budget = budget]
                    IN IsPoller(p) /\ p.active = {} /\ p.own = {} /\ p.at = "awake"
  BY IdlePollerType DEF IdlePoller
<1> DEFINE awake == [i EXCEPT !.at = "awake"]
           queued == [awake EXCEPT !.queue = queue]
           p == [queued EXCEPT !.budget = budget]
<1>1. awake = [at |-> "awake", queue |-> i.queue, active |-> i.active,
               budget |-> i.budget, error |-> i.error, own |-> i.own, wait |-> i.wait]
  BY DEF IsPoller
<1> HIDE DEF awake
<1>2. queued = [at |-> "awake", queue |-> queue, active |-> i.active,
                budget |-> i.budget, error |-> i.error, own |-> i.own, wait |-> i.wait]
  BY <1>1
<1> HIDE DEF queued
<1>3. p = [at |-> "awake", queue |-> queue, active |-> i.active, budget |-> budget,
           error |-> i.error, own |-> i.own, wait |-> i.wait]
  BY <1>2
<1> HIDE DEF p
<1>4. IsPoller(p) /\ p.active = {} /\ p.own = {} /\ p.at = "awake"
  BY <1>3, FS_EmptySet DEF IsPoller
<1> QED
  BY <1>4 DEF p, queued, awake

\* The lock is taken while no provider must be left alone, and given up, or lost with its
\* process, when none must any more.
LEMMA LockInv ==
  ASSUME PollInv, NEW s \in PollServers, StartDrain(s) \/ ReleaseLock(s) \/ ServerDies(s)
  PROVE  PollInv'
<1> USE DEF PollInv
<1>1. poller = [t \in PollServers |-> poller[t]] /\ IsPoller(poller[s])
  BY DEF PollTypes
<1>2. ASSUME NEW p, poller' = [poller EXCEPT ![s] = p], IsPoller(p),
             p.active = {}, p.own = {}, UNCHANGED burst,
             barrier' \in [PollServers -> [Paced -> Nat]], quiet' \in [Paced -> Nat],
             \A t \in PollServers \ {s} : poller[t].at = "idle",
             p.at \notin {"idle", "cooling"} => lockBy' = s, p.at # "cooling",
             \A f \in Paced : quiet'[f] = 0
      PROVE  PollInv'
  <2>1. poller'[s] = p /\ \A t \in PollServers \ {s} : poller'[t] = poller[t]
    BY <1>1, <1>2
  <2>2. PollTypes'
    BY <1>1, <1>2, <2>1 DEF PollTypes
  <2>3. DrainsAlone' /\ CappedByDrain'
    BY <1>2, <2>1 DEF DrainsAlone, CappedByDrain, OfFamily
  <2>4. DrainKnows'
    BY <1>2, <2>1 DEF DrainKnows
  <2> QED
    BY <2>2, <2>3, <2>4
<1>3. CASE StartDrain(s)
  <2> DEFINE p == [IdlePoller EXCEPT !.at = "awake", !.queue = OldestSources,
                                     !.budget = PollBudget]
  <2>2. poller' = [poller EXCEPT ![s] = p] /\ UNCHANGED <<barrier, quiet, burst>>
    BY <1>3 DEF StartDrain
  <2>3. IsPoller(p) /\ p.active = {} /\ p.own = {} /\ p.at = "awake"
    BY DrainingPoller
  <2> HIDE DEF p
  <2>4. lockBy = NoServer /\ lockBy' = s /\ \A t \in PollServers : t # NoServer
    BY <1>3, PollingAssumption DEF StartDrain
  <2>5. \A t \in PollServers \ {s} : poller[t].at = "idle"
    BY <2>4 DEF DrainsAlone
  <2>6. \A f \in Paced : quiet[f] = 0
    BY <2>4 DEF DrainKnows
  <2>7. barrier \in [PollServers -> [Paced -> Nat]] /\ quiet \in [Paced -> Nat]
    BY DEF PollTypes
  <2> QED
    BY <1>2, <2>2, <2>3, <2>4, <2>5, <2>6, <2>7
<1>4. CASE ReleaseLock(s)
  <2>1. poller[s].at = "cooling" /\ poller[s].wait = 0 /\ poller[s].active = {}
        /\ lockBy = s /\ UNCHANGED <<barrier, quiet, burst>>
    BY <1>4 DEF ReleaseLock, DrainsAlone
  <2>2. poller' = [poller EXCEPT ![s] = IdlePoller]
    <3>1. [IdlePoller EXCEPT !.active = {}] = IdlePoller
      BY DEF IdlePoller
    <3> QED
      BY <1>4, <2>1, <3>1 DEF ReleaseLock
  <2>3. barrier \in [PollServers -> [Paced -> Nat]] /\ quiet \in [Paced -> Nat]
    BY DEF PollTypes
  <2>4. \A f \in Paced : quiet[f] = 0
    BY <2>1, <2>3 DEF DrainKnows
  <2>5. \A t \in PollServers \ {s} : poller[t].at = "idle"
    BY <2>1 DEF DrainsAlone
  <2>6. IdlePoller.active = {} /\ IdlePoller.own = {} /\ IdlePoller.at = "idle"
    BY DEF IdlePoller
  <2> QED
    BY <1>2, <2>1, <2>2, <2>3, <2>4, <2>5, <2>6, IdlePollerType
<1>5. CASE ServerDies(s)
  <2>1. /\ lockBy = s /\ poller' = [poller EXCEPT ![s] = IdlePoller] /\ UNCHANGED burst
        /\ barrier' = [barrier EXCEPT ![s] = [f \in Paced |-> 0]]
        /\ quiet' = [f \in Paced |-> 0]
    BY <1>5 DEF ServerDies
  <2>2. barrier' \in [PollServers -> [Paced -> Nat]] /\ quiet' \in [Paced -> Nat]
    BY <2>1 DEF PollTypes
  <2>3. \A t \in PollServers \ {s} : poller[t].at = "idle"
    BY <2>1 DEF DrainsAlone
  <2>4. IdlePoller.active = {} /\ IdlePoller.own = {} /\ IdlePoller.at = "idle"
    BY DEF IdlePoller
  <2>5. \A f \in Paced : quiet'[f] = 0
    BY <2>1
  <2> QED
    BY <1>2, <2>1, <2>2, <2>3, <2>4, <2>5, IdlePollerType
<1> QED
  BY <1>3, <1>4, <1>5

\* Every wait shortens at the same pace.
LEMMA PollTickInv ==
  ASSUME PollInv, PollTick
  PROVE  PollInv'
<1> USE DEF PollInv
<1>1. \A m, n \in Nat : m <= n => Less(m) <= Less(n)
  BY DEF Less
<1>2. \A n \in Nat : Less(n) \in Nat
  BY DEF Less
<1>3. /\ barrier \in [PollServers -> [Paced -> Nat]] /\ quiet \in [Paced -> Nat]
      /\ barrier' = [s \in PollServers |-> [f \in Paced |-> Less(barrier[s][f])]]
      /\ quiet' = [f \in Paced |-> Less(quiet[f])]
      /\ UNCHANGED <<lockBy, burst>>
  BY DEF PollTypes, PollTick
<1>4. /\ \A s \in PollServers, f \in Paced :
           barrier[s][f] \in Nat /\ barrier'[s][f] = Less(barrier[s][f])
      /\ \A f \in Paced : quiet[f] \in Nat /\ quiet'[f] = Less(quiet[f])
  BY <1>3
<1>5. \A s \in PollServers :
        /\ IsPoller(poller'[s]) /\ poller'[s].at = poller[s].at
        /\ poller'[s].active = poller[s].active /\ poller'[s].own = poller[s].own
        /\ poller'[s].wait = Less(poller[s].wait)
  <2> SUFFICES ASSUME NEW s \in PollServers
               PROVE  /\ IsPoller(poller'[s]) /\ poller'[s].at = poller[s].at
                      /\ poller'[s].active = poller[s].active
                      /\ poller'[s].own = poller[s].own
                      /\ poller'[s].wait = Less(poller[s].wait)
    OBVIOUS
  <2> DEFINE p == poller[s]
             q == [p EXCEPT !.budget = Less(@), !.wait = Less(@)]
  <2>1. IsPoller(p) /\ poller'[s] = q
    BY DEF PollTypes, PollTick
  <2>2. q = [at |-> p.at, queue |-> p.queue, active |-> p.active,
             budget |-> Less(p.budget), error |-> p.error, own |-> p.own,
             wait |-> Less(p.wait)]
    <3> HIDE DEF p
    <3> QED
      BY <2>1 DEF IsPoller
  <2> HIDE DEF q
  <2>3. /\ q.at = p.at /\ q.active = p.active /\ q.own = p.own /\ q.wait = Less(p.wait)
        /\ q = [at |-> q.at, queue |-> q.queue, active |-> q.active, budget |-> q.budget,
                error |-> q.error, own |-> q.own, wait |-> q.wait]
    BY <2>2
  <2>4. IsPoller(q)
    BY <2>1, <2>3 DEF IsPoller
  <2> QED
    BY <2>1, <2>3, <2>4
<1>6. PollTypes'
  <2>1. poller' = [s \in PollServers |-> poller'[s]]
    BY DEF PollTick
  <2> QED
    BY <1>2, <1>3, <1>5, <2>1 DEF PollTypes
<1>7. DrainsAlone' /\ CappedByDrain'
  <2>1. DrainsAlone'
    BY <1>3, <1>5 DEF DrainsAlone
  <2>2. CappedByDrain'
    BY <1>3, <1>5 DEF CappedByDrain, OfFamily
  <2> QED
    BY <2>1, <2>2
<1>8. DrainKnows'
  <2>1. \A f \in Paced : quiet'[f] # 0 =>
          \E s \in PollServers : /\ lockBy = s /\ f \in poller[s].own
                                /\ quiet'[f] <= barrier'[s][f]
    <3> SUFFICES ASSUME NEW f \in Paced, quiet'[f] # 0
                 PROVE  \E s \in PollServers : /\ lockBy = s /\ f \in poller[s].own
                                              /\ quiet'[f] <= barrier'[s][f]
      OBVIOUS
    <3>1. quiet[f] # 0
      BY <1>4 DEF Less
    <3>2. PICK s \in PollServers : /\ lockBy = s /\ f \in poller[s].own
                                  /\ quiet[f] <= barrier[s][f]
      BY <3>1 DEF DrainKnows
    <3> QED
      BY <1>1, <1>4, <3>2
  <2>2. ASSUME NEW s \in PollServers, poller[s].at = "cooling",
               NEW f \in poller[s].own
        PROVE  barrier'[s][f] <= Less(poller[s].wait)
    <3>1. f \in Paced /\ barrier[s][f] <= poller[s].wait /\ poller[s].wait \in Nat
      BY <2>2 DEF DrainKnows, PollTypes, IsPoller
    <3> QED
      BY <1>1, <1>4, <3>1
  <2>3. ~ burst' /\ lockBy' = lockBy
    BY <1>3 DEF DrainKnows
  <2>4. ASSUME NEW s \in PollServers
        PROVE  /\ poller'[s].at = "idle" => poller'[s].own = {}
               /\ poller'[s].at = "cooling" =>
                    /\ poller'[s].wait \in Nat
                    /\ \A f \in poller'[s].own : barrier'[s][f] <= poller'[s].wait
    BY <1>2, <1>5, <2>2, <2>4 DEF DrainKnows
  <2> QED
    BY <1>5, <2>1, <2>3, <2>4 DEF DrainKnows
<1> QED
  BY <1>6, <1>7, <1>8

LEMMA PollInvHolds == PollSpec => []PollInv
<1>1. PollInv /\ [PollNext]_pollVars => PollInv'
  <2> SUFFICES ASSUME PollInv, [PollNext]_pollVars PROVE PollInv'
    OBVIOUS
  <2>1. CASE UNCHANGED pollVars
    BY <2>1
    DEF PollInv, PollTypes, DrainsAlone, CappedByDrain, DrainKnows, OfFamily, pollVars
  <2>2. ASSUME NEW s \in PollServers, SchedulerStep(s) PROVE PollInv'
    BY <2>2, StartPacedInv, StartOrdinaryInv, AwaitInv, LockInv DEF SchedulerStep
  <2>3. CASE PollNext
    BY <2>2, <2>3, LockInv, PollGoneInv, PollTickInv DEF PollNext
  <2> QED
    BY <2>1, <2>3
<1> QED
  BY <1>1, PollInitInv, PTL DEF PollSpec

\* Over any number of servers and sources: two polls of a paced family never start less
\* than its interval apart, as long as the drain before lived to release the lock.
THEOREM ProvidersAreSpaced == PollSpec => []ProviderSpacing
<1>1. PollInv => ProviderSpacing
  BY DEF PollInv, DrainKnows, ProviderSpacing
<1> QED
  BY <1>1, PollInvHolds, PTL

\* One poll of the capped family runs at a time over all servers, whichever of their polls
\* failed: the lock is given up only when a drain's polls have all ended.
THEOREM CappedPollIsAlone == PollSpec => []OneCappedPoll
<1>1. ASSUME PollInv PROVE OneCappedPoll
  <2> DEFINE running ==
        UNION {OfFamily(poller[s].active, "crelate") : s \in PollServers}
  <2>1. \A s, t \in PollServers :
          poller[s].active # {} /\ poller[t].active # {} => s = t
    BY <1>1 DEF PollInv, DrainsAlone
  <2>2. \A x, y \in running : x = y
    BY <1>1, <2>1 DEF PollInv, CappedByDrain, OfFamily
  <2>3. running = {} \/ \E x : running = {x}
    <3> HIDE DEF running
    <3> QED
      BY <2>2
  <2>4. Cardinality(running) = 0 \/ Cardinality(running) = 1
    <3> HIDE DEF running
    <3> QED
      BY <2>3, FS_EmptySet, FS_Singleton
  <2> QED
    BY <2>4 DEF OneCappedPoll
<1> QED
  BY <1>1, PollInvHolds, PTL
=============================================================================
