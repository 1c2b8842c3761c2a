---------------------------- MODULE AttemptLedger ----------------------------
(***************************************************************************)
(* The store behind the fold: how the facts of one managed attempt come to *)
(* be committed (appendSubmissionAttemptEvent and the transactions that    *)
(* call it, src/src/lib/submissionAttemptLedger.ts).  Module Submission    *)
(* takes a fact to be written at once, in commit order.  Here a writer's   *)
(* transaction begins, waits for the user's advisory lock, and commits;    *)
(* a fact's created_at is when its transaction BEGAN, so the order the     *)
(* fold reads is not the order of commits.  A fact has a key, and the same *)
(* key under other evidence is refused.                                    *)
(***************************************************************************)
EXTENDS RetrySafety, FiniteSets

CONSTANTS
  BoundaryTTL,   \* SUBMISSION_BOUNDARY_AUTHORIZATION_TTL_MS, in ticks
  CloseAge,      \* STALLED_FILL_RUN_RELEASE_MS, in ticks
  MaxLedgerTime, \* bound: the clock after which no new transaction but a recovery's begins
  RecoveryTime,  \* bound: the clock kept beyond that for a recovery's transactions
  MaxSenderDeaths \* bound: deaths of the process at work on the attempt

ASSUME LedgerBoundsAssumption ==
  /\ BoundaryTTL \in Nat \ {0} /\ CloseAge \in Nat
  /\ MaxLedgerTime \in Nat /\ RecoveryTime \in Nat /\ MaxSenderDeaths \in Nat

VARIABLES
  facts,     \* the attempt's committed facts
  dbClock,   \* the database's clock
  began,     \* writer -> its open transaction's now(), or 0
  sender,    \* the process that sends: "ready", "opened", "waiting" or "gone"
  managedRun,  \* the managed run: its state and whether it pressed
  packet,    \* the packet's row: "new", "in_flight", "parked", "released", "answered"
  inHand,    \* a process holds the completed result and its press is recorded
  answered,  \* history: a "not there" committed on a row that held the claim
  latePress, \* history: a press was committed after it
  senderDeaths

ledgerVars == <<facts, dbClock, began, sender, managedRun, packet, inHand, answered,
                latePress, senderDeaths>>

\* open: claimSubmission; authorize: authorizeFinalSubmissionBoundary; progress and echo:
\* appendRunnerAttemptFact in submit and in recoverManagedSubmissionTerminalResult; confirm:
\* commitVerifiedSubmissionConfirmed; refuse: recordManagedAuthorizedAttemptRefused; stop:
\* writeReviewWithRunnerNotSentFact; close: closeAbandonedPreBoundaryAttempts; look and
\* packet_look: the two "not there" arms of POST /applications/:id/submission/unverified.
Writers == {"open", "authorize", "progress", "echo", "confirm", "refuse", "stop",
            "close", "look", "packet_look"}

\* What each writer appends: the fact, its event key, its evidence.
Entry(w) ==
  CASE w = "open"        -> [fact |-> Opened,     key |-> "open",  code |-> w]
    [] w = "authorize"   -> [fact |-> Authorized, key |-> "final-boundary", code |-> w]
    [] w = "progress"    -> [fact |-> Pressed,    key |-> "managed-initial-submit", code |-> w]
    [] w = "echo"        -> [fact |-> Pressed,    key |-> "managed-initial-submit", code |-> w]
    [] w = "confirm"     -> [fact |-> Confirmed,  key |-> "confirm", code |-> w]
    [] w = "refuse"      -> [fact |-> NotSent("employer_rejected_not_filed"),
                             key |-> "employer-refused-submit", code |-> w]
    [] w = "stop"        -> [fact |-> NotSent("typed_pre_click_stop"),
                             key |-> "pre-click", code |-> w]
    [] w = "repair"      -> [fact |-> NotSent("typed_pre_click_stop"),
                             key |-> "never-reached-employer", code |-> w]
    [] w = "close"       -> [fact |-> NotSent("typed_pre_click_stop"),
                             key |-> "abandoned-pre-boundary-attempt", code |-> w]
    [] w \in {"look", "packet_look"} ->
                            [fact |-> NotSent("applicant_checked_not_sent"),
                             key |-> "applicant-checked-not-sent", code |-> w]

\* order by created_at; two facts never share one.
InOrder(stored) ==
  [i \in 1..Cardinality(stored) |->
     (CHOOSE s \in stored : Cardinality({t \in stored : t.at < s.at}) = i - 1).entry.fact]

Fold(stored) == RetrySafety(InOrder(stored))
Now == Fold(facts)
Events == InOrder(facts)

Claimed == packet \in {"in_flight", "parked"}

AuthorizedAt == {s.at : s \in {t \in facts : t.entry.fact = Authorized}}
BoundaryActive == \E at \in AuthorizedAt : at + BoundaryTTL > dbClock
\* The retained result is complete, shows the press, and what the employer made of it.
Completed == managedRun.run \in {"filed", "refused"}
PressKept(code) == \E s \in facts : s.entry.fact = Pressed /\ s.entry.code = code

LedgerInit ==
  /\ facts = {} /\ dbClock = 0 /\ began = [w \in Writers |-> 0]
  /\ sender = "ready" /\ managedRun = [run |-> "none", pressed |-> FALSE]
  /\ packet = "new" /\ inHand = FALSE
  /\ answered = FALSE /\ latePress = FALSE /\ senderDeaths = 0

-----------------------------------------------------------------------------
(* When a writer begins *)

\* Read before the transaction, and possibly stale when it commits.  A recovery whose
\* press is already kept under other evidence throws as before, and is left out.
MayBegin(w) ==
  CASE w = "open"      -> sender = "ready"
    [] w = "authorize" -> sender = "opened"
    [] w = "stop"      -> sender \in {"opened", "waiting"}
    [] w = "progress"  -> sender = "waiting" /\ managedRun.pressed
    [] w = "echo"      -> /\ Claimed /\ Completed
                          /\ ~ inHand /\ ~ PressKept("progress")
                          /\ Now # "blocked_confirmed"
    [] w = "confirm"   -> inHand /\ managedRun.run = "filed"
    [] w = "refuse"    -> inHand /\ managedRun.run = "refused"
    [] w = "close"     -> packet = "released" /\ Now = "opened"
    [] w = "look"      -> packet = "parked"
    [] w = "packet_look" -> packet = "released"

BeginTransaction(w) ==
  /\ began[w] = 0 /\ MayBegin(w)
  /\ dbClock < MaxLedgerTime + (IF w \in {"echo", "confirm"} THEN RecoveryTime ELSE 0)
  /\ dbClock' = dbClock + 1
  /\ began' = [began EXCEPT ![w] = dbClock + 1]
  /\ UNCHANGED <<facts, sender, managedRun, packet, inHand, answered, latePress,
                 senderDeaths>>

-----------------------------------------------------------------------------
(* What a writer checks once it holds the lock *)

\* Mutant: a stop after the boundary was authorized is still a pre-click stop.
MayStopAlways == packet = "in_flight"

\* writeReviewWithRunnerNotSentFact
MayStop ==
  packet = "in_flight" /\ Now \notin {"boundary_authorized", "pressed", "blocked_confirmed"}

\* The row's claim and the fold, as the writer finds them under the lock.
Admits(w) ==
  CASE w = "open"      -> facts = {}
    [] w = "authorize" -> Now = "opened"
    [] w \in {"progress", "echo"} -> TRUE
    [] w = "confirm"   -> AuthorizedAt # {} /\ Has(Events, "press_observed")
    [] w = "refuse"    -> /\ Claimed /\ AuthorizedAt # {}
                          /\ ~ Has(Events, "submission_confirmed")
                          /\ ~ Has(Events, "not_sent_proven")
    [] w = "stop"      -> MayStop
    [] w = "close"     -> /\ packet = "released" /\ NeverReachedEmployer(Events)
                          /\ \A s \in facts : s.at + CloseAge < dbClock
    [] w = "look"      -> /\ packet = "parked" /\ BlockedUnverified(Events)
                          /\ ~ BoundaryActive
                          /\ AuthorizedAt # {} \/ NeverReachedEmployer(Events)
    [] w = "packet_look" -> /\ packet = "released" /\ Now # "blocked_confirmed"
                             /\ ~ (BlockedUnverified(Events) /\ BoundaryActive)

\* The fact's created_at: the authorization alone reads the clock.
CreatedAt(w) == IF w = "authorize" THEN dbClock + 1 ELSE began[w]

\* A packet-level look closes only an attempt with no outcome.
Appends(w) == w = "packet_look" => BlockedUnverified(Events)

\* Mutant: the stored time is compared as well.
SameFactAtOneTime(s, w) == s.entry = Entry(w) /\ s.at = CreatedAt(w)

\* sameStoredFact.  A look's observed_at is its own and never the same again.
SameFact(s, w) == s.entry = Entry(w) /\ w \notin {"look", "packet_look"}

Conflicts(w) ==
  \E s \in facts : s.entry.key = Entry(w).key /\ ~ SameFact(s, w)

Appended(w) ==
  IF ~ Appends(w) \/ \E s \in facts : SameFact(s, w)
    THEN facts
    ELSE facts \cup {[entry |-> Entry(w), at |-> CreatedAt(w)]}

\* Mutant: no writer folds again what it wrote.
HoldsUnread(w, stored) == TRUE

\* The fold each writer asserts before it commits; the others assert none.
Holds(w, stored) == w \in {"look", "refuse", "close"} => Fold(stored) = "safe_not_sent"

\* The row's write in the same transaction.
RowAfter(w) ==
  CASE w = "open" -> "in_flight"
    [] w = "confirm" -> "answered"
    [] w = "stop" -> "parked"
    [] w \in {"refuse", "close"} -> "released"
    [] w \in {"look", "packet_look"} -> "answered"
    [] OTHER -> packet

Commit(w) ==
  /\ began[w] # 0 /\ Admits(w) /\ ~ Conflicts(w) /\ Holds(w, Appended(w))
  /\ facts' = Appended(w)
  /\ packet' = RowAfter(w)
  /\ dbClock' = IF w = "authorize" THEN dbClock + 1 ELSE dbClock
  /\ sender' = CASE w = "open" -> "opened"
                 [] w = "authorize" -> "waiting"
                 [] w \in {"stop", "progress"} -> "gone"
                 [] OTHER -> sender
  /\ managedRun' = IF w = "authorize" THEN [managedRun EXCEPT !.run = "running"] ELSE managedRun
  /\ inHand' = (w = "echo" \/ (inHand /\ w \notin {"confirm", "refuse"}))
  /\ answered' = (answered \/ w = "look")
  /\ latePress' = (latePress \/ (answered /\ Entry(w).fact = Pressed))
  /\ began' = [began EXCEPT ![w] = 0]
  /\ UNCHANGED senderDeaths

\* It returns early, or throws and rolls back.
Abandon(w) ==
  /\ began[w] # 0
  /\ ~ (Admits(w) /\ ~ Conflicts(w) /\ Holds(w, Appended(w)))
  /\ began' = [began EXCEPT ![w] = 0]
  /\ sender' = IF w \in {"open", "authorize", "stop"} THEN "gone" ELSE sender
  /\ inHand' = (inHand /\ w \notin {"echo", "confirm", "refuse"})
  /\ UNCHANGED <<facts, dbClock, managedRun, packet, answered, latePress, senderDeaths>>

\* repairExpiredAttendedHandoffClaim asks for the lock without waiting, as it begins.
Repair ==
  /\ dbClock < MaxLedgerTime
  /\ packet = "parked" /\ NeverReachedEmployer(Events)
  /\ dbClock' = dbClock + 1
  /\ facts' = facts \cup {[entry |-> Entry("repair"), at |-> dbClock + 1]}
  /\ packet' = "released"
  /\ UNCHANGED <<began, sender, managedRun, inHand, answered, latePress, senderDeaths>>

-----------------------------------------------------------------------------
(* The managed run, the process, the row *)

\* The run presses before its authorization lapses.
RunPresses ==
  /\ managedRun = [run |-> "running", pressed |-> FALSE] /\ BoundaryActive
  /\ managedRun' = [managedRun EXCEPT !.pressed = TRUE]
  /\ UNCHANGED <<facts, dbClock, began, sender, packet, inHand, answered, latePress,
                 senderDeaths>>

\* The retained result of any other end is folded to no fact.
RunEnds ==
  /\ managedRun.run = "running"
  /\ \E result \in {"gone"} \cup (IF managedRun.pressed THEN {"filed", "refused"} ELSE {}) :
       managedRun' = [managedRun EXCEPT !.run = result]
  /\ UNCHANGED <<facts, dbClock, began, sender, packet, inHand, answered, latePress,
                 senderDeaths>>

\* The call returns; the run's outcome is read from its retained result.
CallReturns ==
  /\ sender = "waiting" /\ managedRun.run # "running"
  /\ began["progress"] = 0 /\ began["stop"] = 0
  /\ sender' = "gone"
  /\ UNCHANGED <<facts, dbClock, began, managedRun, packet, inHand, answered, latePress,
                 senderDeaths>>

\* A process dies with whatever it had not committed.
SenderDies ==
  /\ senderDeaths < MaxSenderDeaths
  /\ senderDeaths' = senderDeaths + 1
  /\ sender' = IF sender = "ready" THEN sender ELSE "gone"
  /\ inHand' = FALSE
  /\ began' = [w \in Writers |->
                 IF w \in {"close", "look", "packet_look"} THEN began[w] ELSE 0]
  /\ UNCHANGED <<facts, dbClock, managedRun, packet, answered, latePress>>

\* The row becomes a question for the applicant, its claim kept.
Park ==
  /\ packet = "in_flight" /\ sender = "gone"
  /\ packet' = "parked"
  /\ UNCHANGED <<facts, dbClock, began, sender, managedRun, inHand, answered, latePress,
                 senderDeaths>>

\* A stale write of the row drops the claim (module Submission, run StaleFailure).
LosesClaim ==
  /\ packet = "parked" /\ sender = "gone"
  /\ packet' = "released"
  /\ UNCHANGED <<facts, dbClock, began, sender, managedRun, inHand, answered, latePress,
                 senderDeaths>>

LedgerTick ==
  /\ dbClock < MaxLedgerTime
  /\ dbClock' = dbClock + 1
  /\ UNCHANGED <<facts, began, sender, managedRun, packet, inHand, answered, latePress,
                 senderDeaths>>

LedgerNext ==
  \/ \E w \in Writers : BeginTransaction(w) \/ Commit(w) \/ Abandon(w)
  \/ Repair \/ RunPresses \/ RunEnds \/ CallReturns \/ SenderDies
  \/ Park \/ LosesClaim \/ LedgerTick

\* The cron and every load of the row recover a retained result, and the lock is granted.
LedgerFairness ==
  \A w \in {"echo", "confirm"} :
    WF_ledgerVars(BeginTransaction(w)) /\ WF_ledgerVars(Commit(w) \/ Abandon(w))

LedgerSpec == LedgerInit /\ [][LedgerNext]_ledgerVars

-----------------------------------------------------------------------------
(* Properties *)

\* A "not there" the applicant gave on a row that held the claim stays an answer: unless a
\* press is committed after it, the attempt folds to not sent, or to confirmed, however the
\* transactions began and waited.  Code: POST /applications/:id/submission/unverified, whose
\* closing fact may be older than a press committed while it waited for the lock.
AnswerSticks ==
  answered /\ ~ latePress => Now \in {"safe_not_sent", "blocked_confirmed"}

\* Writers of the server alone never make an attempt unreadable: the fold calls a sequence
\* invalid only when a press and a not-sent proof were both recorded.  Code:
\* submissionAttemptRetrySafety over what the writers' guards let through.
UnreadableOnlyWhenPressed ==
  Now = "invalid_sequence" => Has(Events, "press_observed") /\ Has(Events, "not_sent_proven")

\* A retained result that shows the employer's receipt is folded to a confirmation, unless
\* the row stops holding the claim, or the press was first recorded under the progress
\* evidence, which refuses the same press from the result.  Code: recoverManagedSubmissionTerminalResult.
ResultFolds ==
  (Claimed /\ managedRun.run = "filed") ~>
    (Now = "blocked_confirmed" \/ ~ Claimed \/ PressKept("progress"))

=============================================================================
