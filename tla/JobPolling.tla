------------------------------ MODULE JobPolling ------------------------------
(***************************************************************************)
(* A drain of the job boards (GET /internal/job-monitor, src/src/routes/   *)
(* jobMonitor.ts): one server at a time, by a PostgreSQL session lock      *)
(* (src/src/lib/jobMonitorLock.ts), polls the sources that have waited     *)
(* longest (pollSourcesWithinBudget, src/src/lib/jobPollScheduler.ts).     *)
(* Some providers share one rate limit across their tenants: a family's    *)
(* polls start an interval apart, which each process knows only of its own *)
(* starts, and one family also runs one poll at a time.                    *)
(*                                                                         *)
(* Time is kept as what is left of each wait.  What a poll stores of the   *)
(* jobs it reads is not modelled; whether it moves last_polled_at is.      *)
(***************************************************************************)
EXTENDS Integers, Sequences, FiniteSets, FiniteSetsExt, SequencesExt

CONSTANTS
  PollServers,   \* processes a drain may run in
  NoServer,      \* nobody holds the lock
  Sources,       \* enabled career_page_sources
  FamilyOf,      \* source -> "ordinary", "workable" or "crelate"
  Windowed,      \* sources whose jobs' details are read in windows (rippling, breezy, crelate)
  Concurrency,   \* POLL_CONCURRENCY
  SegmentSize,   \* POLL_SEGMENT_SIZE
  StartInterval, \* PROVIDER_START_INTERVALS_MS, in ticks
  PollBudget,    \* POLL_TIME_BUDGET_MS less its reserve, in ticks
  MaxWindows,    \* bound: detail windows of one cycle
  MaxPollFaults  \* bound: polls that fail in their place or throw, and servers that die

Paced == {"workable", "crelate"}
Families == Paced \cup {"ordinary"}

ASSUME PollingAssumption ==
  /\ IsFiniteSet(Sources) /\ NoServer \notin PollServers
  /\ FamilyOf \in [Sources -> Families] /\ Windowed \subseteq Sources
  /\ Concurrency \in Nat \ {0} /\ SegmentSize \in Nat \ {0}
  /\ StartInterval \in Nat \ {0} /\ PollBudget \in Nat \ {0}
  /\ MaxWindows \in Nat \ {0} /\ MaxPollFaults \in Nat

VARIABLES
  lockBy,   \* the server whose session holds the lock
  poller,   \* server -> its scheduler
  barrier,  \* server -> family -> ticks until it may start another poll
  line,     \* the sources by last_polled_at, the oldest first
  windows,  \* source -> windows read of its detail cycle
  quiet,    \* history: family -> ticks its provider must still be left alone
  burst,    \* history: a poll started too soon
  round,    \* history: sources that had their turn since the last time every one had
  pollFaults

pollVars == <<lockBy, poller, barrier, line, windows, quiet, burst, round,
             pollFaults>>

IdlePoller ==
  [at |-> "idle", queue |-> {}, active |-> {}, budget |-> 0, error |-> FALSE,
   own |-> {}, wait |-> 0]

PollInit ==
  /\ lockBy = NoServer
  /\ poller = [s \in PollServers |-> IdlePoller]
  /\ barrier = [s \in PollServers |-> [f \in Paced |-> 0]]
  /\ line \in SetToSeqs(Sources)
  /\ windows = [x \in Sources |-> 0]
  /\ quiet = [f \in Paced |-> 0]
  /\ burst = FALSE /\ round = {} /\ pollFaults = 0

\* Where no fair step is enabled: the lock is held and nobody drains.
PollAtRest ==
  /\ lockBy = CHOOSE s \in PollServers : TRUE
  /\ poller = [s \in PollServers |-> IdlePoller]
  /\ barrier = [s \in PollServers |-> [f \in Paced |-> 0]]
  /\ line = SetToSeq(Sources) /\ windows = [x \in Sources |-> 0]
  /\ quiet = [f \in Paced |-> 0] /\ burst = FALSE /\ round = {} /\ pollFaults = 0

MaxInFlight(f) == IF f = "crelate" THEN 1 ELSE Concurrency

OfFamily(sources, f) == {x \in sources : FamilyOf[x] = f}
Place(x) == CHOOSE i \in DOMAIN line : line[i] = x
IsFirstOf(x, sources) == \A y \in sources : Place(x) <= Place(y)

\* Mutant: the newest first.
NewestSources == {line[i] : i \in {j \in DOMAIN line : j > Len(line) - SegmentSize}}

\* order by last_polled_at asc nulls first limit POLL_SOURCE_LIMIT
OldestSources == {line[i] : i \in {j \in DOMAIN line : j <= SegmentSize}}

\* tryAcquireJobMonitorLock, then the queue is read.
StartDrain(s) ==
  /\ lockBy = NoServer /\ poller[s].at = "idle"
  /\ lockBy' = s
  /\ poller' = [poller EXCEPT ![s] =
                  [IdlePoller EXCEPT !.at = "awake", !.queue = OldestSources,
                                     !.budget = PollBudget]]
  /\ UNCHANGED <<barrier, line, windows, quiet, burst, round, pollFaults>>

MayStart(s) ==
  /\ poller[s].at = "awake" /\ ~ poller[s].error /\ poller[s].budget > 0
  /\ Cardinality(poller[s].active) < Concurrency

StartableFamilies(s) ==
  {f \in Paced :
     /\ OfFamily(poller[s].queue, f) # {} /\ barrier[s][f] = 0
     /\ Cardinality(OfFamily(poller[s].active, f)) < MaxInFlight(f)}

\* The first of these sources in the queue's order starts.
TakeFirst(s, sources, family) ==
  \E x \in sources :
    /\ IsFirstOf(x, sources)
    /\ poller' = [poller EXCEPT ![s].queue = @ \ {x}, ![s].active = @ \cup {x},
                                ![s].own = @ \cup family]

\* A family's turn comes before any ordinary source's.
StartPaced(s, f) ==
  /\ MayStart(s) /\ f \in StartableFamilies(s)
  /\ TakeFirst(s, OfFamily(poller[s].queue, f), {f})
  /\ barrier' = [barrier EXCEPT ![s][f] = StartInterval]
  /\ burst' = (burst \/ quiet[f] > 0)
  /\ quiet' = [quiet EXCEPT ![f] = StartInterval]
  /\ UNCHANGED <<lockBy, line, windows, round, pollFaults>>

StartOrdinary(s) ==
  /\ MayStart(s) /\ StartableFamilies(s) = {}
  /\ OfFamily(poller[s].queue, "ordinary") # {}
  /\ TakeFirst(s, OfFamily(poller[s].queue, "ordinary"), {})
  /\ UNCHANGED <<lockBy, barrier, line, windows, quiet, burst, round, pollFaults>>

\* How long until a family with sources left has its barrier behind it.
SoonestStart(s) ==
  Min({barrier[s][f] : f \in {g \in Paced : OfFamily(poller[s].queue, g) # {}}})

\* Nothing can start now: the scheduler stops starting, sleeps until a barrier, or waits
\* for a poll to end.
Await(s) ==
  LET q == poller[s]
      full == Cardinality(q.active) >= Concurrency
  IN /\ q.at = "awake"
     /\ ~ (MayStart(s) /\ (StartableFamilies(s) # {} \/ OfFamily(q.queue, "ordinary") # {}))
     /\ poller' = [poller EXCEPT ![s] =
          IF q.error \/ q.budget = 0 \/ q.queue = {} THEN [q EXCEPT !.at = "settling"]
          ELSE IF full \/ SoonestStart(s) = 0 THEN [q EXCEPT !.at = "racing"]
          ELSE [q EXCEPT !.at = "sleeping", !.wait = Min({SoonestStart(s), q.budget})]]
     /\ UNCHANGED <<lockBy, barrier, line, windows, quiet, burst, round, pollFaults>>

WakeUp(s) ==
  /\ poller[s].at = "sleeping" /\ poller[s].wait = 0
  /\ poller' = [poller EXCEPT ![s].at = "awake"]
  /\ UNCHANGED <<lockBy, barrier, line, windows, quiet, burst, round, pollFaults>>

\* A poll leaves the set of active ones, which wakes a scheduler that waits for one.
Leaves(s, x, failed) ==
  poller' = [poller EXCEPT ![s].active = @ \ {x}, ![s].error = @ \/ failed,
                           ![s].at = IF @ = "racing" THEN "awake" ELSE @]

\* pollSource: stored to the end of its list, or failed and recorded so; the source goes to
\* the end of the line.  A first fetch that fails has no window to keep, and a store that
\* fails for good keeps its window for the next turn.
PollEnds(s, x, stored) ==
  /\ x \in poller[s].active
  /\ Leaves(s, x, FALSE)
  /\ line' = Append(SelectSeq(line, LAMBDA y : y # x), x)
  /\ windows' = [windows EXCEPT ![x] = IF stored THEN 0 ELSE @]
  /\ round' = IF round \cup {x} = Sources THEN {} ELSE round \cup {x}
  /\ UNCHANGED <<lockBy, barrier, quiet, burst, pollFaults>>

\* keepInCurrentDrainOnError: the fetch of a later window failed, or the database did before
\* the store; the failure is recorded, and the source keeps its place and its window.
PollFails(s, x) ==
  /\ x \in poller[s].active /\ pollFaults < MaxPollFaults
  /\ pollFaults' = pollFaults + 1
  /\ Leaves(s, x, FALSE)
  /\ UNCHANGED <<lockBy, barrier, line, windows, quiet, burst, round>>

\* One window of a long list: the source keeps its place.
WindowEnds(s, x) ==
  /\ x \in poller[s].active
  /\ x \in Windowed /\ windows[x] + 1 < MaxWindows
  /\ Leaves(s, x, FALSE)
  /\ windows' = [windows EXCEPT ![x] = @ + 1]
  /\ UNCHANGED <<lockBy, barrier, line, quiet, burst, round, pollFaults>>

\* The failure could not be recorded either: the drain is to fail.
PollThrows(s, x) ==
  /\ x \in poller[s].active /\ pollFaults < MaxPollFaults
  /\ pollFaults' = pollFaults + 1
  /\ Leaves(s, x, TRUE)
  /\ UNCHANGED <<lockBy, barrier, line, windows, quiet, burst, round>>

\* Mutant: a failed drain does not wait for the siblings of its failed poll.
SettledOrFailed(s) == poller[s].active = {} \/ poller[s].error

\* Promise.allSettled
PollsSettled(s) == poller[s].active = {}

\* Mutant: the cooldown is left to the barriers of the process.
NoCooldown(s) == 0

\* waitForOwnPacedCooldowns: the barriers of the families this drain started, read once.
OwnCooldown(s) == Max({barrier[s][f] : f \in poller[s].own} \cup {0})

SettlePolls(s) ==
  /\ poller[s].at = "settling" /\ PollsSettled(s)
  /\ poller' = [poller EXCEPT ![s].at = "cooling", ![s].wait = OwnCooldown(s)]
  /\ UNCHANGED <<lockBy, barrier, line, windows, quiet, burst, round, pollFaults>>

\* The handler returns, and releases the lock.
ReleaseLock(s) ==
  /\ poller[s].at = "cooling" /\ poller[s].wait = 0
  /\ poller' = [poller EXCEPT ![s] = [IdlePoller EXCEPT !.active = poller[s].active]]
  /\ lockBy' = NoServer
  /\ UNCHANGED <<barrier, line, windows, quiet, burst, round, pollFaults>>

\* The session ends with the process, and with it the lock and the barriers.  What its
\* polls owed the providers is lost, and not held against the code.
ServerDies(s) ==
  /\ lockBy = s /\ pollFaults < MaxPollFaults
  /\ pollFaults' = pollFaults + 1
  /\ lockBy' = NoServer
  /\ poller' = [poller EXCEPT ![s] = IdlePoller]
  /\ barrier' = [barrier EXCEPT ![s] = [f \in Paced |-> 0]]
  /\ quiet' = [f \in Paced |-> 0]
  /\ UNCHANGED <<line, windows, burst, round>>

Less(n) == IF n = 0 THEN 0 ELSE n - 1

\* The scheduler's turns between two waits take no time.
PollTick ==
  /\ \A s \in PollServers : poller[s].at # "awake"
  /\ poller' = [s \in PollServers |->
       [poller[s] EXCEPT !.budget = Less(@), !.wait = Less(@)]]
  /\ barrier' = [s \in PollServers |-> [f \in Paced |-> Less(barrier[s][f])]]
  /\ quiet' = [f \in Paced |-> Less(quiet[f])]
  /\ UNCHANGED <<lockBy, line, windows, burst, round, pollFaults>>

SchedulerStep(s) ==
  \/ \E f \in Paced : StartPaced(s, f)
  \/ StartOrdinary(s) \/ Await(s) \/ WakeUp(s) \/ SettlePolls(s) \/ ReleaseLock(s)

PollNext ==
  \/ \E s \in PollServers :
       \/ StartDrain(s) \/ SchedulerStep(s) \/ ServerDies(s)
       \/ \E x \in Sources :
            \/ \E stored \in BOOLEAN : PollEnds(s, x, stored)
            \/ WindowEnds(s, x) \/ PollFails(s, x) \/ PollThrows(s, x)
  \/ PollTick

PollSpec == PollInit /\ [][PollNext]_pollVars

-----------------------------------------------------------------------------
(* Properties *)

\* Two polls of one paced family never start less than its interval apart, whichever
\* processes start them, as long as the one before lived to release the lock.  Code:
\* waitForOwnPacedCooldowns, under the lock: the barriers are each process's own.
ProviderSpacing == ~ burst

\* One poll of a capped family runs at a time, over all processes.  Code: the lock is
\* released only when every started poll has ended, the siblings of a failed one too.
OneCappedPoll ==
  Cardinality(UNION {OfFamily(poller[s].active, "crelate") : s \in PollServers}) <= 1

\* No source is left out for ever while others are polled: once one had its turn, stored to
\* the end of its list or failed and sent to the end of the line, all have it, however
\* little of the queue one drain reaches, and whichever sources keep their place with a
\* window or with a failure (there are MaxPollFaults of these).  Code: the oldest-first
\* selection, and the polls that leave last_polled_at as it is.
EverySourcePolled == round # {} ~> round = {}

=============================================================================
