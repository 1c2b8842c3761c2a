------------------------------- MODULE Background -------------------------------
(***************************************************************************)
(* What a server runs behind its requests: the fill runs of a packet, over *)
(* restarts, and the drain of the job boards.  They share no state; a      *)
(* behaviour exercises one of them and the other rests.                    *)
(***************************************************************************)
EXTENDS FillRuns, JobPolling

VARIABLE work  \* what this behaviour exercises

backgroundVars == <<work, fillVars, pollVars>>

BackgroundInit ==
  \/ work = "filling" /\ FillInit /\ PollAtRest
  \/ work = "polling" /\ PollInit /\ FillAtRest

Filling == work = "filling"
Polling == work = "polling"

FillingStep == Filling /\ FillNext /\ UNCHANGED <<work, pollVars>>
PollingStep == Polling /\ PollNext /\ UNCHANGED <<work, fillVars>>

BackgroundNext == FillingStep \/ PollingStep

\* Filling: deploys come to an end with a process that serves, the calls it makes return,
\* its cron and its release come round, and time passes.  Polling: the cron calls a server
\* again and again, the scheduler runs, a poll's requests time out, and time passes.  Each
\* condition holds while its part is exercised.
FairBackgroundSpec ==
  /\ BackgroundInit /\ [][BackgroundNext]_backgroundVars
  /\ WF_fillVars(Filling /\ \E s \in Servers : Boot(s))
  /\ \A c \in Calls : WF_fillVars(Filling /\ CallStep(c))
  /\ WF_fillVars(Filling /\ \E c \in Calls, s \in Servers : LastBoot(s) /\ CronSelects(c, s))
  /\ WF_fillVars(Filling /\ StallRelease) /\ WF_fillVars(Filling /\ Tick)
  /\ WF_pollVars(Polling /\ \E s \in PollServers : StartDrain(s))
  /\ WF_pollVars(Polling /\ \E s \in PollServers : SchedulerStep(s))
  /\ WF_pollVars(Polling /\ \E s \in PollServers, x \in Sources :
       (\E stored \in BOOLEAN : PollEnds(s, x, stored)) \/ WindowEnds(s, x))
  /\ WF_pollVars(Polling /\ PollTick)

=============================================================================
