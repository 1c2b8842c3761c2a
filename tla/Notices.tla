-------------------------------- MODULE Notices --------------------------------
(***************************************************************************)
(* One account's notifications: the daily strong-match and digest sweeps   *)
(* (src/src/routes/notifications.ts, src/src/lib/digestSweep.ts) and the   *)
(* alert an employer's mail causes (src/src/lib/                           *)
(* employerReplyNotification.ts).  All of them reserve a row of            *)
(* notification_sends, send, then commit or give the row back              *)
(* (src/src/lib/notificationSend.ts): the table's unique indexes are the   *)
(* only limiter.  Calls overlap, the mail provider's answer may be lost,   *)
(* and a process may die between any two steps.                            *)
(***************************************************************************)
EXTENDS Integers, FiniteSets

CONSTANTS
  Sweeps,         \* calls of a notification cron
  Handlers,       \* calls of the inbound mail webhook
  Postings,       \* open postings that match the account well
  Messages,       \* the employer's mails
  MaxDay,         \* bound: days
  MaxNoticeFaults \* bound: failed or unanswered sends, deaths, database errors

Senders == Sweeps \cup Handlers

ASSUME NoticesAssumption ==
  /\ Sweeps \cap Handlers = {} /\ Postings \cap Messages = {}
  /\ "activity" \notin Postings \cup Messages
  /\ MaxDay \in Nat \ {0} /\ MaxNoticeFaults \in Nat

VARIABLES
  day,          \* the UTC day
  sends,        \* rows of notification_sends: the slip, and whether sent_at is set
  job,          \* sender -> how far its notification is
  told,         \* history: slip -> messages that went out and were answered for
  noticeFaults, \* of MaxNoticeFaults
  stranded      \* history: slips whose row a death or a database error left behind

noticeVars == <<day, sends, job, told, noticeFaults, stranded>>

\* What is announced, on which day of the caller's clock.
Slips ==
  [kind : {"strong_match"}, about : Postings, day : 1..MaxDay]
    \cup [kind : {"activity_digest"}, about : {"activity"}, day : 1..MaxDay]
    \cup [kind : {"employer_reply"}, about : Messages, day : 1..MaxDay]

NoSlip == [kind |-> "none", about |-> "nothing", day |-> 0]
NoJob == [pc |-> "idle", slip |-> NoSlip]

NoticesAtRest ==
  /\ day = 1 /\ sends = {} /\ job = [s \in Senders |-> NoJob]
  /\ told = [x \in Slips |-> 0] /\ noticeFaults = 0 /\ stranded = {}

Working(s, step) == job[s].pc = step
Rows == {r.slip : r \in sends}
Faulty == noticeFaults < MaxNoticeFaults /\ noticeFaults' = noticeFaults + 1

Prepare(s, slip) == job' = [job EXCEPT ![s] = [pc |-> "prepared", slip |-> slip]]
StepsTo(s, step) == job' = [job EXCEPT ![s].pc = step]
EndsJob(s) == job' = [job EXCEPT ![s] = NoJob]

-----------------------------------------------------------------------------
(* The sweeps *)

\* strongMatchForAccount leaves out what a row already names.
ChoosesMatch(s, p) ==
  /\ Working(s, "idle") /\ p \notin {x.about : x \in Rows}
  /\ Prepare(s, [kind |-> "strong_match", about |-> p, day |-> day])
  /\ UNCHANGED <<day, sends, told, noticeFaults, stranded>>

\* A digest with something to say.
ChoosesDigest(s) ==
  /\ Working(s, "idle")
  /\ Prepare(s, [kind |-> "activity_digest", about |-> "activity", day |-> day])
  /\ UNCHANGED <<day, sends, told, noticeFaults, stranded>>

-----------------------------------------------------------------------------
(* Reserve, send, commit *)

\* Mutant: a null daily slot, which collides with nothing.
NoDailySlot(x, y) == FALSE

\* dailySlotFor: a slot of its kind and day; an employer's reply has none.
SameDailySlot(x, y) == x.kind # "employer_reply" /\ x.kind = y.kind /\ x.day = y.day

\* The digest's key holds its day.
SameDedupeKey(x, y) ==
  x.kind = y.kind /\ x.about = y.about /\ (x.kind = "activity_digest" => x.day = y.day)

Refused(slip) == \E x \in Rows : SameDailySlot(slip, x) \/ SameDedupeKey(slip, x)

\* reserveNotification: a unique index refuses it, or the row is there.
ReservesRow(s) ==
  LET slip == job[s].slip
  IN /\ Working(s, "prepared")
     /\ IF Refused(slip) THEN EndsJob(s) /\ UNCHANGED sends
                         ELSE /\ sends' = sends \cup {[slip |-> slip, sent |-> FALSE]}
                              /\ StepsTo(s, "reserved")
     /\ UNCHANGED <<day, told, noticeFaults, stranded>>

Sends(s) ==
  /\ Working(s, "reserved")
  /\ told' = [told EXCEPT ![job[s].slip] = @ + 1]
  /\ StepsTo(s, "answered")
  /\ UNCHANGED <<day, sends, noticeFaults, stranded>>

\* The provider fails, times out, or no device is reachable.  A message that went out
\* all the same is one nobody answered for.
SendFails(s) ==
  /\ Working(s, "reserved") /\ Faulty
  /\ StepsTo(s, "failed")
  /\ UNCHANGED <<day, sends, told, stranded>>

Unsent(slip) == [slip |-> slip, sent |-> FALSE]

\* commitNotification
CommitsRow(s) ==
  /\ Working(s, "answered") /\ EndsJob(s)
  /\ sends' = (sends \ {Unsent(job[s].slip)}) \cup {[slip |-> job[s].slip, sent |-> TRUE]}
  /\ UNCHANGED <<day, told, noticeFaults, stranded>>

\* Mutant: the row of a failed send is kept.
KeepsRow(slip) == sends

\* releaseNotification
WithoutRow(slip) == sends \ {Unsent(slip)}

ReleasesRow(s) ==
  /\ Working(s, "failed") /\ EndsJob(s)
  /\ sends' = WithoutRow(job[s].slip)
  /\ UNCHANGED <<day, told, noticeFaults, stranded>>

\* The release or the commit fails, or a push throws after its reservation: the row stays.
LeavesRow(s) ==
  /\ \/ job[s].pc \in {"answered", "failed"}
     \/ Working(s, "reserved") /\ job[s].slip.kind = "activity_digest"
  /\ Faulty /\ stranded' = stranded \cup {job[s].slip}
  /\ EndsJob(s)
  /\ UNCHANGED <<day, sends, told>>

SweepDies(s) ==
  /\ ~ Working(s, "idle") /\ Faulty /\ stranded' = stranded \cup {job[s].slip}
  /\ EndsJob(s)
  /\ UNCHANGED <<day, sends, told>>

NextDay ==
  /\ day < MaxDay /\ day' = day + 1
  /\ UNCHANGED <<sends, job, told, noticeFaults, stranded>>

NoticeStep(s) ==
  ReservesRow(s) \/ Sends(s) \/ SendFails(s) \/ CommitsRow(s) \/ ReleasesRow(s) \/ LeavesRow(s)

NoticesNext ==
  \/ \E s \in Sweeps :
       \/ \E p \in Postings : ChoosesMatch(s, p)
       \/ ChoosesDigest(s) \/ SweepDies(s)
  \/ \E s \in Senders : NoticeStep(s)
  \/ NextDay

NoticesSpec == NoticesAtRest /\ [][NoticesNext]_noticeVars

-----------------------------------------------------------------------------
(* Properties *)

SameCap(x, y) == x.kind = y.kind /\ x.day = y.day /\ x.kind # "employer_reply"

\* However the sweeps and webhooks overlap, fail and restart, one day's sweeps announce at
\* most one posting and one digest, and nothing is announced twice, other than by a message
\* that went out although its send failed.  Code: the reservation before the send.
WithinDailyCap ==
  \A x, y \in Slips :
    /\ told[x] > 0 /\ told[y] > 0
    /\ (x.about = y.about /\ x.kind # "activity_digest") \/ SameCap(x, y)
    => x = y /\ told[x] = 1

\* The provider's failures alone never spend a slot: a row nobody sends any more was sent, or
\* a process died or the database failed on the way.  Code: sendNotification's release.
FailureFreesSlot ==
  \A r \in sends : r.sent \/ r.slip \in stranded \/ \E s \in Senders : job[s].slip = r.slip

=============================================================================
