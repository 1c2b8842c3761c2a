------------------------------- MODULE MailProofs -------------------------------
(***************************************************************************)
(* What holds of an account's notifications and of the employer's mail,    *)
(* for any number of sweeps, webhook calls, postings, messages and days.   *)
(* The theorems are about the sweeps and the webhook at once: they share   *)
(* the table that limits what is sent.                                     *)
(***************************************************************************)
EXTENDS InboundMail, TLAPS

\* The webhook's calls and the sweeps, interleaved.
MailAndSweepsNext == MailNext \/ (NoticesNext /\ UNCHANGED mailVars)

MailAndSweepsSpec ==
  NoticesAtRest /\ MailInit /\ [][MailAndSweepsNext]_<<mailVars, noticeVars>>

-----------------------------------------------------------------------------
(* Notifications: the inductive invariant *)

\* The senders whose row is in the table on their account.
Holding(s) == job[s].pc \in {"reserved", "answered", "failed"}

Jobs ==
  [pc : {"idle", "prepared", "reserved", "answered", "failed"}, slip : Slips \cup {NoSlip}]

NoticeTypes ==
  /\ day \in 1..MaxDay
  /\ sends \subseteq [slip : Slips, sent : BOOLEAN]
  /\ job \in [Senders -> Jobs]
  /\ \A s \in Senders : job[s].pc # "idle" => job[s].slip \in Slips
  /\ told \in [Slips -> Nat]

\* No two rows share a daily slot or a dedupe key: the table's unique indexes.
RowsApart ==
  \A q, r \in sends : SameDailySlot(q.slip, r.slip) \/ SameDedupeKey(q.slip, r.slip) => q = r

\* Two senders never hold one row.
HoldersApart ==
  \A s, t \in Senders : Holding(s) /\ Holding(t) /\ job[s].slip = job[t].slip => s = t

\* A holder's row is there, unsent, and announced exactly if the send was answered.
HoldersRows ==
  \A s \in Senders :
    Holding(s) =>
      /\ Unsent(job[s].slip) \in sends
      /\ told[job[s].slip] = IF job[s].pc = "answered" THEN 1 ELSE 0

\* What was announced was announced once, and its row is still there.
ToldHasRow == \A x \in Slips : told[x] <= 1 /\ (told[x] > 0 => x \in Rows)

\* A row was sent, was left behind, or has its holder.
SlotsAccounted ==
  \A r \in sends :
    r.sent \/ r.slip \in stranded \/ \E s \in Senders : Holding(s) /\ job[s].slip = r.slip

NoticeInv ==
  NoticeTypes /\ RowsApart /\ HoldersApart /\ HoldersRows /\ ToldHasRow /\ SlotsAccounted

-----------------------------------------------------------------------------
(* Notifications: slips and rows *)

\* Two slips collide in either order, and a slip collides with itself.
LEMMA CollisionIsSymmetric ==
  ASSUME NEW x, NEW y
  PROVE  /\ SameDailySlot(x, y) <=> SameDailySlot(y, x)
         /\ SameDedupeKey(x, y) <=> SameDedupeKey(y, x)
         /\ SameDedupeKey(x, x)
BY DEF SameDailySlot, SameDedupeKey

\* What a sweep or the webhook announces is a slip.
LEMMA SlipTypes ==
  ASSUME NEW d \in 1..MaxDay
  PROVE  /\ \A p \in Postings : [kind |-> "strong_match", about |-> p, day |-> d] \in Slips
         /\ [kind |-> "activity_digest", about |-> "activity", day |-> d] \in Slips
         /\ \A m \in Messages : [kind |-> "employer_reply", about |-> m, day |-> d] \in Slips
BY DEF Slips

\* The rows of a slip.
LEMMA UnsentRow ==
  ASSUME NEW x
  PROVE  Unsent(x).slip = x /\ Unsent(x).sent = FALSE
BY DEF Unsent

LEMMA RowNamesItsSlip ==
  ASSUME NEW r \in sends PROVE r.slip \in Rows
BY DEF Rows

-----------------------------------------------------------------------------
(* Notifications: the steps *)

\* A sender that holds no row prepares a notice.
LEMMA PrepareInv ==
  ASSUME NoticeInv, NEW s \in Senders, NEW x \in Slips,
         Working(s, "idle"), Prepare(s, x), UNCHANGED <<day, sends, told, noticeFaults, stranded>>
  PROVE  NoticeInv'
<1> DEFINE new == [pc |-> "prepared", slip |-> x]
<1>1. new \in Jobs /\ new.pc = "prepared" /\ new.slip = x
  BY DEF Jobs
<1>2. /\ job \in [Senders -> Jobs]
      /\ job' = [job EXCEPT ![s] = new]
  BY DEF NoticeInv, NoticeTypes, Prepare
<1> HIDE DEF new
<1>3. /\ job' \in [Senders -> Jobs] /\ job'[s] = new
      /\ \A t \in Senders : t # s => job'[t] = job[t]
  BY <1>1, <1>2
<1>4. ~ Holding(s) /\ ~ Holding(s)'
  BY <1>1, <1>3 DEF Holding, Working
<1>5. NoticeTypes'
  BY <1>1, <1>3 DEF NoticeInv, NoticeTypes
<1>6. RowsApart' /\ ToldHasRow'
  BY DEF NoticeInv, RowsApart, ToldHasRow, Rows
<1>7. HoldersApart' /\ HoldersRows' /\ SlotsAccounted'
  BY <1>3, <1>4 DEF NoticeInv, HoldersApart, HoldersRows, SlotsAccounted, Holding
<1> QED
  BY <1>5, <1>6, <1>7 DEF NoticeInv

\* A sender stops; a row it held is left behind.
LEMMA StopInv ==
  ASSUME NoticeInv, NEW s \in Senders, EndsJob(s), UNCHANGED <<day, sends, told>>,
         stranded \subseteq stranded', Holding(s) => job[s].slip \in stranded'
  PROVE  NoticeInv'
<1>1. NoJob \in Jobs /\ NoJob.pc = "idle"
  BY DEF NoJob, Jobs
<1>2. /\ job' \in [Senders -> Jobs] /\ job'[s] = NoJob
      /\ \A t \in Senders : t # s => job'[t] = job[t]
  BY <1>1 DEF NoticeInv, NoticeTypes, EndsJob
<1>3. ~ Holding(s)'
  BY <1>1, <1>2 DEF Holding
<1>4. NoticeTypes'
  BY <1>1, <1>2 DEF NoticeInv, NoticeTypes
<1>5. RowsApart' /\ ToldHasRow'
  BY DEF NoticeInv, RowsApart, ToldHasRow, Rows
<1>6. HoldersApart' /\ HoldersRows'
  BY <1>2, <1>3 DEF NoticeInv, HoldersApart, HoldersRows, Holding
<1>7. SlotsAccounted'
  BY <1>2, <1>3 DEF NoticeInv, SlotsAccounted, Holding
<1> QED
  BY <1>4, <1>5, <1>6, <1>7 DEF NoticeInv

\* What a sender's own move to a step does to the table of jobs.
LEMMA StepsToJobs ==
  ASSUME NoticeInv, NEW s \in Senders, NEW step \in {"reserved", "answered", "failed"},
         StepsTo(s, step), job[s].pc # "idle"
  PROVE  /\ job' \in [Senders -> Jobs] /\ job'[s].pc = step /\ job'[s].slip = job[s].slip
         /\ \A t \in Senders : t # s => job'[t] = job[t]
         /\ \A t \in Senders : job'[t].pc # "idle" => job'[t].slip \in Slips
         /\ job[s].slip \in Slips
<1>1. job \in [Senders -> Jobs] /\ job[s].slip \in Slips
  BY DEF NoticeInv, NoticeTypes
<1> DEFINE new == [job[s] EXCEPT !.pc = step]
<1>2. new \in Jobs /\ new.pc = step /\ new.slip = job[s].slip
  BY <1>1 DEF Jobs
<1>3. job' = [job EXCEPT ![s] = new]
  BY DEF StepsTo
<1> HIDE DEF new
<1> QED
  BY <1>1, <1>2, <1>3 DEF NoticeInv, NoticeTypes

LEMMA ReservesRowInv ==
  ASSUME NoticeInv, NEW s \in Senders, ReservesRow(s) PROVE NoticeInv'
<1> DEFINE slip == job[s].slip
<1>1. CASE Refused(slip)
  <2>1. ~ Holding(s)
    BY DEF ReservesRow, Working, Holding
  <2> QED
    BY <1>1, <2>1, StopInv DEF ReservesRow
<1>2. CASE ~ Refused(slip)
  <2>1. /\ sends' = sends \cup {Unsent(slip)} /\ StepsTo(s, "reserved")
        /\ UNCHANGED <<day, told, stranded>> /\ job[s].pc = "prepared"
    BY <1>2 DEF ReservesRow, Working, Unsent
  <2>2. /\ job' \in [Senders -> Jobs] /\ job'[s].pc = "reserved" /\ job'[s].slip = slip
        /\ \A t \in Senders : t # s => job'[t] = job[t]
        /\ \A t \in Senders : job'[t].pc # "idle" => job'[t].slip \in Slips
        /\ slip \in Slips
    BY <2>1, StepsToJobs
  <2> HIDE DEF slip
  <2>3. \A r \in sends : ~ SameDailySlot(slip, r.slip) /\ ~ SameDedupeKey(slip, r.slip)
    BY <1>2 DEF Refused, Rows
  <2>4. slip \notin Rows
    BY <2>3, CollisionIsSymmetric DEF Rows
  <2>5. NoticeTypes'
    <3>1. Unsent(slip) \in [slip : Slips, sent : BOOLEAN]
      BY <2>2 DEF Unsent
    <3> QED
      BY <2>1, <2>2, <3>1 DEF NoticeInv, NoticeTypes
  <2>6. RowsApart'
    <3> SUFFICES ASSUME NEW q \in sends', NEW r \in sends',
                        SameDailySlot(q.slip, r.slip) \/ SameDedupeKey(q.slip, r.slip)
                 PROVE  q = r
      BY DEF RowsApart
    <3>1. CASE q \in sends /\ r \in sends
      BY <3>1 DEF NoticeInv, RowsApart
    <3>2. CASE q = Unsent(slip) /\ r \in sends
      BY <2>3, <3>2, UnsentRow
    <3>3. CASE r = Unsent(slip) /\ q \in sends
      BY <2>3, <3>3, UnsentRow, CollisionIsSymmetric
    <3> QED
      BY <2>1, <3>1, <3>2, <3>3
  <2>7. \A t \in Senders : Holding(t) => job[t].slip # slip
    BY <2>4, UnsentRow, RowNamesItsSlip DEF NoticeInv, HoldersRows
  <2>8. HoldersApart'
    BY <2>2, <2>7 DEF NoticeInv, HoldersApart, Holding
  <2>9. told[slip] = 0
    BY <2>2, <2>4 DEF NoticeInv, ToldHasRow, NoticeTypes
  <2>10. HoldersRows'
    BY <2>1, <2>2, <2>9 DEF NoticeInv, HoldersRows, Holding
  <2>11. ToldHasRow'
    BY <2>1 DEF NoticeInv, ToldHasRow, Rows
  <2>12. SlotsAccounted'
    <3>1. Holding(s)' /\ \A t \in Senders : Holding(t) => Holding(t)'
      BY <2>2 DEF Holding
    <3> SUFFICES ASSUME NEW r \in sends', ~ r.sent, r.slip \notin stranded
                 PROVE  \E t \in Senders : Holding(t)' /\ job'[t].slip = r.slip
      BY <2>1 DEF SlotsAccounted
    <3>2. CASE r = Unsent(slip)
      BY <2>2, <3>1, <3>2, UnsentRow
    <3>3. CASE r \in sends
      <4>1. PICK t \in Senders : Holding(t) /\ job[t].slip = r.slip
        BY <3>3 DEF NoticeInv, SlotsAccounted
      <4>2. job'[t].slip = r.slip
        BY <2>2, <4>1 DEF slip
      <4> QED
        BY <3>1, <4>1, <4>2
    <3> QED
      BY <2>1, <3>2, <3>3
  <2> QED
    BY <2>5, <2>6, <2>8, <2>10, <2>11, <2>12 DEF NoticeInv
<1> QED
  BY <1>1, <1>2

LEMMA SendsInv ==
  ASSUME NoticeInv, NEW s \in Senders, Sends(s) PROVE NoticeInv'
<1> DEFINE slip == job[s].slip
<1>1. /\ told' = [told EXCEPT ![slip] = @ + 1] /\ StepsTo(s, "answered")
      /\ UNCHANGED <<day, sends, stranded>> /\ job[s].pc = "reserved"
  BY DEF Sends, Working
<1>2. /\ job' \in [Senders -> Jobs] /\ job'[s].pc = "answered" /\ job'[s].slip = slip
      /\ \A t \in Senders : t # s => job'[t] = job[t]
      /\ \A t \in Senders : job'[t].pc # "idle" => job'[t].slip \in Slips
      /\ slip \in Slips
  BY <1>1, StepsToJobs
<1> HIDE DEF slip
<1>3. Holding(s) /\ \A t \in Senders : Holding(t)' <=> Holding(t)
  BY <1>1, <1>2 DEF Holding
<1>4. job[s].slip = slip
  BY DEF slip
<1>5. Unsent(slip) \in sends /\ told[slip] = 0
  BY <1>1, <1>3, <1>4 DEF NoticeInv, HoldersRows
<1>6. /\ told' \in [Slips -> Nat] /\ told'[slip] = 1
      /\ \A x \in Slips : x # slip => told'[x] = told[x]
  BY <1>1, <1>2, <1>5 DEF NoticeInv, NoticeTypes
<1>7. NoticeTypes'
  BY <1>1, <1>2, <1>6 DEF NoticeInv, NoticeTypes
<1>8. RowsApart'
  BY <1>1 DEF NoticeInv, RowsApart
<1>9. \A t \in Senders : t # s /\ Holding(t) => job[t].slip # slip /\ job[t].slip \in Slips
  BY <1>3, <1>4 DEF NoticeInv, HoldersApart, NoticeTypes, Holding
<1>10. HoldersApart'
  BY <1>2, <1>3, <1>9 DEF NoticeInv, HoldersApart
<1>11. HoldersRows'
  BY <1>1, <1>2, <1>3, <1>5, <1>6, <1>9 DEF NoticeInv, HoldersRows
<1>12. slip \in Rows
  BY <1>5, UnsentRow, RowNamesItsSlip
<1>13. ToldHasRow'
  BY <1>1, <1>6, <1>12 DEF NoticeInv, ToldHasRow, Rows
<1>14. SlotsAccounted'
  BY <1>1, <1>2, <1>3, <1>4 DEF NoticeInv, SlotsAccounted
<1> QED
  BY <1>7, <1>8, <1>10, <1>11, <1>13, <1>14 DEF NoticeInv

LEMMA SendFailsInv ==
  ASSUME NoticeInv, NEW s \in Senders, SendFails(s) PROVE NoticeInv'
<1>1. StepsTo(s, "failed") /\ UNCHANGED <<day, sends, told, stranded>> /\ job[s].pc = "reserved"
  BY DEF SendFails, Working
<1>2. /\ job' \in [Senders -> Jobs] /\ job'[s].pc = "failed" /\ job'[s].slip = job[s].slip
      /\ \A t \in Senders : t # s => job'[t] = job[t]
      /\ \A t \in Senders : job'[t].pc # "idle" => job'[t].slip \in Slips
  BY <1>1, StepsToJobs
<1>3. /\ \A t \in Senders : Holding(t)' <=> Holding(t)
      /\ \A t \in Senders : job'[t].slip = job[t].slip
      /\ \A t \in Senders : job'[t].pc = "answered" <=> job[t].pc = "answered"
  BY <1>1, <1>2 DEF Holding
<1>4. NoticeTypes'
  BY <1>1, <1>2 DEF NoticeInv, NoticeTypes
<1>5. RowsApart' /\ ToldHasRow'
  BY <1>1 DEF NoticeInv, RowsApart, ToldHasRow, Rows
<1>6. HoldersApart' /\ HoldersRows' /\ SlotsAccounted'
  BY <1>1, <1>3 DEF NoticeInv, HoldersApart, HoldersRows, SlotsAccounted
<1> QED
  BY <1>4, <1>5, <1>6 DEF NoticeInv

\* The end of a sender that held a row, and what the table keeps of it.
LEMMA SettledInv ==
  ASSUME NoticeInv, NEW s \in Senders, EndsJob(s), UNCHANGED <<day, told, stranded>>,
         Holding(s),
         NEW kept, kept \subseteq {[slip |-> job[s].slip, sent |-> TRUE]},
         sends' = (sends \ {Unsent(job[s].slip)}) \cup kept,
         kept = {} => job[s].pc # "answered"
  PROVE  NoticeInv'
<1> DEFINE slip == job[s].slip
<1>1. /\ slip \in Slips /\ Unsent(slip) \in sends
      /\ told[slip] = IF job[s].pc = "answered" THEN 1 ELSE 0
  BY DEF NoticeInv, NoticeTypes, HoldersRows, Holding
<1>2. \A r \in kept : r = [slip |-> slip, sent |-> TRUE] /\ r.slip = slip /\ r.sent
  OBVIOUS
<1>3. NoJob \in Jobs /\ NoJob.pc = "idle"
  BY DEF NoJob, Jobs
<1>4. /\ job' \in [Senders -> Jobs] /\ job'[s] = NoJob
      /\ \A t \in Senders : t # s => job'[t] = job[t]
  BY <1>3 DEF NoticeInv, NoticeTypes, EndsJob
<1>5. ~ Holding(s)' /\ \A t \in Senders : t # s => (Holding(t)' <=> Holding(t))
  BY <1>3, <1>4 DEF Holding
<1>6. \A t \in Senders : t # s /\ Holding(t) => job[t].slip # slip
  BY DEF NoticeInv, HoldersApart
<1>7. sends' = (sends \ {Unsent(slip)}) \cup kept
  OBVIOUS
<1> HIDE DEF slip
<1>8. NoticeTypes'
  <2>1. [slip |-> slip, sent |-> TRUE] \in [slip : Slips, sent : BOOLEAN]
    BY <1>1
  <2>2. kept \subseteq [slip : Slips, sent : BOOLEAN]
    BY <1>2, <2>1
  <2> QED
    BY <1>3, <1>4, <1>7, <2>2 DEF NoticeInv, NoticeTypes
<1>9. RowsApart'
  <2>1. \A q \in sends', r \in sends' :
          SameDailySlot(q.slip, r.slip) \/ SameDedupeKey(q.slip, r.slip) => q = r
    <3> SUFFICES ASSUME NEW q \in sends', NEW r \in sends',
                        SameDailySlot(q.slip, r.slip) \/ SameDedupeKey(q.slip, r.slip)
                 PROVE  q = r
      OBVIOUS
    <3>1. CASE q \in sends \ {Unsent(slip)} /\ r \in sends \ {Unsent(slip)}
      BY <3>1 DEF NoticeInv, RowsApart
    <3>2. CASE q \in kept /\ r \in kept
      BY <1>2, <3>2
    <3>3. CASE q \in kept /\ r \in sends \ {Unsent(slip)}
      BY <1>1, <1>2, <3>3, UnsentRow DEF NoticeInv, RowsApart
    <3>4. CASE r \in kept /\ q \in sends \ {Unsent(slip)}
      BY <1>1, <1>2, <3>4, UnsentRow DEF NoticeInv, RowsApart
    <3> QED
      BY <1>7, <3>1, <3>2, <3>3, <3>4
  <2> QED
    BY <2>1 DEF RowsApart
<1>10. HoldersApart'
  BY <1>4, <1>5 DEF NoticeInv, HoldersApart
<1>11. HoldersRows'
  <2> SUFFICES ASSUME NEW t \in Senders, Holding(t)'
               PROVE  /\ Unsent(job'[t].slip) \in sends'
                      /\ told'[job'[t].slip] = IF job'[t].pc = "answered" THEN 1 ELSE 0
    BY DEF HoldersRows
  <2>1. t # s /\ Holding(t) /\ job'[t] = job[t] /\ job[t].slip # slip
    BY <1>4, <1>5, <1>6
  <2>2. /\ Unsent(job[t].slip) \in sends
        /\ told[job[t].slip] = IF job[t].pc = "answered" THEN 1 ELSE 0
    BY <2>1 DEF NoticeInv, HoldersRows
  <2>3. Unsent(job[t].slip) # Unsent(slip)
    BY <2>1, UnsentRow
  <2> QED
    BY <1>7, <2>1, <2>2, <2>3
<1>12. ToldHasRow'
  <2> SUFFICES ASSUME NEW x \in Slips, told[x] > 0 PROVE \E r \in sends' : r.slip = x
    BY DEF NoticeInv, ToldHasRow, Rows
  <2>1. CASE x = slip
    <3>1. kept # {}
      BY <1>1, <2>1 DEF slip
    <3> QED
      BY <1>2, <1>7, <2>1, <3>1
  <2>2. CASE x # slip
    <3>1. PICK r \in sends : r.slip = x
      BY DEF NoticeInv, ToldHasRow, Rows
    <3> QED
      BY <1>7, <2>2, <3>1, UnsentRow
  <2> QED
    BY <2>1, <2>2
<1>13. SlotsAccounted'
  <2>1. \A r \in sends : r # Unsent(slip) => r.sent \/ r.slip # slip
    <3> SUFFICES ASSUME NEW r \in sends, r.slip = slip PROVE r = Unsent(slip)
      BY UnsentRow
    <3> QED
      BY <1>1, UnsentRow, CollisionIsSymmetric DEF NoticeInv, RowsApart
  <2> SUFFICES ASSUME NEW r \in sends', ~ r.sent, r.slip \notin stranded
               PROVE  \E t \in Senders : Holding(t)' /\ job'[t].slip = r.slip
    BY DEF SlotsAccounted
  <2>2. r \in sends /\ r # Unsent(slip) /\ r.slip # slip
    BY <1>2, <1>7, <2>1
  <2>3. PICK t \in Senders : Holding(t) /\ job[t].slip = r.slip
    BY <2>2 DEF NoticeInv, SlotsAccounted
  <2>4. t # s
    BY <2>2, <2>3 DEF slip
  <2> QED
    BY <1>4, <1>5, <2>3, <2>4
<1> QED
  BY <1>8, <1>9, <1>10, <1>11, <1>12, <1>13 DEF NoticeInv

LEMMA CommitsRowInv ==
  ASSUME NoticeInv, NEW s \in Senders, CommitsRow(s) PROVE NoticeInv'
<1>1. Holding(s)
  BY DEF CommitsRow, Working, Holding
<1> DEFINE kept == {[slip |-> job[s].slip, sent |-> TRUE]}
<1>2. kept # {}
  OBVIOUS
<1>3. sends' = (sends \ {Unsent(job[s].slip)}) \cup kept
  BY DEF CommitsRow
<1> QED
  BY <1>1, <1>2, <1>3, SettledInv DEF CommitsRow

LEMMA ReleasesRowInv ==
  ASSUME NoticeInv, NEW s \in Senders, ReleasesRow(s) PROVE NoticeInv'
<1>1. Holding(s) /\ job[s].pc # "answered"
  BY DEF ReleasesRow, Working, Holding
<1> DEFINE kept == {}
<1>2. sends' = (sends \ {Unsent(job[s].slip)}) \cup kept
  BY DEF ReleasesRow, WithoutRow
<1>3. kept \subseteq {[slip |-> job[s].slip, sent |-> TRUE]}
  OBVIOUS
<1> QED
  BY <1>1, <1>2, <1>3, SettledInv DEF ReleasesRow

LEMMA NoticeStepInv ==
  ASSUME NoticeInv, NEW s \in Senders, NoticeStep(s) PROVE NoticeInv'
<1>1. CASE LeavesRow(s)
  <2>1. Holding(s) => job[s].slip \in stranded'
    BY <1>1 DEF LeavesRow
  <2> QED
    BY <1>1, <2>1, StopInv DEF LeavesRow
<1> QED
  BY <1>1, ReservesRowInv, SendsInv, SendFailsInv, CommitsRowInv, ReleasesRowInv DEF NoticeStep

\* The invariant reads nothing but these.
LEMMA NoticesUnmoved ==
  ASSUME NoticeInv, day' \in 1..MaxDay, UNCHANGED <<sends, job, told, stranded>>
  PROVE  NoticeInv'
<1>1. NoticeTypes'
  BY DEF NoticeInv, NoticeTypes
<1>2. RowsApart' /\ HoldersApart' /\ HoldersRows' /\ ToldHasRow' /\ SlotsAccounted'
  BY DEF NoticeInv, RowsApart, HoldersApart, HoldersRows, ToldHasRow, SlotsAccounted, Rows,
         Holding
<1> QED
  BY <1>1, <1>2 DEF NoticeInv

LEMMA SweepsInv ==
  ASSUME NoticeInv, NoticesNext PROVE NoticeInv'
<1>1. ASSUME NEW s \in Sweeps PROVE s \in Senders
  BY DEF Senders
<1>2. day \in 1..MaxDay
  BY DEF NoticeInv, NoticeTypes
<1>3. ASSUME NEW s \in Sweeps, NEW p \in Postings, ChoosesMatch(s, p) PROVE NoticeInv'
  BY <1>1, <1>2, <1>3, SlipTypes, PrepareInv DEF ChoosesMatch
<1>4. ASSUME NEW s \in Sweeps, ChoosesDigest(s) PROVE NoticeInv'
  BY <1>1, <1>2, <1>4, SlipTypes, PrepareInv DEF ChoosesDigest
<1>5. ASSUME NEW s \in Sweeps, SweepDies(s) PROVE NoticeInv'
  BY <1>1, <1>5, StopInv DEF SweepDies
<1>6. CASE NextDay
  <2>1. day' \in 1..MaxDay
    BY <1>2, <1>6, NoticesAssumption DEF NextDay
  <2> QED
    BY <1>6, <2>1, NoticesUnmoved DEF NextDay
<1> QED
  BY <1>3, <1>4, <1>5, <1>6, NoticeStepInv DEF NoticesNext

-----------------------------------------------------------------------------
(* The webhook: the inductive invariant *)

Hooks ==
  [pc : {"idle", "called", "resolving", "forwarding", "sending", "marking", "failing",
         "alerting", "alerted", "done"},
   mail : Messages \cup {NoMail}, error : BOOLEAN]

MailTypes ==
  /\ hook \in [Handlers -> Hooks]
  /\ \A h \in Handlers : hook[h].pc # "idle" => MailOf(h) \in Messages
  /\ forwarding \in [Messages -> [done : BOOLEAN, claimed : Nat]]
  /\ copies \in [Messages -> Nat] /\ unsure \in [Messages -> Nat]
  /\ mailTime \in Nat \ {0}

\* The calls that hold a forwarding claim.
AtWork(h) == hook[h].pc \in {"sending", "marking", "failing"}

WorkersApart ==
  \A h, i \in Handlers : AtWork(h) /\ AtWork(i) /\ MailOf(h) = MailOf(i) => h = i

\* A claim is as old as the work under it: no time passes meanwhile.
WorkersClaim ==
  \A h \in Handlers :
    AtWork(h) => forwarding[MailOf(h)].claimed = mailTime /\ ~ forwarding[MailOf(h)].done

\* A copy that is neither marked nor about to be is one some call was unsure of.
CopiesTold ==
  \A m \in Messages :
    /\ ~ forwarding[m].done
    /\ \A h \in Handlers : MailOf(h) = m => ~ InHook(h, "marking")
    => copies[m] <= unsure[m]

\* A claim nobody works under was left behind.
ClaimsLeft ==
  \A m \in Messages :
    /\ forwarding[m].claimed # 0 /\ ~ forwarding[m].done
    /\ \A h \in Handlers : AtWork(h) => MailOf(h) # m
    => m \in abandoned

ForwardInv == WorkersApart /\ WorkersClaim /\ CopiesTold /\ OneCopy /\ ClaimsLeft

\* The webhook is done with forwarding this mail.
Settled(m) == forwarding[m].done \/ m \in abandoned \cup overlapped

\* And it is after the step.
SettledAfter(m) == forwarding'[m].done \/ m \in abandoned' \cup overlapped'

HooksStored ==
  \A h \in Handlers :
    /\ hook[h].pc # "idle" => MailOf(h) \in owed \cup stored
    /\ hook[h].pc \notin {"idle", "called"} => MailOf(h) \in stored

\* A call that answers for a receipt has forwarded it or knows why not.
ReceiptsSettled ==
  \A h \in Handlers :
    /\ InHook(h, "done") /\ IsReceipt(MailOf(h)) => Settled(MailOf(h))
    /\ hook[h].pc \in {"alerting", "alerted"} => ~ IsReceipt(MailOf(h))

HookInv == HooksStored /\ ReceiptsSettled /\ ForwardedOrLeft

MailInv == MailTypes /\ ForwardInv /\ HookInv

-----------------------------------------------------------------------------
(* The webhook: what a step of one call must respect *)

\* Call h becomes the given one and the others stay.
Becomes(h, new) == hook' = [hook EXCEPT ![h] = new]

LEMMA BecomesTypes ==
  ASSUME MailTypes, NEW h \in Handlers, NEW new \in Hooks, Becomes(h, new)
  PROVE  /\ hook' \in [Handlers -> Hooks] /\ hook'[h] = new
         /\ \A i \in Handlers : i # h => hook'[i] = hook[i]
BY DEF MailTypes, Becomes

\* The record a move to another step makes of a call.
LEMMA GoesBecomes ==
  ASSUME MailTypes, NEW h \in Handlers, hook[h].pc # "idle",
         NEW step \in {"resolving", "forwarding", "sending", "marking", "failing", "alerting",
                       "alerted", "done"},
         NEW e \in BOOLEAN
  PROVE  /\ [pc |-> step, mail |-> MailOf(h), error |-> e] \in Hooks
         /\ hook' = [hook EXCEPT ![h].pc = step, ![h].error = e]
              => Becomes(h, [pc |-> step, mail |-> MailOf(h), error |-> e])
         /\ HookGoes(h, step) /\ e = hook[h].error
              => Becomes(h, [pc |-> step, mail |-> MailOf(h), error |-> e])
<1> DEFINE r == hook[h]
<1>1. hook \in [Handlers -> Hooks] /\ r \in Hooks /\ MailOf(h) \in Messages /\ r.mail = MailOf(h)
  BY DEF MailTypes, MailOf
<1>2. hook' = [hook EXCEPT ![h].pc = step, ![h].error = e]
        => hook' = [hook EXCEPT ![h] = [r EXCEPT !.pc = step, !.error = e]]
  BY <1>1
<1>3. HookGoes(h, step) => hook' = [hook EXCEPT ![h] = [r EXCEPT !.pc = step]]
  BY <1>1 DEF HookGoes
<1> HIDE DEF r
<1>4. r = [pc |-> r.pc, mail |-> MailOf(h), error |-> r.error]
  BY <1>1 DEF Hooks
<1>5. [r EXCEPT !.pc = step] = [pc |-> step, mail |-> MailOf(h), error |-> r.error]
  BY <1>4
<1>6. [r EXCEPT !.pc = step, !.error = e]
        = [[r EXCEPT !.pc = step] EXCEPT !.error = e]
  BY <1>4
<1>7. [r EXCEPT !.pc = step, !.error = e] = [pc |-> step, mail |-> MailOf(h), error |-> e]
  <2> DEFINE x == [r EXCEPT !.pc = step]
  <2>1. x = [pc |-> step, mail |-> MailOf(h), error |-> r.error]
    BY <1>5
  <2>2. [r EXCEPT !.pc = step, !.error = e] = [x EXCEPT !.error = e]
    BY <1>6
  <2> HIDE DEF x
  <2>3. [x EXCEPT !.error = e] = [pc |-> step, mail |-> MailOf(h), error |-> e]
    BY <2>1
  <2> QED
    BY <2>2, <2>3
<1>8. [pc |-> step, mail |-> MailOf(h), error |-> e] \in Hooks
  BY <1>1 DEF Hooks
<1>9. hook' = [hook EXCEPT ![h].pc = step, ![h].error = e]
        => Becomes(h, [pc |-> step, mail |-> MailOf(h), error |-> e])
  BY <1>2, <1>7 DEF Becomes
<1>10. HookGoes(h, step) /\ e = r.error
        => Becomes(h, [pc |-> step, mail |-> MailOf(h), error |-> e])
  BY <1>3, <1>5 DEF Becomes
<1> QED
  BY <1>8, <1>9, <1>10 DEF r

\* A call that works under no claim before or after its step.
LEMMA QuietForward ==
  ASSUME MailInv, NEW h \in Handlers, NEW new \in Hooks, Becomes(h, new),
         ~ AtWork(h), new.pc \notin {"sending", "marking", "failing"},
         UNCHANGED <<forwarding, copies, unsure, mailTime>>, abandoned \subseteq abandoned',
         new.pc # "idle" => new.mail \in Messages
  PROVE  MailTypes' /\ ForwardInv'
<1>1. /\ hook' \in [Handlers -> Hooks] /\ hook'[h] = new
      /\ \A i \in Handlers : i # h => hook'[i] = hook[i]
  BY BecomesTypes DEF MailInv
<1>2. \A i \in Handlers :
        /\ AtWork(i)' <=> AtWork(i)
        /\ AtWork(i) => MailOf(i)' = MailOf(i)
        /\ hook'[i].pc = "marking" <=> hook[i].pc = "marking"
        /\ hook[i].pc = "marking" => MailOf(i)' = MailOf(i)
  BY <1>1 DEF AtWork, MailOf
<1>3. MailTypes'
  BY <1>1 DEF MailInv, MailTypes, MailOf
<1>4. WorkersApart' /\ WorkersClaim'
  BY <1>2 DEF MailInv, ForwardInv, WorkersApart, WorkersClaim
<1>5. CopiesTold' /\ OneCopy' /\ ClaimsLeft'
  BY <1>2 DEF MailInv, ForwardInv, CopiesTold, OneCopy, ClaimsLeft, InHook
<1> QED
  BY <1>3, <1>4, <1>5 DEF ForwardInv

\* What a step of a call may do with the mail it is about.
LEMMA HookMoves ==
  ASSUME MailInv, NEW h \in Handlers, NEW new \in Hooks, Becomes(h, new),
         \A m \in Messages : Settled(m) => SettledAfter(m),
         stored \subseteq stored', owed \cup stored \subseteq owed' \cup stored',
         new.pc # "idle" => new.mail \in owed' \cup stored' /\ new.mail \in Messages,
         new.pc \notin {"idle", "called"} => new.mail \in stored',
         new.pc = "done" /\ IsReceipt(new.mail) => SettledAfter(new.mail),
         new.pc \in {"alerting", "alerted"} => ~ IsReceipt(new.mail),
         \A m \in stored' \ owed' : m \in stored \ owed \/ (IsReceipt(m) => SettledAfter(m))
  PROVE  HookInv'
<1>1. /\ hook' \in [Handlers -> Hooks] /\ hook'[h] = new
      /\ \A i \in Handlers : i # h => hook'[i] = hook[i]
  BY BecomesTypes DEF MailInv
<1>2. HooksStored'
  BY <1>1 DEF MailInv, HookInv, HooksStored, MailOf
<1>3. \A i \in Handlers : hook[i].pc # "idle" => MailOf(i) \in Messages
  BY DEF MailInv, MailTypes
<1>4. ReceiptsSettled'
  <2> SUFFICES ASSUME NEW i \in Handlers
               PROVE  /\ hook'[i].pc = "done" /\ IsReceipt(hook'[i].mail) => SettledAfter(hook'[i].mail)
                      /\ hook'[i].pc \in {"alerting", "alerted"} => ~ IsReceipt(hook'[i].mail)
    BY DEF ReceiptsSettled, InHook, MailOf, Settled, SettledAfter, IsReceipt, Receipts
  <2>3. CASE i = h
    BY <1>1, <2>3
  <2>4. CASE i # h
    <3>1. hook'[i] = hook[i]
      BY <1>1, <2>4
    <3>2. /\ hook[i].pc = "done" /\ IsReceipt(hook[i].mail) => Settled(hook[i].mail)
          /\ hook[i].pc \in {"alerting", "alerted"} => ~ IsReceipt(hook[i].mail)
      BY DEF MailInv, HookInv, ReceiptsSettled, InHook, MailOf
    <3>3. hook[i].pc = "done" => hook[i].mail \in Messages
      BY <1>3 DEF MailOf
    <3> QED
      BY <3>1, <3>2, <3>3
  <2> QED
    BY <2>3, <2>4
<1>5. ForwardedOrLeft'
  BY DEF MailInv, HookInv, ForwardedOrLeft, Settled, SettledAfter, IsReceipt, Receipts
<1> QED
  BY <1>2, <1>4, <1>5 DEF HookInv

\* Nothing is forgotten about a mail that forwarding is done with.
LEMMA SettledStays ==
  ASSUME MailTypes, abandoned \subseteq abandoned', overlapped \subseteq overlapped',
         \A m \in Messages : forwarding[m].done => forwarding'[m].done
  PROVE  \A m \in Messages : Settled(m) => SettledAfter(m)
BY DEF Settled, SettledAfter

-----------------------------------------------------------------------------
(* The webhook: the steps outside a claim *)

LEMMA MailArrivesInv ==
  ASSUME MailInv, NEW m \in Messages, MailArrives(m) PROVE MailInv'
<1>1. UNCHANGED <<hook, forwarding, copies, unsure, mailTime, abandoned, overlapped, stored>>
      /\ owed' = owed \cup {m}
  BY DEF MailArrives
<1>2. MailTypes'
  BY <1>1 DEF MailInv, MailTypes, MailOf
<1>3. ForwardInv'
  BY <1>1 DEF MailInv, ForwardInv, WorkersApart, WorkersClaim, CopiesTold, OneCopy, ClaimsLeft,
              AtWork, MailOf, InHook
<1>4. HookInv'
  BY <1>1 DEF MailInv, HookInv, HooksStored, ReceiptsSettled, ForwardedOrLeft, MailOf, InHook,
              Settled, IsReceipt, Receipts
<1> QED
  BY <1>2, <1>3, <1>4 DEF MailInv

LEMMA IdleHookType == IdleHook \in Hooks /\ IdleHook.pc = "idle"
BY DEF IdleHook, Hooks

\* A step outside a claim, in one piece.
LEMMA QuietMove ==
  ASSUME MailInv, NEW h \in Handlers, NEW new \in Hooks, Becomes(h, new),
         ~ AtWork(h), new.pc \notin {"sending", "marking", "failing"},
         UNCHANGED <<forwarding, copies, unsure, mailTime>>,
         abandoned \subseteq abandoned', overlapped \subseteq overlapped',
         stored \subseteq stored', owed \cup stored \subseteq owed' \cup stored',
         new.pc # "idle" => new.mail \in owed' \cup stored' /\ new.mail \in Messages,
         new.pc \notin {"idle", "called"} => new.mail \in stored',
         new.pc = "done" /\ IsReceipt(new.mail) => SettledAfter(new.mail),
         new.pc \in {"alerting", "alerted"} => ~ IsReceipt(new.mail),
         \A m \in stored' \ owed' : m \in stored \ owed \/ (IsReceipt(m) => SettledAfter(m))
  PROVE  MailInv'
<1>1. MailTypes' /\ ForwardInv'
  BY QuietForward
<1>2. \A m \in Messages : Settled(m) => SettledAfter(m)
  BY DEF Settled, SettledAfter
<1>3. HookInv'
  BY <1>2, HookMoves
<1> QED
  BY <1>1, <1>3 DEF MailInv

LEMMA DeliversInv ==
  ASSUME MailInv, NEW h \in Handlers, NEW m \in Messages, Delivers(h, m) PROVE MailInv'
<1> DEFINE new == [pc |-> "called", mail |-> m, error |-> FALSE]
<1>1. new \in Hooks /\ new.pc = "called" /\ new.mail = m
  BY DEF Hooks
<1>2. Becomes(h, new) /\ ~ AtWork(h)
  BY DEF Delivers, Becomes, AtWork, InHook
<1> HIDE DEF new
<1> QED
  BY <1>1, <1>2, QuietMove DEF Delivers

\* What holds of the mail of a call that is at work on it in any way.
LEMMA MailOfCall ==
  ASSUME MailInv, NEW h \in Handlers, hook[h].pc # "idle"
  PROVE  /\ MailOf(h) \in Messages /\ MailOf(h) \in owed \cup stored /\ hook[h].error \in BOOLEAN
         /\ hook[h].pc # "called" => MailOf(h) \in stored
         /\ hook[h].pc = "done" /\ IsReceipt(MailOf(h)) => Settled(MailOf(h))
         /\ hook[h].pc \in {"alerting", "alerted"} => ~ IsReceipt(MailOf(h))
<1>1. hook[h] \in Hooks
  BY DEF MailInv, MailTypes
<1>2. hook[h].error \in BOOLEAN
  BY <1>1 DEF Hooks
<1> QED
  BY <1>2 DEF MailInv, MailTypes, HookInv, HooksStored, ReceiptsSettled, InHook

\* A call moves on, outside a claim, and writes nothing.
LEMMA QuietStep ==
  ASSUME MailInv, NEW h \in Handlers, hook[h].pc # "idle", ~ AtWork(h),
         NEW step \in {"resolving", "forwarding", "alerting", "alerted", "done"},
         NEW e \in BOOLEAN, Becomes(h, [pc |-> step, mail |-> MailOf(h), error |-> e]),
         [pc |-> step, mail |-> MailOf(h), error |-> e] \in Hooks,
         UNCHANGED <<forwarding, copies, unsure, mailTime, owed, abandoned>>,
         stored' = stored \cup {MailOf(h)}, overlapped \subseteq overlapped',
         step = "done" /\ IsReceipt(MailOf(h)) => Settled(MailOf(h)) \/ MailOf(h) \in overlapped',
         step \in {"alerting", "alerted"} => ~ IsReceipt(MailOf(h))
  PROVE  MailInv'
<1> DEFINE m == MailOf(h)
           new == [pc |-> step, mail |-> m, error |-> e]
<1>1. m \in Messages /\ m \in owed \cup stored
  BY MailOfCall
<1>2. new \in Hooks /\ Becomes(h, new) /\ new.pc = step /\ new.mail = m
  OBVIOUS
<1>3. step = "done" /\ IsReceipt(m) => Settled(m) \/ m \in overlapped'
  OBVIOUS
<1>4. step \in {"alerting", "alerted"} => ~ IsReceipt(m)
  OBVIOUS
<1>5. stored' = stored \cup {m}
  OBVIOUS
<1> HIDE DEF m, new
<1>6. step = "done" /\ IsReceipt(m) => SettledAfter(m)
  BY <1>3 DEF Settled, SettledAfter
<1>7. new.pc = "done" /\ IsReceipt(new.mail) => SettledAfter(new.mail)
  BY <1>2, <1>6
<1>8. \A x \in stored' \ owed' : x \in stored \ owed
  BY <1>1, <1>5
<1>9. stored \subseteq stored' /\ owed \cup stored \subseteq owed' \cup stored'
  BY <1>5
<1>10. /\ new.pc # "idle" => new.mail \in owed' \cup stored' /\ new.mail \in Messages
       /\ new.pc \notin {"idle", "called"} => new.mail \in stored'
       /\ new.pc \in {"alerting", "alerted"} => ~ IsReceipt(new.mail)
       /\ new.pc \notin {"sending", "marking", "failing"}
  BY <1>1, <1>2, <1>4, <1>5
<1> QED
  BY <1>2, <1>7, <1>8, <1>9, <1>10, QuietMove

LEMMA StoresInv ==
  ASSUME MailInv, NEW h \in Handlers, Stores(h) PROVE MailInv'
<1>1. hook[h].pc = "called" /\ ~ AtWork(h) /\ hook[h].pc # "idle"
  BY DEF Stores, InHook, AtWork
<1>2. hook[h].error \in BOOLEAN
  BY <1>1, MailOfCall
<1>3. CASE IsReceipt(MailOf(h))
  <2>1. HookGoes(h, "resolving")
    BY <1>3 DEF Stores, AfterStoring
  <2>2. /\ Becomes(h, [pc |-> "resolving", mail |-> MailOf(h), error |-> hook[h].error])
        /\ [pc |-> "resolving", mail |-> MailOf(h), error |-> hook[h].error] \in Hooks
    BY <1>1, <1>2, <2>1, GoesBecomes DEF MailInv
  <2> QED
    BY <1>1, <1>2, <2>2, QuietStep DEF Stores
<1>4. CASE ~ IsReceipt(MailOf(h))
  <2>1. HookGoes(h, "alerting")
    BY <1>4 DEF Stores, AfterStoring
  <2>2. /\ Becomes(h, [pc |-> "alerting", mail |-> MailOf(h), error |-> hook[h].error])
        /\ [pc |-> "alerting", mail |-> MailOf(h), error |-> hook[h].error] \in Hooks
    BY <1>1, <1>2, <2>1, GoesBecomes DEF MailInv
  <2> QED
    BY <1>1, <1>2, <1>4, <2>2, QuietStep DEF Stores
<1> QED
  BY <1>3, <1>4

LEMMA ResolvesInv ==
  ASSUME MailInv, NEW h \in Handlers, Resolves(h) PROVE MailInv'
<1>1. hook[h].pc = "resolving" /\ ~ AtWork(h) /\ hook[h].pc # "idle"
  BY DEF Resolves, InHook, AtWork
<1>2. hook[h].error \in BOOLEAN /\ stored = stored \cup {MailOf(h)}
  BY <1>1, MailOfCall
<1>3. PICK e \in BOOLEAN :
        \/ HookGoes(h, "forwarding") /\ e = hook[h].error
        \/ hook' = [hook EXCEPT ![h].pc = "forwarding", ![h].error = e]
  BY <1>2 DEF Resolves
<1>4. /\ Becomes(h, [pc |-> "forwarding", mail |-> MailOf(h), error |-> e])
      /\ [pc |-> "forwarding", mail |-> MailOf(h), error |-> e] \in Hooks
  BY <1>1, <1>3, GoesBecomes DEF MailInv
<1> QED
  BY <1>1, <1>2, <1>4, QuietStep DEF Resolves

LEMMA AlertsInv ==
  ASSUME MailInv, NEW h \in Handlers, Alerts(h) \/ Alerted(h) PROVE MailInv'
<1>1. hook[h].pc \in {"alerting", "alerted"} /\ ~ AtWork(h) /\ hook[h].pc # "idle"
  BY DEF Alerts, Alerted, InHook, AtWork
<1>2. /\ hook[h].error \in BOOLEAN /\ stored = stored \cup {MailOf(h)}
      /\ ~ IsReceipt(MailOf(h))
  BY <1>1, MailOfCall
<1>3. PICK step \in {"alerted", "done"} : HookGoes(h, step)
  BY DEF Alerts, Alerted
<1>4. /\ Becomes(h, [pc |-> step, mail |-> MailOf(h), error |-> hook[h].error])
      /\ [pc |-> step, mail |-> MailOf(h), error |-> hook[h].error] \in Hooks
  BY <1>1, <1>2, <1>3, GoesBecomes DEF MailInv
<1>5. UNCHANGED <<forwarding, copies, unsure, mailTime, owed, abandoned, stored, overlapped>>
  BY DEF Alerts, Alerted, mailVars
<1> QED
  BY <1>1, <1>2, <1>4, <1>5, QuietStep

LEMMA AnswersInv ==
  ASSUME MailInv, NEW h \in Handlers, Answers(h) PROVE MailInv'
<1>1. hook[h].pc = "done" /\ ~ AtWork(h)
  BY DEF Answers, InHook, AtWork
<1>2. PICK m \in Messages : m = MailOf(h)
  BY <1>1, MailOfCall
<1>3. m \in stored /\ (IsReceipt(m) => Settled(m))
  BY <1>1, <1>2, MailOfCall
<1>4. Becomes(h, IdleHook) /\ UNCHANGED <<stored, forwarding, mailTime, copies, unsure, abandoned, overlapped>>
  BY DEF Answers, Becomes
<1>5. owed' = owed \/ owed' = owed \ {m}
  BY <1>2 DEF Answers
<1>6. \A x \in stored' \ owed' : x \in stored \ owed \/ (IsReceipt(x) => SettledAfter(x))
  BY <1>3, <1>4, <1>5 DEF Settled, SettledAfter
<1>7. owed \cup stored \subseteq owed' \cup stored'
  BY <1>3, <1>4, <1>5
<1> QED
  BY <1>1, <1>4, <1>6, <1>7, IdleHookType, QuietMove

LEMMA MailTickInv ==
  ASSUME MailInv, MailTick PROVE MailInv'
<1>1. \A h \in Handlers : ~ AtWork(h)
  <2> SUFFICES ASSUME NEW h \in Handlers, AtWork(h) PROVE FALSE
    OBVIOUS
  <2>1. MailOf(h) \in Messages /\ h \in AtWorkOn(MailOf(h))
    BY MailOfCall DEF AtWork, AtWorkOn
  <2> QED
    BY <2>1 DEF MailTick
<1>2. /\ UNCHANGED <<owed, stored, forwarding, hook, copies, unsure, abandoned, overlapped>>
      /\ mailTime' = mailTime + 1
  BY DEF MailTick
<1>3. MailTypes'
  BY <1>2 DEF MailInv, MailTypes, MailOf
<1>4. ForwardInv'
  BY <1>1, <1>2 DEF MailInv, ForwardInv, WorkersApart, WorkersClaim, CopiesTold, OneCopy,
                    ClaimsLeft, AtWork, MailOf, InHook
<1>5. HookInv'
  BY <1>2 DEF MailInv, HookInv, HooksStored, ReceiptsSettled, ForwardedOrLeft, MailOf, InHook,
              Settled, IsReceipt, Receipts
<1> QED
  BY <1>3, <1>4, <1>5 DEF MailInv

-----------------------------------------------------------------------------
(* The webhook: forwarding under a claim *)

\* The types of what forwarding writes.
LEMMA ForwardingTypes ==
  ASSUME MailTypes, NEW m \in Messages
  PROVE  /\ forwarding[m].done \in BOOLEAN /\ forwarding[m].claimed \in Nat
         /\ copies[m] \in Nat /\ unsure[m] \in Nat /\ mailTime \in Nat \ {0}
         /\ forwarding[m] = [done |-> forwarding[m].done, claimed |-> forwarding[m].claimed]
<1>1. forwarding[m] \in [done : BOOLEAN, claimed : Nat]
  BY DEF MailTypes
<1>2. copies[m] \in Nat /\ unsure[m] \in Nat /\ mailTime \in Nat \ {0}
  BY DEF MailTypes
<1> QED
  BY <1>1, <1>2

LEMMA ForwardingFields ==
  ASSUME NEW r \in [done : BOOLEAN, claimed : Nat], NEW d, NEW c
  PROVE  /\ [r EXCEPT !.claimed = c] = [done |-> r.done, claimed |-> c]
         /\ [r EXCEPT !.done = d] = [done |-> d, claimed |-> r.claimed]
<1>1. r = [done |-> r.done, claimed |-> r.claimed]
  OBVIOUS
<1> QED
  BY <1>1

\* A call that writes the forwarding of its mail alone.
LEMMA ForwardWrite ==
  ASSUME MailTypes, NEW m \in Messages, NEW d \in BOOLEAN, NEW c \in Nat,
         forwarding' = [forwarding EXCEPT ![m] = [done |-> d, claimed |-> c]]
  PROVE  /\ forwarding' \in [Messages -> [done : BOOLEAN, claimed : Nat]]
         /\ forwarding'[m].done = d /\ forwarding'[m].claimed = c
         /\ \A x \in Messages : x # m => forwarding'[x] = forwarding[x]
BY DEF MailTypes

LEMMA ClaimsForwardingInv ==
  ASSUME MailInv, NEW h \in Handlers, ClaimsForwarding(h) PROVE MailInv'
<1>1. hook[h].pc = "forwarding" /\ ~ AtWork(h) /\ hook[h].pc # "idle"
  BY DEF ClaimsForwarding, InHook, AtWork
<1>2. /\ hook[h].error \in BOOLEAN /\ stored = stored \cup {MailOf(h)}
      /\ MailOf(h) \in Messages /\ MailOf(h) \in stored
  BY <1>1, MailOfCall
<1>3. CASE ~ Claimable(MailOf(h))
  <2>1. /\ HookGoes(h, "done")
        /\ UNCHANGED <<forwarding, copies, unsure, mailTime, owed, abandoned, stored>>
        /\ overlapped' = IF AtWorkOn(MailOf(h)) # {} THEN overlapped \cup {MailOf(h)} ELSE overlapped
    BY <1>3 DEF ClaimsForwarding
  <2>2. /\ Becomes(h, [pc |-> "done", mail |-> MailOf(h), error |-> hook[h].error])
        /\ [pc |-> "done", mail |-> MailOf(h), error |-> hook[h].error] \in Hooks
    BY <1>1, <1>2, <2>1, GoesBecomes DEF MailInv
  <2>3. Settled(MailOf(h)) \/ MailOf(h) \in overlapped'
    <3>1. CASE AtWorkOn(MailOf(h)) # {}
      BY <2>1, <3>1
    <3>2. CASE AtWorkOn(MailOf(h)) = {} /\ ~ forwarding[MailOf(h)].done
      <4>1. forwarding[MailOf(h)].claimed # 0
        BY <1>3, <3>2 DEF Claimable
      <4>2. \A i \in Handlers : AtWork(i) => MailOf(i) # MailOf(h)
        BY <3>2 DEF AtWork, AtWorkOn
      <4>3. MailOf(h) \in abandoned
        BY <1>2, <3>2, <4>1, <4>2 DEF MailInv, ForwardInv, ClaimsLeft
      <4> QED
        BY <4>3 DEF Settled
    <3>3. CASE forwarding[MailOf(h)].done
      BY <3>3 DEF Settled
    <3> QED
      BY <3>1, <3>2, <3>3
  <2>4. overlapped \subseteq overlapped'
    BY <2>1
  <2> QED
    BY <1>1, <1>2, <2>1, <2>2, <2>3, <2>4, QuietStep
<1>4. CASE Claimable(MailOf(h))
  <2>1. PICK m \in Messages : m = MailOf(h)
    BY <1>2
  <2>2. PICK new : new = [pc |-> "sending", mail |-> m, error |-> hook[h].error]
    OBVIOUS
  <2>3. /\ HookGoes(h, "sending")
        /\ forwarding' = [forwarding EXCEPT ![m].claimed = mailTime]
        /\ UNCHANGED <<copies, unsure, mailTime, owed, abandoned, overlapped, stored>>
    BY <1>4, <2>1 DEF ClaimsForwarding
  <2>4. new \in Hooks /\ Becomes(h, new) /\ new.pc = "sending" /\ new.mail = m
    BY <1>1, <1>2, <2>1, <2>2, <2>3, GoesBecomes DEF MailInv
  <2>5. /\ hook' \in [Handlers -> Hooks] /\ hook'[h] = new
        /\ \A i \in Handlers : i # h => hook'[i] = hook[i]
    BY <2>4, BecomesTypes DEF MailInv
  <2>6. /\ ~ forwarding[m].done /\ forwarding[m].claimed \in Nat /\ mailTime \in Nat \ {0}
        /\ forwarding[m] = [done |-> FALSE, claimed |-> forwarding[m].claimed]
    BY <1>4, <2>1, ForwardingTypes DEF MailInv, Claimable
  <2>7. forwarding[m].claimed # mailTime
    BY <1>4, <2>1, <2>6, MailAssumption DEF Claimable
  <2>8. \A i \in Handlers : AtWork(i) => MailOf(i) # m
    BY <2>7 DEF MailInv, ForwardInv, WorkersClaim
  <2>9. forwarding' = [forwarding EXCEPT ![m] = [done |-> FALSE, claimed |-> mailTime]]
    <3>1. [forwarding[m] EXCEPT !.claimed = mailTime] = [done |-> FALSE, claimed |-> mailTime]
      <4> DEFINE r == forwarding[m]
      <4>1. r \in [done : BOOLEAN, claimed : Nat] /\ r.done = FALSE
        BY <2>6 DEF MailInv, MailTypes
      <4> HIDE DEF r
      <4>2. [r EXCEPT !.claimed = mailTime] = [done |-> FALSE, claimed |-> mailTime]
        BY <4>1, ForwardingFields
      <4> QED
        BY <4>2 DEF r
    <3> QED
      BY <2>3, <3>1
  <2>10. /\ forwarding' \in [Messages -> [done : BOOLEAN, claimed : Nat]]
         /\ forwarding'[m].done = FALSE /\ forwarding'[m].claimed = mailTime
         /\ \A x \in Messages : x # m => forwarding'[x] = forwarding[x]
    BY <2>6, <2>9, ForwardWrite DEF MailInv
  <2>11. /\ \A i \in Handlers : i # h => (AtWork(i)' <=> AtWork(i))
         /\ AtWork(h)' /\ MailOf(h)' = m
         /\ \A i \in Handlers : i # h => MailOf(i)' = MailOf(i)
         /\ \A i \in Handlers : hook'[i].pc = "marking" <=> hook[i].pc = "marking"
    BY <1>1, <2>4, <2>5 DEF AtWork, MailOf
  <2>12. MailTypes'
    BY <2>3, <2>4, <2>5, <2>10 DEF MailInv, MailTypes, MailOf
  <2>13. WorkersApart'
    BY <2>8, <2>11 DEF MailInv, ForwardInv, WorkersApart
  <2>14. WorkersClaim'
    <3> SUFFICES ASSUME NEW i \in Handlers, AtWork(i)'
                 PROVE  /\ forwarding'[MailOf(i)'].claimed = mailTime'
                        /\ ~ forwarding'[MailOf(i)'].done
      BY DEF WorkersClaim
    <3>1. CASE i = h
      BY <2>3, <2>10, <2>11, <3>1
    <3>2. CASE i # h
      <4>1. AtWork(i) /\ MailOf(i)' = MailOf(i) /\ MailOf(i) # m /\ MailOf(i) \in Messages
        BY <2>8, <2>11, <3>2 DEF MailInv, MailTypes, AtWork
      <4> QED
        BY <2>3, <2>10, <4>1 DEF MailInv, ForwardInv, WorkersClaim
    <3> QED
      BY <3>1, <3>2
  <2>15. CopiesTold'
    <3> SUFFICES ASSUME NEW x \in Messages, ~ forwarding'[x].done,
                        \A i \in Handlers : MailOf(i)' = x => hook'[i].pc # "marking"
                 PROVE  copies[x] <= unsure[x]
      BY <2>3 DEF CopiesTold, InHook
    <3>1. ~ forwarding[x].done
      BY <2>6, <2>10
    <3>2. \A i \in Handlers : MailOf(i) = x => hook[i].pc # "marking"
      BY <1>1, <2>11
    <3> QED
      BY <3>1, <3>2 DEF MailInv, ForwardInv, CopiesTold, InHook
  <2>16. OneCopy'
    BY <2>3 DEF MailInv, ForwardInv, OneCopy
  <2>17. ClaimsLeft'
    <3> SUFFICES ASSUME NEW x \in Messages, x \notin abandoned,
                        forwarding'[x].claimed # 0, ~ forwarding'[x].done
                 PROVE  \E i \in Handlers : AtWork(i)' /\ MailOf(i)' = x
      BY <2>3 DEF ClaimsLeft
    <3>1. CASE x = m
      BY <2>11, <3>1
    <3>2. CASE x # m
      <4>1. forwarding'[x] = forwarding[x]
        BY <2>10, <3>2
      <4>2. PICK i \in Handlers : AtWork(i) /\ MailOf(i) = x
        BY <4>1 DEF MailInv, ForwardInv, ClaimsLeft
      <4> QED
        BY <1>1, <2>11, <4>2
    <3> QED
      BY <3>1, <3>2
  <2>18. HookInv'
    <3>1. \A x \in Messages : Settled(x) => SettledAfter(x)
      BY <2>3, <2>6, <2>10 DEF Settled, SettledAfter
    <3>2. /\ stored \subseteq stored' /\ owed \cup stored \subseteq owed' \cup stored'
          /\ \A x \in stored' \ owed' : x \in stored \ owed
          /\ new.mail \in owed' \cup stored' /\ new.mail \in stored'
      BY <1>2, <2>1, <2>3, <2>4
    <3> QED
      BY <2>4, <3>1, <3>2, HookMoves
  <2> QED
    BY <2>12, <2>13, <2>14, <2>15, <2>16, <2>17, <2>18 DEF MailInv, ForwardInv
<1> QED
  BY <1>3, <1>4

\* A call at work moves to another step of its work, or ends it; what that makes of the
\* claims of other calls and mails.
LEMMA WorkerMoves ==
  ASSUME MailInv, NEW h \in Handlers, NEW m \in Messages, m = MailOf(h), AtWork(h),
         NEW new \in Hooks, Becomes(h, new), new.pc = "idle" \/ new.mail = m
  PROVE  /\ hook' \in [Handlers -> Hooks] /\ hook'[h] = new
         /\ \A i \in Handlers : i # h => hook'[i] = hook[i]
         /\ \A i \in Handlers : i # h /\ AtWork(i) => MailOf(i) # m
         /\ \A i \in Handlers : i # h => (AtWork(i)' <=> AtWork(i)) /\ MailOf(i)' = MailOf(i)
         /\ \A i \in Handlers : hook'[i].pc # "idle" => MailOf(i)' \in Messages
         /\ ~ forwarding[m].done /\ forwarding[m].claimed = mailTime
         /\ m \in stored
<1>1. /\ hook' \in [Handlers -> Hooks] /\ hook'[h] = new
      /\ \A i \in Handlers : i # h => hook'[i] = hook[i]
  BY BecomesTypes DEF MailInv
<1>2. \A i \in Handlers : i # h /\ AtWork(i) => MailOf(i) # m
  BY DEF MailInv, ForwardInv, WorkersApart
<1>3. \A i \in Handlers : i # h => (AtWork(i)' <=> AtWork(i)) /\ MailOf(i)' = MailOf(i)
  BY <1>1 DEF AtWork, MailOf
<1>4. \A i \in Handlers : hook'[i].pc # "idle" => MailOf(i)' \in Messages
  BY <1>1 DEF MailInv, MailTypes, MailOf
<1>5. ~ forwarding[m].done /\ forwarding[m].claimed = mailTime
  BY DEF MailInv, ForwardInv, WorkersClaim
<1>6. m \in stored
  BY MailOfCall DEF AtWork
<1> QED
  BY <1>1, <1>2, <1>3, <1>4, <1>5, <1>6

\* The whole invariant from what a call at work writes: its mail's copies and doubts, the end
\* of its claim, and what it leaves behind.
LEMMA WorkerWrites ==
  ASSUME MailInv, NEW h \in Handlers, NEW m \in Messages, m = MailOf(h), AtWork(h),
         NEW new \in Hooks, Becomes(h, new), new.pc = "idle" \/ new.mail = m,
         new.pc \in {"idle", "done", "marking", "failing"},
         UNCHANGED <<owed, stored, mailTime, overlapped>>,
         abandoned \subseteq abandoned', abandoned' \subseteq abandoned \cup {m},
         NEW d \in BOOLEAN, NEW k \in Nat,
         forwarding' = [forwarding EXCEPT ![m] = [done |-> d, claimed |-> k]],
         new.pc \in {"marking", "failing"} => ~ d /\ k = mailTime,
         new.pc = "done" => d,
         new.pc = "idle" => k = 0 \/ m \in abandoned',
         NEW n \in Nat, NEW u \in Nat,
         copies' = [copies EXCEPT ![m] = n], unsure' = [unsure EXCEPT ![m] = u],
         n <= 1 + u, ~ d /\ new.pc # "marking" => n <= u
  PROVE  MailInv'
<1>1. /\ hook' \in [Handlers -> Hooks] /\ hook'[h] = new
      /\ \A i \in Handlers : i # h => hook'[i] = hook[i]
      /\ \A i \in Handlers : i # h /\ AtWork(i) => MailOf(i) # m
      /\ \A i \in Handlers : i # h => (AtWork(i)' <=> AtWork(i)) /\ MailOf(i)' = MailOf(i)
      /\ \A i \in Handlers : hook'[i].pc # "idle" => MailOf(i)' \in Messages
      /\ ~ forwarding[m].done /\ m \in stored
  BY WorkerMoves
<1>2. /\ forwarding' \in [Messages -> [done : BOOLEAN, claimed : Nat]]
      /\ forwarding'[m].done = d /\ forwarding'[m].claimed = k
      /\ \A x \in Messages : x # m => forwarding'[x] = forwarding[x]
  BY ForwardWrite DEF MailInv
<1>3. /\ copies' \in [Messages -> Nat] /\ copies'[m] = n
      /\ unsure' \in [Messages -> Nat] /\ unsure'[m] = u
      /\ \A x \in Messages : x # m => copies'[x] = copies[x] /\ unsure'[x] = unsure[x]
  BY DEF MailInv, MailTypes
<1>4. new.pc # "idle" => MailOf(h)' = m
  BY <1>1 DEF MailOf
<1>5. AtWork(h)' => new.pc \in {"marking", "failing"}
  BY <1>1 DEF AtWork
<1>6. MailTypes'
  BY <1>1, <1>2, <1>3 DEF MailInv, MailTypes
<1>7. WorkersApart'
  BY <1>1, <1>4, <1>5 DEF MailInv, ForwardInv, WorkersApart
<1>8. WorkersClaim'
  <2> SUFFICES ASSUME NEW i \in Handlers, AtWork(i)'
               PROVE  /\ forwarding'[MailOf(i)'].claimed = mailTime'
                      /\ ~ forwarding'[MailOf(i)'].done
    BY DEF WorkersClaim
  <2>1. CASE i = h
    BY <1>2, <1>4, <1>5, <2>1
  <2>2. CASE i # h
    <3>1. AtWork(i) /\ MailOf(i)' = MailOf(i) /\ MailOf(i) # m /\ MailOf(i) \in Messages
      BY <1>1, <2>2 DEF MailInv, MailTypes, AtWork
    <3> QED
      BY <1>2, <3>1 DEF MailInv, ForwardInv, WorkersClaim
  <2> QED
    BY <2>1, <2>2
<1>9. CopiesTold'
  <2> SUFFICES ASSUME NEW x \in Messages, ~ forwarding'[x].done,
                      \A i \in Handlers : MailOf(i)' = x => hook'[i].pc # "marking"
               PROVE  copies'[x] <= unsure'[x]
    BY DEF CopiesTold, InHook
  <2>1. CASE x = m
    BY <1>1, <1>2, <1>3, <1>4, <2>1
  <2>2. CASE x # m
    <3>1. ~ forwarding[x].done
      BY <1>2, <2>2
    <3>2. \A i \in Handlers : MailOf(i) = x => hook[i].pc # "marking"
      BY <1>1, <2>2
    <3>3. copies[x] <= unsure[x]
      BY <3>1, <3>2 DEF MailInv, ForwardInv, CopiesTold, InHook
    <3> QED
      BY <1>3, <2>2, <3>3
  <2> QED
    BY <2>1, <2>2
<1>10. OneCopy'
  BY <1>3 DEF MailInv, ForwardInv, OneCopy
<1>11. ClaimsLeft'
  <2> SUFFICES ASSUME NEW x \in Messages, x \notin abandoned',
                      forwarding'[x].claimed # 0, ~ forwarding'[x].done
               PROVE  \E i \in Handlers : AtWork(i)' /\ MailOf(i)' = x
    BY DEF ClaimsLeft
  <2>1. CASE x = m
    <3>1. new.pc \in {"marking", "failing"}
      BY <1>2, <2>1
    <3> QED
      BY <1>1, <1>4, <2>1, <3>1 DEF AtWork
  <2>2. CASE x # m
    <3>1. forwarding'[x] = forwarding[x]
      BY <1>2, <2>2
    <3>2. PICK i \in Handlers : AtWork(i) /\ MailOf(i) = x
      BY <3>1 DEF MailInv, ForwardInv, ClaimsLeft
    <3> QED
      BY <1>1, <2>2, <3>2
  <2> QED
    BY <2>1, <2>2
<1>12. HookInv'
  <2>1. \A x \in Messages : Settled(x) => SettledAfter(x)
    <3> SUFFICES ASSUME NEW x \in Messages, Settled(x) PROVE SettledAfter(x)
      OBVIOUS
    <3>1. CASE x = m
      BY <1>1, <3>1 DEF Settled, SettledAfter
    <3>2. CASE x # m
      BY <1>2, <3>2 DEF Settled, SettledAfter
    <3> QED
      BY <3>1, <3>2
  <2>2. /\ stored \subseteq stored' /\ owed \cup stored \subseteq owed' \cup stored'
        /\ \A x \in stored' \ owed' : x \in stored \ owed
        /\ new.pc # "idle" => new.mail \in owed' \cup stored' /\ new.mail \in Messages
        /\ new.pc \notin {"idle", "called"} => new.mail \in stored'
    BY <1>1
  <2>3. new.pc = "done" => SettledAfter(m)
    BY <1>2 DEF SettledAfter
  <2>4. new.pc = "done" /\ IsReceipt(new.mail) => SettledAfter(new.mail)
    BY <2>3
  <2> QED
    BY <2>1, <2>2, <2>4, HookMoves
<1> QED
  BY <1>6, <1>7, <1>8, <1>9, <1>10, <1>11, <1>12 DEF MailInv, ForwardInv

\* What a call at work finds of its mail.
LEMMA WorkerFinds ==
  ASSUME MailInv, NEW h \in Handlers, NEW m \in Messages, m = MailOf(h), AtWork(h)
  PROVE  /\ forwarding[m] = [done |-> FALSE, claimed |-> mailTime]
         /\ forwarding = [forwarding EXCEPT ![m] = [done |-> FALSE, claimed |-> mailTime]]
         /\ copies = [copies EXCEPT ![m] = copies[m]] /\ copies[m] \in Nat
         /\ unsure = [unsure EXCEPT ![m] = unsure[m]] /\ unsure[m] \in Nat
         /\ copies[m] <= 1 + unsure[m] /\ mailTime \in Nat
         /\ hook[h].pc # "marking" => copies[m] <= unsure[m]
<1>1. /\ copies[m] \in Nat /\ unsure[m] \in Nat /\ mailTime \in Nat
      /\ forwarding[m] = [done |-> forwarding[m].done, claimed |-> forwarding[m].claimed]
      /\ forwarding[m].done \in BOOLEAN
  BY ForwardingTypes DEF MailInv
<1>2. ~ forwarding[m].done /\ forwarding[m].claimed = mailTime
  BY DEF MailInv, ForwardInv, WorkersClaim
<1>3. forwarding[m] = [done |-> FALSE, claimed |-> mailTime]
  BY <1>1, <1>2
<1>4. forwarding \in [Messages -> [done : BOOLEAN, claimed : Nat]]
      /\ copies \in [Messages -> Nat] /\ unsure \in [Messages -> Nat]
  BY DEF MailInv, MailTypes
<1>5. forwarding = [forwarding EXCEPT ![m] = forwarding[m]]
      /\ copies = [copies EXCEPT ![m] = copies[m]]
      /\ unsure = [unsure EXCEPT ![m] = unsure[m]]
  BY <1>4
<1>6. copies[m] <= 1 + unsure[m]
  BY DEF MailInv, ForwardInv, OneCopy
<1>7. ASSUME hook[h].pc # "marking" PROVE copies[m] <= unsure[m]
  <2>1. \A i \in Handlers : MailOf(i) = m => ~ InHook(i, "marking")
    BY <1>7 DEF MailInv, ForwardInv, WorkersApart, AtWork, InHook
  <2> QED
    BY <1>2, <2>1 DEF MailInv, ForwardInv, CopiesTold
<1> QED
  BY <1>1, <1>3, <1>5, <1>6, <1>7

\* A call at work takes its next step.
LEMMA WorkerGoes ==
  ASSUME MailInv, NEW h \in Handlers, AtWork(h), HookGoes(h, "marking") \/ HookGoes(h, "failing")
                                                 \/ HookGoes(h, "done")
  PROVE  \E new \in Hooks :
           /\ Becomes(h, new) /\ new.mail = MailOf(h)
           /\ \A step \in {"marking", "failing", "done"} : HookGoes(h, step) => new.pc = step
<1>1. hook[h].pc # "idle"
  BY DEF AtWork
<1>2. hook[h].error \in BOOLEAN
  BY <1>1, MailOfCall
<1>3. PICK step \in {"marking", "failing", "done"} : HookGoes(h, step)
  OBVIOUS
<1>4. PICK new : new = [pc |-> step, mail |-> MailOf(h), error |-> hook[h].error]
  OBVIOUS
<1>5. new \in Hooks /\ Becomes(h, new) /\ new.pc = step /\ new.mail = MailOf(h)
  BY <1>1, <1>2, <1>3, <1>4, GoesBecomes DEF MailInv
<1>6. \A other \in {"marking", "failing", "done"} : HookGoes(h, other) => other = step
  <2> SUFFICES ASSUME NEW other \in {"marking", "failing", "done"}, HookGoes(h, other)
               PROVE  other = step
    OBVIOUS
  <2>1. hook \in [Handlers -> Hooks] /\ hook[h] \in Hooks
    BY DEF MailInv, MailTypes
  <2>2. hook'[h].pc = step
    BY <1>3, <2>1 DEF HookGoes, Hooks
  <2>3. hook'[h].pc = other
    BY <2>1 DEF HookGoes, Hooks
  <2> QED
    BY <2>2, <2>3
<1> QED
  BY <1>5, <1>6

LEMMA ForwardsInv ==
  ASSUME MailInv, NEW h \in Handlers, Forwards(h) PROVE MailInv'
<1>1. hook[h].pc = "sending" /\ AtWork(h)
  BY DEF Forwards, InHook, AtWork
<1>2. PICK m \in Messages : m = MailOf(h)
  BY <1>1, MailOfCall
<1>3. /\ forwarding = [forwarding EXCEPT ![m] = [done |-> FALSE, claimed |-> mailTime]]
      /\ copies = [copies EXCEPT ![m] = copies[m]] /\ copies[m] \in Nat
      /\ unsure = [unsure EXCEPT ![m] = unsure[m]] /\ unsure[m] \in Nat
      /\ copies[m] <= unsure[m] /\ mailTime \in Nat
  BY <1>1, <1>2, WorkerFinds
<1>4. UNCHANGED <<owed, stored, forwarding, mailTime, abandoned, overlapped>>
  BY DEF Forwards
<1>5. PICK new \in Hooks :
        /\ Becomes(h, new) /\ new.mail = m
        /\ \A step \in {"marking", "failing", "done"} : HookGoes(h, step) => new.pc = step
  BY <1>1, <1>2, WorkerGoes DEF Forwards
<1>6. \E n, u \in Nat :
        /\ copies' = [copies EXCEPT ![m] = n] /\ unsure' = [unsure EXCEPT ![m] = u]
        /\ n <= 1 + u /\ (new.pc # "marking" => n <= u) /\ new.pc \in {"marking", "failing"}
  <2>1. CASE copies' = [copies EXCEPT ![m] = @ + 1] /\ HookGoes(h, "marking") /\ UNCHANGED unsure
    <3>1. copies[m] + 1 \in Nat /\ copies' = [copies EXCEPT ![m] = copies[m] + 1]
          /\ copies[m] + 1 <= 1 + unsure[m] /\ unsure' = [unsure EXCEPT ![m] = unsure[m]]
      BY <1>3, <2>1
    <3>2. new.pc = "marking"
      BY <1>5, <2>1
    <3> QED
      BY <1>3, <3>1, <3>2
  <2>2. CASE HookGoes(h, "failing") /\ UNCHANGED <<copies, unsure>>
    <3>1. new.pc = "failing" /\ copies[m] <= 1 + unsure[m]
          /\ copies' = [copies EXCEPT ![m] = copies[m]] /\ unsure' = [unsure EXCEPT ![m] = unsure[m]]
      BY <1>3, <1>5, <2>2
    <3> QED
      BY <1>3, <3>1
  <2>3. CASE /\ copies' = [copies EXCEPT ![m] = @ + 1] /\ unsure' = [unsure EXCEPT ![m] = @ + 1]
             /\ HookGoes(h, "failing")
    <3>1. /\ copies[m] + 1 \in Nat /\ copies' = [copies EXCEPT ![m] = copies[m] + 1]
          /\ unsure[m] + 1 \in Nat /\ unsure' = [unsure EXCEPT ![m] = unsure[m] + 1]
          /\ copies[m] + 1 <= unsure[m] + 1 /\ copies[m] + 1 <= 1 + (unsure[m] + 1)
      BY <1>3, <2>3
    <3>2. new.pc = "failing"
      BY <1>5, <2>3
    <3> QED
      BY <3>1, <3>2
  <2> QED
    BY <1>2, <2>1, <2>2, <2>3 DEF Forwards
<1>7. PICK n \in Nat, u \in Nat :
        /\ copies' = [copies EXCEPT ![m] = n] /\ unsure' = [unsure EXCEPT ![m] = u]
        /\ n <= 1 + u /\ (new.pc # "marking" => n <= u) /\ new.pc \in {"marking", "failing"}
  BY <1>6
<1> QED
  <2>1. forwarding' = [forwarding EXCEPT ![m] = [done |-> FALSE, claimed |-> mailTime]]
    BY <1>3, <1>4
  <2>2. FALSE \in BOOLEAN /\ ~ FALSE
    OBVIOUS
  <2> QED
    BY <1>1, <1>2, <1>3, <1>4, <1>5, <1>7, <2>1, <2>2, WorkerWrites

LEMMA MarksInv ==
  ASSUME MailInv, NEW h \in Handlers, Marks(h) PROVE MailInv'
<1>1. hook[h].pc = "marking" /\ AtWork(h)
  BY DEF Marks, InHook, AtWork
<1>2. PICK m \in Messages : m = MailOf(h)
  BY <1>1, MailOfCall
<1>3. /\ forwarding[m] = [done |-> FALSE, claimed |-> mailTime]
      /\ forwarding = [forwarding EXCEPT ![m] = [done |-> FALSE, claimed |-> mailTime]]
      /\ copies = [copies EXCEPT ![m] = copies[m]] /\ copies[m] \in Nat
      /\ unsure = [unsure EXCEPT ![m] = unsure[m]] /\ unsure[m] \in Nat
      /\ copies[m] <= 1 + unsure[m] /\ mailTime \in Nat
  BY <1>1, <1>2, WorkerFinds
<1>4. UNCHANGED <<owed, stored, mailTime, copies, abandoned, overlapped>>
  BY DEF Marks
<1>5. PICK new \in Hooks :
        /\ Becomes(h, new) /\ new.mail = m
        /\ \A step \in {"marking", "failing", "done"} : HookGoes(h, step) => new.pc = step
  BY <1>1, <1>2, WorkerGoes DEF Marks
<1>6. copies' = [copies EXCEPT ![m] = copies[m]]
  BY <1>3, <1>4
<1>7. CASE /\ forwarding' = [forwarding EXCEPT ![m].done = TRUE]
           /\ HookGoes(h, "done") /\ UNCHANGED unsure
  <2>1. forwarding' = [forwarding EXCEPT ![m] = [done |-> TRUE, claimed |-> mailTime]]
    <3>1. [forwarding[m] EXCEPT !.done = TRUE] = [done |-> TRUE, claimed |-> mailTime]
      <4> DEFINE r == forwarding[m]
      <4>1. r \in [done : BOOLEAN, claimed : Nat] /\ r.claimed = mailTime
        BY <1>3 DEF MailInv, MailTypes
      <4> HIDE DEF r
      <4>2. [r EXCEPT !.done = TRUE] = [done |-> TRUE, claimed |-> mailTime]
        BY <4>1, ForwardingFields
      <4> QED
        BY <4>2 DEF r
    <3> QED
      BY <1>7, <3>1
  <2>2. new.pc = "done" /\ unsure' = [unsure EXCEPT ![m] = unsure[m]]
    BY <1>3, <1>5, <1>7
  <2>3. PICK d \in BOOLEAN :
          d /\ forwarding' = [forwarding EXCEPT ![m] = [done |-> d, claimed |-> mailTime]]
    BY <2>1
  <2>4. /\ new.pc \in {"idle", "done", "marking", "failing"}
        /\ new.pc \in {"marking", "failing"} => ~ d /\ mailTime = mailTime
        /\ new.pc = "done" => d
        /\ new.pc = "idle" => mailTime = 0 \/ m \in abandoned'
        /\ ~ d /\ new.pc # "marking" => copies[m] <= unsure[m]
        /\ new.pc = "idle" \/ new.mail = m
    BY <1>5, <2>2, <2>3
  <2>5. /\ abandoned \subseteq abandoned' /\ abandoned' \subseteq abandoned \cup {m}
        /\ UNCHANGED <<owed, stored, mailTime, overlapped>>
    BY <1>4
  <2> QED
    BY <1>1, <1>2, <1>3, <1>5, <1>6, <2>2, <2>3, <2>4, <2>5, WorkerWrites
<1>8. CASE /\ HookGoes(h, "failing") /\ unsure' = [unsure EXCEPT ![m] = @ + 1]
           /\ UNCHANGED forwarding
  <2>1. /\ unsure[m] + 1 \in Nat /\ unsure' = [unsure EXCEPT ![m] = unsure[m] + 1]
        /\ copies[m] <= unsure[m] + 1 /\ copies[m] <= 1 + (unsure[m] + 1)
    BY <1>3, <1>8
  <2>2. forwarding' = [forwarding EXCEPT ![m] = [done |-> FALSE, claimed |-> mailTime]]
    BY <1>3, <1>8
  <2>3. new.pc = "failing" /\ FALSE \in BOOLEAN
    BY <1>5, <1>8
  <2> QED
    BY <1>1, <1>2, <1>3, <1>4, <1>5, <1>6, <2>1, <2>2, <2>3, WorkerWrites
<1> QED
  BY <1>2, <1>7, <1>8 DEF Marks

\* A call at work ends, by failing or with its process.
LEMMA WorkerEnds ==
  ASSUME MailInv, NEW h \in Handlers, NEW m \in Messages, m = MailOf(h), AtWork(h),
         hook' = [hook EXCEPT ![h] = IdleHook],
         UNCHANGED <<owed, stored, mailTime, copies, overlapped>>,
         NEW u \in {unsure[m], unsure[m] + 1}, unsure' = [unsure EXCEPT ![m] = u],
         hook[h].pc = "marking" => u = unsure[m] + 1,
         \/ UNCHANGED forwarding /\ abandoned' = abandoned \cup {m}
         \/ forwarding' = [forwarding EXCEPT ![m] = Unclaimed(m)] /\ UNCHANGED abandoned
  PROVE  MailInv'
<1>1. /\ forwarding[m] = [done |-> FALSE, claimed |-> mailTime]
      /\ forwarding = [forwarding EXCEPT ![m] = [done |-> FALSE, claimed |-> mailTime]]
      /\ copies = [copies EXCEPT ![m] = copies[m]] /\ copies[m] \in Nat
      /\ unsure[m] \in Nat
      /\ copies[m] <= 1 + unsure[m] /\ mailTime \in Nat
      /\ hook[h].pc # "marking" => copies[m] <= unsure[m]
  BY WorkerFinds
<1>2. Unclaimed(m) = [done |-> FALSE, claimed |-> 0]
  <2> DEFINE r == forwarding[m]
  <2>1. r \in [done : BOOLEAN, claimed : Nat] /\ r.done = FALSE
    BY <1>1 DEF MailInv, MailTypes
  <2> HIDE DEF r
  <2>2. [r EXCEPT !.claimed = 0] = [done |-> FALSE, claimed |-> 0]
    BY <2>1, ForwardingFields
  <2> QED
    BY <2>2 DEF r, Unclaimed
<1>3. u \in Nat /\ copies[m] <= u /\ copies[m] <= 1 + u
  BY <1>1
<1>4. \E k \in Nat :
        /\ forwarding' = [forwarding EXCEPT ![m] = [done |-> FALSE, claimed |-> k]]
        /\ k = 0 \/ m \in abandoned'
  BY <1>1, <1>2
<1>5. PICK k \in Nat :
        /\ forwarding' = [forwarding EXCEPT ![m] = [done |-> FALSE, claimed |-> k]]
        /\ k = 0 \/ m \in abandoned'
  BY <1>4
<1>6. copies' = [copies EXCEPT ![m] = copies[m]]
  BY <1>1
<1>7. Becomes(h, IdleHook) /\ FALSE \in BOOLEAN
  BY DEF Becomes
<1>8. abandoned \subseteq abandoned' /\ abandoned' \subseteq abandoned \cup {m}
  OBVIOUS
<1> QED
  BY <1>1, <1>3, <1>5, <1>6, <1>7, <1>8, IdleHookType, WorkerWrites

LEMMA FailsInv ==
  ASSUME MailInv, NEW h \in Handlers, Fails(h) PROVE MailInv'
<1>1. hook[h].pc = "failing" /\ AtWork(h)
  BY DEF Fails, InHook, AtWork
<1>2. PICK m \in Messages : m = MailOf(h)
  BY <1>1, MailOfCall
<1>3. unsure = [unsure EXCEPT ![m] = unsure[m]]
  BY <1>1, <1>2, WorkerFinds
<1>4. UNCHANGED <<owed, stored, mailTime, copies, overlapped, unsure>>
  BY DEF Fails
<1>5. \/ UNCHANGED forwarding /\ abandoned' = abandoned \cup {m}
      \/ forwarding' = [forwarding EXCEPT ![m] = Unclaimed(m)] /\ UNCHANGED abandoned
  BY <1>2 DEF Fails
<1>6. hook' = [hook EXCEPT ![h] = IdleHook]
  BY DEF Fails
<1>7. unsure[m] \in {unsure[m], unsure[m] + 1} /\ unsure' = [unsure EXCEPT ![m] = unsure[m]]
  BY <1>3, <1>4
<1> QED
  BY <1>1, <1>2, <1>4, <1>5, <1>6, <1>7, WorkerEnds

LEMMA HookDiesInv ==
  ASSUME MailInv, NEW h \in Handlers, HookDies(h) PROVE MailInv'
<1>1. hook[h].pc # "idle" /\ hook' = [hook EXCEPT ![h] = IdleHook]
      /\ UNCHANGED <<owed, stored, forwarding, mailTime, copies, overlapped>>
  BY DEF HookDies, InHook
<1>2. PICK m \in Messages : m = MailOf(h)
  BY <1>1, MailOfCall
<1>3. /\ abandoned' = IF h \in AtWorkOn(m) THEN abandoned \cup {m} ELSE abandoned
      /\ unsure' = IF hook[h].pc = "marking" THEN [unsure EXCEPT ![m] = @ + 1] ELSE unsure
  BY <1>2 DEF HookDies, InHook
<1>4. h \in AtWorkOn(m) <=> AtWork(h)
  BY <1>2 DEF AtWorkOn, AtWork
<1>5. CASE AtWork(h)
  <2>1. unsure = [unsure EXCEPT ![m] = unsure[m]] /\ abandoned' = abandoned \cup {m}
    BY <1>2, <1>3, <1>4, <1>5, WorkerFinds
  <2>2. CASE hook[h].pc = "marking"
    <3>1. /\ unsure' = [unsure EXCEPT ![m] = unsure[m] + 1]
          /\ unsure[m] + 1 \in {unsure[m], unsure[m] + 1}
      BY <1>3, <2>2
    <3> QED
      BY <1>1, <1>2, <1>5, <2>1, <3>1, WorkerEnds
  <2>3. CASE hook[h].pc # "marking"
    <3>1. /\ unsure' = [unsure EXCEPT ![m] = unsure[m]]
          /\ unsure[m] \in {unsure[m], unsure[m] + 1}
      BY <1>3, <2>1, <2>3
    <3> QED
      BY <1>1, <1>2, <1>5, <2>1, <2>3, <3>1, WorkerEnds
  <2> QED
    BY <2>2, <2>3
<1>6. CASE ~ AtWork(h)
  <2>1. UNCHANGED <<abandoned, unsure>>
    BY <1>3, <1>4, <1>6 DEF AtWork
  <2>2. Becomes(h, IdleHook)
    BY <1>1 DEF Becomes
  <2> QED
    BY <1>1, <1>6, <2>1, <2>2, IdleHookType, QuietMove
<1> QED
  BY <1>5, <1>6

-----------------------------------------------------------------------------
(* Both together *)

LEMMA MailUnmoved == ASSUME MailInv, UNCHANGED mailVars PROVE MailInv'
<1>1. UNCHANGED <<owed, stored, forwarding, hook, mailTime, copies, unsure, abandoned, overlapped>>
  BY DEF mailVars
<1>2. MailTypes'
  BY <1>1 DEF MailInv, MailTypes, MailOf
<1>3. ForwardInv'
  BY <1>1 DEF MailInv, ForwardInv, WorkersApart, WorkersClaim, CopiesTold, OneCopy, ClaimsLeft,
              AtWork, MailOf, InHook
<1>4. HookInv'
  BY <1>1 DEF MailInv, HookInv, HooksStored, ReceiptsSettled, ForwardedOrLeft, MailOf, InHook,
              Settled, IsReceipt, Receipts
<1> QED
  BY <1>2, <1>3, <1>4 DEF MailInv

\* A step of the webhook keeps both parts.
LEMMA WebhookInv ==
  ASSUME MailInv, NoticeInv, MailNext PROVE MailInv' /\ NoticeInv'
<1>1. \A h \in Handlers : h \in Senders
  BY DEF Senders
<1>2. day \in 1..MaxDay
  BY DEF NoticeInv, NoticeTypes
<1>3. UNCHANGED noticeVars => NoticeInv'
  BY <1>2, NoticesUnmoved DEF noticeVars
<1>4. CASE MailTick
  BY <1>3, <1>4, MailTickInv DEF MailTick
<1>5. ASSUME NEW m \in Messages, MailArrives(m) PROVE MailInv' /\ NoticeInv'
  BY <1>3, <1>5, MailArrivesInv DEF MailArrives, noticeVars
<1>6. ASSUME NEW h \in Handlers, NEW m \in Messages, Delivers(h, m)
      PROVE  MailInv' /\ NoticeInv'
  BY <1>3, <1>6, DeliversInv DEF Delivers, noticeVars
<1>7. ASSUME NEW h \in Handlers, AlertStep(h) PROVE MailInv' /\ NoticeInv'
  BY <1>1, <1>7, MailUnmoved, NoticeStepInv DEF AlertStep
<1>8. ASSUME NEW h \in Handlers, HookDies(h) PROVE MailInv' /\ NoticeInv'
  <2>1. /\ EndsJob(h) /\ UNCHANGED <<day, sends, told>>
        /\ stranded' = IF Working(h, "idle") THEN stranded ELSE stranded \cup {job[h].slip}
    BY <1>8 DEF HookDies
  <2>2. stranded \subseteq stranded' /\ (Holding(h) => job[h].slip \in stranded')
    BY <2>1 DEF Holding, Working
  <2> QED
    BY <1>1, <1>8, <2>1, <2>2, StopInv, HookDiesInv
<1>9. ASSUME NEW h \in Handlers, Alerts(h) PROVE MailInv' /\ NoticeInv'
  <2>1. MailOf(h) \in Messages
    BY <1>9, MailOfCall DEF Alerts, InHook
  <2>2. CASE Prepare(h, [kind |-> "employer_reply", about |-> MailOf(h), day |-> day])
    <3>1. [kind |-> "employer_reply", about |-> MailOf(h), day |-> day] \in Slips
      BY <1>2, <2>1, SlipTypes
    <3>2. Working(h, "idle") /\ UNCHANGED <<day, sends, told, noticeFaults, stranded>>
      BY <1>9 DEF Alerts
    <3> QED
      BY <1>1, <1>9, <2>2, <3>1, <3>2, PrepareInv, AlertsInv
  <2>3. CASE UNCHANGED job
    <3>1. UNCHANGED noticeVars
      BY <1>9, <2>3 DEF Alerts, noticeVars
    <3> QED
      BY <1>3, <1>9, <3>1, AlertsInv
  <2> QED
    BY <1>9, <2>2, <2>3 DEF Alerts
<1>10. ASSUME NEW h \in Handlers, HookStep(h), ~ Alerts(h) PROVE MailInv' /\ NoticeInv'
  <2>1. UNCHANGED noticeVars
    BY <1>10 DEF HookStep, Stores, Resolves, ClaimsForwarding, Forwards, Marks, Fails, Alerted,
                 Answers
  <2>2. MailInv'
    BY <1>10, StoresInv, ResolvesInv, ClaimsForwardingInv, ForwardsInv, MarksInv, FailsInv,
       AlertsInv, AnswersInv DEF HookStep
  <2> QED
    BY <1>3, <2>1, <2>2
<1> QED
  BY <1>4, <1>5, <1>6, <1>7, <1>8, <1>9, <1>10 DEF MailNext

LEMMA MailInitInv == ASSUME NoticesAtRest, MailInit PROVE MailInv /\ NoticeInv
<1>1. NoticeTypes
  BY NoticesAssumption DEF NoticesAtRest, NoticeTypes, Jobs, NoJob
<1>2. /\ RowsApart /\ HoldersApart /\ HoldersRows /\ ToldHasRow /\ SlotsAccounted
  BY DEF NoticesAtRest, RowsApart, HoldersApart, HoldersRows, ToldHasRow, SlotsAccounted, Holding,
         NoJob
<1>3. MailTypes
  BY DEF MailInit, MailAtRest, MailTypes, Hooks, IdleHook
<1>4. ForwardInv
  BY DEF MailInit, MailAtRest, ForwardInv, WorkersApart, WorkersClaim, CopiesTold, OneCopy,
         ClaimsLeft, AtWork, IdleHook
<1>5. HookInv
  BY DEF MailInit, MailAtRest, HookInv, HooksStored, ReceiptsSettled, ForwardedOrLeft, InHook,
         IdleHook
<1> QED
  BY <1>1, <1>2, <1>3, <1>4, <1>5 DEF MailInv, NoticeInv

LEMMA MailAndSweepsInv == MailAndSweepsSpec => [](MailInv /\ NoticeInv)
<1>1. MailInv /\ NoticeInv /\ [MailAndSweepsNext]_<<mailVars, noticeVars>>
        => MailInv' /\ NoticeInv'
  <2> SUFFICES ASSUME MailInv, NoticeInv, [MailAndSweepsNext]_<<mailVars, noticeVars>>
               PROVE  MailInv' /\ NoticeInv'
    OBVIOUS
  <2>1. CASE MailNext
    BY <2>1, WebhookInv
  <2>2. CASE NoticesNext /\ UNCHANGED mailVars
    BY <2>2, MailUnmoved, SweepsInv
  <2>3. CASE UNCHANGED <<mailVars, noticeVars>>
    <3>1. day' \in 1..MaxDay /\ UNCHANGED <<sends, job, told, stranded>>
      BY <2>3 DEF noticeVars, NoticeInv, NoticeTypes
    <3> QED
      BY <2>3, <3>1, MailUnmoved, NoticesUnmoved
  <2> QED
    BY <2>1, <2>2, <2>3 DEF MailAndSweepsNext
<1> QED
  BY <1>1, MailInitInv, PTL DEF MailAndSweepsSpec

\* For any number of webhook calls and mails: the applicant gets one copy of a mail, plus one
\* for each that a call could not tell it had sent, because a claim is taken by one call and
\* given up or left behind with it.
THEOREM MailIsForwardedOnce == MailAndSweepsSpec => []OneCopy
<1>1. MailInv => OneCopy
  BY DEF MailInv, ForwardInv
<1> QED
  BY <1>1, MailAndSweepsInv, PTL

\* A confirmation the provider was told is handled has been forwarded, or its claim was left
\* behind by a call, or was held by another when it was answered.
THEOREM ReceiptsAreForwardedOrLeft == MailAndSweepsSpec => []ForwardedOrLeft
<1>1. MailInv => ForwardedOrLeft
  BY DEF MailInv, HookInv
<1> QED
  BY <1>1, MailAndSweepsInv, PTL

\* For any number of overlapping sweeps and webhook calls: one day announces at most one
\* posting and one digest, and nothing is announced twice, because the row that is reserved
\* before the send outlives an answered one.
THEOREM NoticesKeepTheirCap == MailAndSweepsSpec => []WithinDailyCap
<1>1. ASSUME NoticeInv PROVE WithinDailyCap
  <2> SUFFICES ASSUME NEW x \in Slips, NEW y \in Slips, told[x] > 0, told[y] > 0,
                      (x.about = y.about /\ x.kind # "activity_digest") \/ SameCap(x, y)
               PROVE  x = y /\ told[x] = 1
    BY DEF WithinDailyCap
  <2>1. told[x] = 1
    BY <1>1 DEF NoticeInv, ToldHasRow, NoticeTypes
  <2>2. PICK q \in sends, r \in sends : q.slip = x /\ r.slip = y
    BY <1>1 DEF NoticeInv, ToldHasRow, Rows
  <2>3. SameDailySlot(x, y) \/ SameDedupeKey(x, y)
    <3>1. CASE SameCap(x, y)
      BY <3>1 DEF SameCap, SameDailySlot
    <3>2. CASE x.about = y.about /\ x.kind # "activity_digest"
      BY <3>2, NoticesAssumption DEF Slips, SameDedupeKey
    <3> QED
      BY <3>1, <3>2
  <2> QED
    BY <1>1, <2>1, <2>2, <2>3 DEF NoticeInv, RowsApart
<1> QED
  BY <1>1, MailAndSweepsInv, PTL

\* The mail provider's failures alone never spend a slot: every row was sent, was left behind
\* by a death or a database error, or is still some sender's to commit or give back.
THEOREM FailuresFreeTheirSlot == MailAndSweepsSpec => []FailureFreesSlot
<1>1. NoticeInv => FailureFreesSlot
  BY DEF NoticeInv, SlotsAccounted, FailureFreesSlot
<1> QED
  BY <1>1, MailAndSweepsInv, PTL
=============================================================================
