------------------------------ MODULE InboundMail ------------------------------
(***************************************************************************)
(* The employer's mail to an application's alias (src/src/lib/             *)
(* applicationEmail.ts, its webhook in src/src/routes/applicationEmail.ts).*)
(* The mail provider calls the webhook again until a call answers 202, and *)
(* calls may overlap.  A call stores the mail, resolves the packet from a  *)
(* confirmation, and forwards a copy to the applicant under a ten-minute   *)
(* claim; of any other mail it alerts her (module Notices).                *)
(*                                                                         *)
(* What resolving the packet does is module EmployerEvidence's; here it    *)
(* happens or throws.                                                      *)
(***************************************************************************)
EXTENDS Notices

CONSTANTS
  ClassOf,       \* message -> "submission_confirmation" or "recruiter_reply"
  ClaimTTL,      \* the forwarding claim's ten minutes, in ticks
  MaxMailTime,   \* bound: ticks
  MaxMailFaults  \* bound: errors of the database, lost answers and deaths

ASSUME MailAssumption ==
  /\ ClassOf \in [Messages -> {"submission_confirmation", "recruiter_reply"}]
  /\ ClaimTTL \in Nat \ {0} /\ MaxMailTime \in Nat /\ MaxMailFaults \in Nat

NoMail == "none"
ASSUME NoMailAssumption == NoMail \notin Messages

VARIABLES
  owed,       \* messages the provider has no 202 for
  stored,     \* rows of application_email_messages
  resolution, \* message -> "none", "resolved" its packet, or was "declined"
  forwarding, \* message -> forwarded_at is set, and forwarding_claimed_at, or 0
  hook,       \* webhook call -> where it is, its message, a resolution error it carries
  mailTime,
  mailFaults,
  copies,     \* history: message -> copies that reached the applicant
  unsure,     \* history: message -> copies a call could not tell it had sent
  abandoned,  \* history: messages whose claim a dead or failing call left behind
  overlapped  \* history: messages answered 202 while another call held the claim

mailVars == <<owed, stored, resolution, forwarding, hook, mailTime, mailFaults, copies,
              unsure, abandoned, overlapped>>

IdleHook == [pc |-> "idle", mail |-> NoMail, error |-> FALSE]

MailAtRest ==
  /\ owed = {} /\ stored = {} /\ resolution = [m \in Messages |-> "none"]
  /\ forwarding = [m \in Messages |-> [done |-> FALSE, claimed |-> 0]]
  /\ hook = [h \in Handlers |-> IdleHook]
  /\ mailTime = 1 /\ mailFaults = 0
  /\ copies = [m \in Messages |-> 0] /\ unsure = [m \in Messages |-> 0]
  /\ abandoned = {} /\ overlapped = {}

MailInit == MailAtRest

InHook(h, step) == hook[h].pc = step
MailOf(h) == hook[h].mail
HookGoes(h, step) == hook' = [hook EXCEPT ![h].pc = step]
Bounded == mailFaults < MaxMailFaults /\ mailFaults' = mailFaults + 1
Receipts == {m \in Messages : ClassOf[m] = "submission_confirmation"}
IsReceipt(m) == m \in Receipts

\* An employer writes.  Bound: once the mail before is done with.
MailArrives(m) ==
  /\ m \notin stored /\ owed = {} /\ \A h \in Handlers : InHook(h, "idle")
  /\ owed' = owed \cup {m}
  /\ UNCHANGED <<stored, resolution, forwarding, hook, mailTime, mailFaults, copies, unsure,
                 abandoned, overlapped, noticeVars>>

\* The provider calls, whether or not an earlier call is still at work.
Delivers(h, m) ==
  /\ InHook(h, "idle") /\ m \in owed
  /\ hook' = [hook EXCEPT ![h] = [pc |-> "called", mail |-> m, error |-> FALSE]]
  /\ UNCHANGED <<owed, stored, resolution, forwarding, mailTime, mailFaults, copies, unsure,
                 abandoned, overlapped, noticeVars>>

\* Mutant: a delivery that was stored before is answered at once.
OnceStored(m) ==
  IF m \in stored THEN "done" ELSE IF IsReceipt(m) THEN "resolving" ELSE "alerting"

\* What a call does with its mail once the row is there, its own or an earlier call's.
AfterStoring(m) == IF IsReceipt(m) THEN "resolving" ELSE "alerting"

\* onConflictDoNothing on the dedupe key.
Stores(h) ==
  /\ InHook(h, "called")
  /\ HookGoes(h, AfterStoring(MailOf(h)))
  /\ stored' = stored \cup {MailOf(h)}
  /\ UNCHANGED <<owed, resolution, forwarding, mailTime, mailFaults, copies, unsure,
                 abandoned, overlapped, noticeVars>>

\* resolveConfirmation resolves the packet or declines (the sender is not authenticated,
\* the mail is stale, the attempt is not its, the packet reads submitted), and of a packet
\* it resolved it declines from then on; its error waits until the copy has been dealt with.
Resolves(h) ==
  /\ InHook(h, "resolving")
  /\ \/ /\ \E outcome \in {"resolved", "declined"} :
             resolution' = [resolution EXCEPT ![MailOf(h)] =
                              IF @ = "resolved" THEN @ ELSE outcome]
        /\ HookGoes(h, "forwarding") /\ UNCHANGED mailFaults
     \/ /\ Bounded /\ UNCHANGED resolution
        /\ hook' = [hook EXCEPT ![h].pc = "forwarding", ![h].error = TRUE]
  /\ UNCHANGED <<owed, stored, forwarding, mailTime, copies, unsure, abandoned,
                 overlapped, noticeVars>>

\* Mutant: only forwarded_at is asked.
UnlessForwarded(m) == ~ forwarding[m].done

\* claimForwarding's condition
Claimable(m) ==
  /\ ~ forwarding[m].done
  /\ forwarding[m].claimed = 0 \/ forwarding[m].claimed + ClaimTTL < mailTime

AtWorkOn(m) == {h \in Handlers : hook[h].pc \in {"sending", "marking", "failing"} /\ MailOf(h) = m}

\* already_forwarded and claimed_elsewhere are both done with.
ClaimsForwarding(h) ==
  LET m == MailOf(h)
  IN /\ InHook(h, "forwarding")
     /\ IF Claimable(m)
          THEN /\ forwarding' = [forwarding EXCEPT ![m].claimed = mailTime]
               /\ HookGoes(h, "sending") /\ UNCHANGED overlapped
          ELSE /\ HookGoes(h, "done") /\ UNCHANGED forwarding
               /\ overlapped' = IF AtWorkOn(m) # {} THEN overlapped \cup {m} ELSE overlapped
     /\ UNCHANGED <<owed, stored, resolution, mailTime, mailFaults, copies, unsure, abandoned,
                    noticeVars>>

\* forward: the copy goes out, it fails, or it goes out and the call cannot tell.
Forwards(h) ==
  LET m == MailOf(h)
  IN /\ InHook(h, "sending")
     /\ \/ /\ copies' = [copies EXCEPT ![m] = @ + 1]
           /\ HookGoes(h, "marking") /\ UNCHANGED <<mailFaults, unsure>>
        \/ HookGoes(h, "failing") /\ UNCHANGED <<copies, mailFaults, unsure>>
        \/ /\ Bounded
           /\ copies' = [copies EXCEPT ![m] = @ + 1]
           /\ unsure' = [unsure EXCEPT ![m] = @ + 1]
           /\ HookGoes(h, "failing")
     /\ UNCHANGED <<owed, stored, resolution, forwarding, mailTime, abandoned, overlapped,
                    noticeVars>>

\* markForwarded, or its failure.
Marks(h) ==
  LET m == MailOf(h)
  IN /\ InHook(h, "marking")
     /\ \/ /\ forwarding' = [forwarding EXCEPT ![m].done = TRUE]
           /\ HookGoes(h, "done") /\ UNCHANGED <<mailFaults, unsure>>
        \/ /\ Bounded /\ HookGoes(h, "failing")
           /\ unsure' = [unsure EXCEPT ![m] = @ + 1]
           /\ UNCHANGED forwarding
     /\ UNCHANGED <<owed, stored, resolution, mailTime, copies, abandoned, overlapped,
                    noticeVars>>

\* Mutant: the error is recorded and the claim kept.
KeepsClaim(m) == forwarding[m]

Unclaimed(m) == [forwarding[m] EXCEPT !.claimed = 0]

\* recordForwardFailure, and the call throws: not a 202.
Fails(h) ==
  LET m == MailOf(h)
  IN /\ InHook(h, "failing")
     /\ \/ /\ forwarding' = [forwarding EXCEPT ![m] = Unclaimed(m)]
           /\ UNCHANGED <<mailFaults, abandoned>>
        \/ Bounded /\ abandoned' = abandoned \cup {m} /\ UNCHANGED forwarding
     /\ hook' = [hook EXCEPT ![h] = IdleHook]
     /\ UNCHANGED <<owed, stored, resolution, mailTime, copies, unsure, overlapped, noticeVars>>

\* notifyReply: an alert of this mail, unless the account does not want one.
Alerts(h) ==
  /\ InHook(h, "alerting") /\ Working(h, "idle")
  /\ \/ /\ Prepare(h, [kind |-> "employer_reply", about |-> MailOf(h), day |-> day])
        /\ HookGoes(h, "alerted")
     \/ HookGoes(h, "done") /\ UNCHANGED job
  /\ UNCHANGED <<owed, stored, resolution, forwarding, mailTime, mailFaults, copies, unsure,
                 abandoned, overlapped, day, sends, told, noticeFaults, stranded>>

\* Whatever became of it.
Alerted(h) ==
  /\ InHook(h, "alerted") /\ Working(h, "idle")
  /\ HookGoes(h, "done")
  /\ UNCHANGED <<owed, stored, resolution, forwarding, mailTime, mailFaults, copies, unsure,
                 abandoned, overlapped, noticeVars>>

\* done: the resolution's error is thrown, or the provider hears 202, or does not.
Answers(h) ==
  /\ InHook(h, "done")
  /\ hook' = [hook EXCEPT ![h] = IdleHook]
  /\ \/ hook[h].error /\ UNCHANGED <<owed, mailFaults>>
     \/ ~ hook[h].error /\ owed' = owed \ {MailOf(h)} /\ UNCHANGED mailFaults
     \/ ~ hook[h].error /\ Bounded /\ UNCHANGED owed
  /\ UNCHANGED <<stored, resolution, forwarding, mailTime, copies, unsure, abandoned,
                 overlapped, noticeVars>>

\* The process of a call dies, and its alert with it.
HookDies(h) ==
  LET m == MailOf(h)
  IN /\ ~ InHook(h, "idle") /\ Bounded
     /\ hook' = [hook EXCEPT ![h] = IdleHook]
     /\ abandoned' = IF h \in AtWorkOn(m) THEN abandoned \cup {m} ELSE abandoned
     /\ unsure' = IF InHook(h, "marking") THEN [unsure EXCEPT ![m] = @ + 1] ELSE unsure
     /\ stranded' = IF Working(h, "idle") THEN stranded ELSE stranded \cup {job[h].slip}
     /\ EndsJob(h)
     /\ UNCHANGED <<owed, stored, resolution, forwarding, mailTime, copies, overlapped, day,
                    sends, told, noticeFaults>>

\* A forward takes far less than its claim lasts.
MailTick ==
  /\ mailTime < MaxMailTime /\ \A m \in Messages : AtWorkOn(m) = {}
  /\ mailTime' = mailTime + 1
  /\ UNCHANGED <<owed, stored, resolution, forwarding, hook, mailFaults, copies, unsure,
                 abandoned, overlapped, noticeVars>>

HookStep(h) ==
  \/ Stores(h) \/ Resolves(h) \/ ClaimsForwarding(h) \/ Forwards(h) \/ Marks(h)
  \/ Fails(h) \/ Alerts(h) \/ Alerted(h) \/ Answers(h)

AlertStep(h) == NoticeStep(h) /\ UNCHANGED mailVars

MailNext ==
  \/ \E m \in Messages : MailArrives(m)
  \/ \E h \in Handlers :
       \/ \E m \in Messages : Delivers(h, m)
       \/ HookStep(h) \/ AlertStep(h) \/ HookDies(h)
  \/ MailTick

\* The provider goes on calling, and a call comes to its end.
MailFairness ==
  /\ \A m \in Messages :
       SF_<<mailVars, noticeVars>>(\E h \in Handlers : Delivers(h, m))
  /\ \A h \in Handlers : WF_<<mailVars, noticeVars>>(HookStep(h) \/ AlertStep(h))

MailSpec == NoticesAtRest /\ MailInit /\ [][MailNext]_<<mailVars, noticeVars>>

-----------------------------------------------------------------------------
(* Properties *)

\* A mail the provider was told is handled has been forwarded, unless a call left its claim
\* behind, or was still at work on it when another call answered.  Code:
\* handleStoredEmployerMessage: claimed_elsewhere is a 202, and nothing forwards later.
ForwardedOrLeft ==
  \A m \in stored \ owed :
    IsReceipt(m) => forwarding[m].done \/ m \in abandoned \cup overlapped

\* The applicant gets one copy of a mail, plus one for each a call could not tell it had
\* sent, however many calls the provider makes.  Code: claimForwarding.
OneCopy == \A m \in Messages : copies[m] <= 1 + unsure[m]

\* An employer's confirmation comes to a decision, its packet resolved or the mail declined,
\* even if no copy can ever be forwarded: no error and no death leaves it undecided.
\* Code: the resolution before the forwarding gates, its error rethrown after them.
ReceiptResolves ==
  \A m \in Receipts : m \in owed ~> resolution[m] # "none"

=============================================================================
