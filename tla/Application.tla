------------------------------ MODULE Application ------------------------------
(***************************************************************************)
(* An application from its sides: the packet and its attempts (module      *)
(* Submission, where a fact is written at once), the transactions that     *)
(* write one attempt's facts (AttemptLedger), the employer's mail that     *)
(* answers it (InboundMail), and what the account is notified of           *)
(* (Notices).  A behaviour exercises one side and the others rest, so      *)
(* their state spaces add and do not multiply; the mail and its alerts     *)
(* alone share state.                                                      *)
(***************************************************************************)
EXTENDS Submission, AttemptLedger, InboundMail

VARIABLE side  \* the side this behaviour exercises

applicationVars == <<side, vars, ledgerVars, mailVars, noticeVars>>

\* Nothing of it is due: the applicant has not asked yet and no lease runs.
SubmissionAtRest ==
  /\ now = MaxTime /\ crashes = 0
  /\ row = [p \in Packets |-> FreshReview("ready_to_submit")]
  /\ runs = [p \in Packets |-> row[p].run] /\ queued = [p \in Packets |-> FALSE]
  /\ ledger = [a \in Attempts |-> << >>]
  /\ attempt = [a \in Attempts |-> [packet |-> None, openedAt |-> 0, lease |-> 0]]
  /\ worker = [w \in Workers |-> IdleProcess]
  /\ provider = [a \in Attempts |-> [phase |-> "none", pressed |-> FALSE]]
  /\ filed = [a \in Attempts |-> FALSE] /\ request = [r \in Requests |-> IdleCall]

ApplicationInit ==
  /\ LedgerInit /\ MailInit /\ NoticesAtRest
  /\ \/ side = "submission" /\ Init
     \/ side \in {"ledger", "mail", "notices"} /\ SubmissionAtRest

SubmissionSide ==
  side = "submission" /\ Next /\ UNCHANGED <<side, ledgerVars, mailVars, noticeVars>>
LedgerSide ==
  side = "ledger" /\ LedgerNext /\ UNCHANGED <<side, vars, mailVars, noticeVars>>
MailSide ==
  side = "mail" /\ MailNext /\ UNCHANGED <<side, vars, ledgerVars>>
NoticeSide ==
  side = "notices" /\ NoticesNext /\ UNCHANGED <<side, vars, ledgerVars, mailVars>>

ApplicationNext == SubmissionSide \/ LedgerSide \/ MailSide \/ NoticeSide

FairApplicationSpec ==
  /\ ApplicationInit /\ [][ApplicationNext]_applicationVars
  /\ Fairness /\ LedgerFairness /\ MailFairness

=============================================================================
