---------------------------- MODULE OneApplication ----------------------------
(***************************************************************************)
(* What submission promises for each employer posting, with no runner, no  *)
(* ledger and no packet in sight: at most one attempt at a time may reach  *)
(* the employer; the employer receives at most one application, from that  *)
(* attempt; once it has, no other attempt may ever go out; and the         *)
(* applicant is told the application was sent only if it was received.     *)
(* Being told may be lost again.                                           *)
(***************************************************************************)
CONSTANTS
  Postings, \* the employer's postings
  Tries     \* attempts to apply

VARIABLES
  candidate, \* posting -> the attempts that may reach, or have reached, the employer
  received,  \* the postings whose employer has the application
  shown      \* the postings the applicant is told so of

promised == <<candidate, received, shown>>

PromiseInit ==
  /\ candidate = [q \in Postings |-> {}]
  /\ received = {}
  /\ shown = {}

\* An attempt is let out, when there is no other.
LetOut(q, a) ==
  /\ candidate[q] = {}
  /\ candidate' = [candidate EXCEPT ![q] = {a}]
  /\ UNCHANGED <<received, shown>>

\* The employer receives the application of the attempt that is out.
Receive(q) ==
  /\ candidate[q] # {} /\ q \notin received
  /\ received' = received \cup {q}
  /\ UNCHANGED <<candidate, shown>>

\* Attempts are over without an application.
GiveUp(over) ==
  /\ over \cap received = {}
  /\ candidate' = [q \in Postings |-> IF q \in over THEN {} ELSE candidate[q]]
  /\ UNCHANGED <<received, shown>>

Tell(q) ==
  /\ q \in received
  /\ shown' = shown \cup {q}
  /\ UNCHANGED <<candidate, received>>

Forget(q) ==
  /\ shown' = shown \ {q}
  /\ UNCHANGED <<candidate, received>>

PromiseNext ==
  \/ \E q \in Postings : \/ \E a \in Tries : LetOut(q, a)
                         \/ Receive(q) \/ Tell(q) \/ Forget(q)
  \/ \E over \in SUBSET Postings : GiveUp(over)

PromiseSpec == PromiseInit /\ [][PromiseNext]_promised

=============================================================================
