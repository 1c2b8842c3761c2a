----------------------------- MODULE MCApplication -----------------------------
(***************************************************************************)
(* Small instances of Application for TLC.                                 *)
(***************************************************************************)
EXTENDS Application, TLC

CONSTANTS p1, a1, a2, w1, r1, e1, e2, h1, h2, j1, j2, m1, m2

OnePosting == [p \in Packets |-> "posting"]

\* A receipt, and a mail that is not forwarded.
MailClasses == (m1 :> "submission_confirmation") @@ (m2 :> "recruiter_reply")
=============================================================================
