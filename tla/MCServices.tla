------------------------------ MODULE MCServices ------------------------------
(***************************************************************************)
(* Small instances of Services for TLC.                                    *)
(***************************************************************************)
EXTENDS Services, TLC

CONSTANTS g1, g2, n1, n2, k1, k2, o1, u1, u2, d1, d2, s1, w1, w2

\* Two resumes, two answers of one application, two contact searches and a draft.
Kinds ==
  (g1 :> "tailored_resume") @@ (g2 :> "tailored_resume") @@
  (n1 :> "answer_application") @@ (n2 :> "answer_application") @@
  (k1 :> "contact") @@ (k2 :> "contact") @@ (o1 :> "draft")

\* The first contact search and the draft are for one company.
ScopesOf ==
  (g1 :> "account") @@ (g2 :> "account") @@ (n1 :> "application") @@
  (n2 :> "application") @@ (k1 :> "company A") @@ (k2 :> "company B") @@
  (o1 :> "company A")

Units == [o \in Ops |-> IF o = k1 THEN 2 ELSE 1]

LateAndRecovered == {"past_due", "recovered"}
LateAndRefunded == {"past_due", "refunded"}
Disputed == {"dispute_created", "dispute_closed"}
AllScripts == {LateAndRecovered, LateAndRefunded, Disputed}
DisputeOnly == {Disputed}
=============================================================================
