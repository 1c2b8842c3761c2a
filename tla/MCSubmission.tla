------------------------------ MODULE MCSubmission ------------------------------
(***************************************************************************)
(* Small instances of Submission for TLC.                                  *)
(***************************************************************************)
EXTENDS Submission, TLC

CONSTANTS p1, p2, a1, a2, a3, w1, w2, r1, r2

\* Every packet applies to one posting: the case the duplicate gate is for.
OnePosting == [p \in Packets |-> "posting"]

\* Attempts, processes and calls are interchangeable in every safety property.
Interchangeable ==
  Permutations(Attempts) \cup Permutations(Workers) \cup Permutations(Requests)
=============================================================================
