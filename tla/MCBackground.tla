------------------------------ MODULE MCBackground ------------------------------
(***************************************************************************)
(* Small instances of Background for TLC.                                  *)
(***************************************************************************)
EXTENDS Background, TLC

CONSTANTS c1, c2, v1, v2, x1, x2, x3, x4

\* Two boards of the capped family, one of the other paced family, one of neither.
BoardFamilies ==
  (x1 :> "workable") @@ (x2 :> "crelate") @@ (x3 :> "crelate") @@ (x4 :> "ordinary")
=============================================================================
