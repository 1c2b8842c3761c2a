-------------------------------- MODULE Services --------------------------------
(***************************************************************************)
(* Services beside the submission of applications that share no state with *)
(* one another: metered usage, billing with account deletion, and the      *)
(* recovery of held outcomes.  A behaviour exercises one of them, and the  *)
(* others rest, so their state spaces add and do not multiply.             *)
(***************************************************************************)
EXTENDS Entitlements, AccountDeletion, OutcomeRecovery

VARIABLE focus  \* the service this behaviour exercises

serviceVars == <<focus, entitlementVars, accountVars, recoveryVars>>

ServicesInit ==
  \/ focus = "usage" /\ EntitlementInit /\ AccountAtRest /\ RecoveryAtRest
  \/ focus = "account" /\ AccountInit /\ EntitlementsAtRest /\ RecoveryAtRest
  \/ focus = "recovery" /\ RecoveryInit /\ EntitlementsAtRest /\ AccountAtRest

UsageStep ==
  focus = "usage" /\ EntitlementNext /\ UNCHANGED <<focus, accountVars, recoveryVars>>
AccountStep ==
  focus = "account" /\ AccountNext /\ UNCHANGED <<focus, entitlementVars, recoveryVars>>
RecoveryStep ==
  focus = "recovery" /\ RecoveryNext /\ UNCHANGED <<focus, entitlementVars, accountVars>>

ServicesNext == UsageStep \/ AccountStep \/ RecoveryStep

ServicesSpec == ServicesInit /\ [][ServicesNext]_serviceVars

FairServicesSpec ==
  ServicesSpec /\ EntitlementFairness /\ AccountFairness /\ RecoveryFairness

=============================================================================
