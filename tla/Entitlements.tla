----------------------------- MODULE Entitlements -----------------------------
(***************************************************************************)
(* A trial account's metered work (src/src/lib/entitlements.ts): a call     *)
(* reserves units under an operation id, does minutes of generation, and   *)
(* then commits what it produced or releases what it did not.  Every       *)
(* transaction takes the account's entitlement lock, but the reservation   *)
(* outlives none of them: it expires after fifteen minutes, its row is     *)
(* reused by the next call with the same operation id, and a slow call     *)
(* still settles it by row id.                                             *)
(***************************************************************************)
EXTENDS Integers, FiniteSets

CONSTANTS
  Ops,             \* operation ids (user, kind, idempotency key)
  KindOf,          \* operation -> usage kind
  ScopeOf,         \* operation -> scope_key: the application or the company
  UnitsOf,         \* operation -> requested_units
  OpGroups,        \* bound: the sets of operations one behaviour may use
  Callers,         \* concurrent requests
  NoOp,            \* no operation
  Allowance,       \* TRIAL_LIMITS of the generation kinds and answers
  CompanyLimit,    \* TRIAL_LIMITS.outreach_companies
  CompanyUse,      \* TRIAL_LIMITS per company: contacts, drafts
  ReservationTTL,  \* reservationTtlMs, in ticks
  MaxClock         \* bound: the clock stops here

GenerationKinds == {"tailored_resume", "cover_letter"}
CounterKinds == GenerationKinds \cup {"answer_application"}
CompanyKinds == {"contact", "draft"}

ASSUME OpsAssumption ==
  /\ IsFiniteSet(Ops) /\ NoOp \notin Ops /\ OpGroups \subseteq SUBSET Ops
  /\ \A o \in Ops : /\ KindOf[o] \in CounterKinds \cup CompanyKinds
                    /\ UnitsOf[o] \in Nat \ {0}
                    /\ KindOf[o] # "contact" => UnitsOf[o] = 1
ASSUME LimitsAssumption ==
  /\ Allowance \in Nat /\ CompanyLimit \in Nat /\ CompanyUse \in Nat
  /\ ReservationTTL \in Nat \ {0} /\ MaxClock \in Nat

VARIABLES
  clock,       \* ticks
  inPlay,      \* the operations of this behaviour
  metering,    \* whether the account's plan is metered by the trial limits
  reservation, \* operation -> its reservation row
  counter,     \* kind -> units used (trial_generation_usage)
  grants,      \* applications answers were granted for
  company,     \* company -> its trial_company_usage row
  caller       \* request -> the operation it works on

entitlementVars ==
  <<clock, inPlay, metering, reservation, counter, grants, company, caller>>

Companies == {ScopeOf[o] : o \in {p \in Ops : KindOf[p] \in CompanyKinds}}

NoReservation ==
  [status |-> "none", units |-> 0, metered |-> FALSE, linked |-> FALSE,
   expires |-> 0]
NoCompany == [row |-> FALSE, contact |-> 0, draft |-> 0]

\* An account that has used nothing yet.
NothingUsed ==
  /\ reservation = [o \in Ops |-> NoReservation]
  /\ counter = [k \in CounterKinds |-> 0]
  /\ grants = {}
  /\ company = [s \in Companies |-> NoCompany]
  /\ caller = [c \in Callers |-> NoOp]

EntitlementInit ==
  NothingUsed /\ clock = 0 /\ inPlay \in OpGroups /\ metering \in BOOLEAN

\* An account that never uses anything.
EntitlementsAtRest == NothingUsed /\ clock = MaxClock /\ inPlay = {} /\ metering = FALSE

-----------------------------------------------------------------------------
(* Reservations and the company rows they hold *)

\* Mutant: a free reservation does not expire.
MeteredHasExpired(o, now) ==
  /\ reservation[o].status = "reserved" /\ reservation[o].metered
  /\ reservation[o].expires <= now

HasExpired(o, now) ==
  reservation[o].status = "reserved" /\ reservation[o].expires <= now

\* The rows after the transaction's sweep of expired reservations.
Swept(now) ==
  [o \in Ops |-> IF HasExpired(o, now) THEN [reservation[o] EXCEPT !.status = "expired"]
                                       ELSE reservation[o]]

\* Mutant: work that is only reserved does not hold its company row.
HoldsCompanyOnceCommitted(res, o) == res[o].linked /\ res[o].status = "committed"

\* A reservation that keeps its company row.
HoldsCompany(res, o) == res[o].linked /\ res[o].status \in {"reserved", "committed"}

\* Unused company rows no reservation holds are deleted.
Kept(s, res) ==
  \/ company[s].contact > 0 \/ company[s].draft > 0
  \/ \E o \in Ops : ScopeOf[o] = s /\ HoldsCompany(res, o)

Purged(res) == [s \in Companies |-> IF Kept(s, res) THEN company[s] ELSE NoCompany]

\* The foreign key of a deleted company row is set to null.
Unlinked(res, com) ==
  [o \in Ops |-> IF res[o].linked /\ ~ com[ScopeOf[o]].row
                   THEN [res[o] EXCEPT !.linked = FALSE] ELSE res[o]]

-----------------------------------------------------------------------------
(* reserveEntitledUsage *)

\* Reserved, metered and of this operation's kind.
PendingOf(res, kind) ==
  {o \in Ops : /\ KindOf[o] = kind /\ res[o].status = "reserved"
               /\ res[o].metered}

\* The units these rows reserve or have used: how many pairs of a row and one of its units.
UnitSum(res, ops) == Cardinality(UNION {{o} \X (1..res[o].units) : o \in ops})

\* Mutant: a reservation of another operation is not counted.
PendingUnitsIgnored(res, o) == 0

\* Pending units beside the operation's own.  Answers count once per application.
PendingUnits(res, o) ==
  LET pending == PendingOf(res, KindOf[o])
  IN CASE KindOf[o] \in GenerationKinds -> UnitSum(res, pending)
       [] KindOf[o] = "answer_application" ->
            Cardinality({ScopeOf[p] : p \in pending} \ {ScopeOf[o]})
       [] KindOf[o] \in CompanyKinds ->
            UnitSum(res, {p \in pending : ScopeOf[p] = ScopeOf[o]})

Used(com, o) == IF KindOf[o] \in CompanyKinds THEN com[ScopeOf[o]][KindOf[o]]
                                              ELSE counter[KindOf[o]]

LimitFor(o) == IF KindOf[o] \in CompanyKinds THEN CompanyUse ELSE Allowance

Fits(res, com, o) == Used(com, o) + PendingUnits(res, o) + UnitsOf[o] <= LimitFor(o)

\* The company limit is asked of a company that has no row yet.
CompanyFits(com, o) ==
  KindOf[o] \in CompanyKinds /\ ~ com[ScopeOf[o]].row
    => Cardinality({s \in Companies : com[s].row}) < CompanyLimit

\* Reserved without being counted: an unmetered plan, or answers already granted.
Free(o) == ~ metering \/ (KindOf[o] = "answer_application" /\ ScopeOf[o] \in grants)

Reserved(o, now, metered) ==
  [status |-> "reserved", units |-> UnitsOf[o], metered |-> metered,
   linked |-> metered /\ KindOf[o] \in CompanyKinds,
   expires |-> now + ReservationTTL]

WithCompanyRow(com, o) ==
  IF KindOf[o] \in CompanyKinds THEN [com EXCEPT ![ScopeOf[o]].row = TRUE] ELSE com

\* The transaction of a request that took the time before it got the lock.  An
\* operation in progress or already committed throws, and the sweep rolls back with
\* it; a denial keeps the sweep.  MaxClock is a bound: every reservation can expire.
Reserve(c, o, now) ==
  LET res == Swept(now)
      com == Purged(res)
      kept == Unlinked(res, com)
  IN /\ caller[c] = NoOp /\ o \in inPlay
     /\ now + ReservationTTL <= MaxClock
     /\ kept[o].status \notin {"reserved", "committed"}
     /\ \/ /\ Free(o)
           /\ reservation' = [kept EXCEPT ![o] = Reserved(o, now, FALSE)]
           /\ company' = com
           /\ caller' = [caller EXCEPT ![c] = o]
        \/ /\ ~ Free(o) /\ CompanyFits(com, o) /\ Fits(kept, com, o)
           /\ reservation' = [kept EXCEPT ![o] = Reserved(o, now, TRUE)]
           /\ company' = WithCompanyRow(com, o)
           /\ caller' = [caller EXCEPT ![c] = o]
        \/ /\ ~ Free(o) /\ CompanyFits(com, o) /\ ~ Fits(kept, com, o)
           /\ reservation' = kept /\ company' = WithCompanyRow(com, o)
           /\ UNCHANGED caller
        \/ /\ ~ Free(o) /\ ~ CompanyFits(com, o)
           /\ reservation' = kept /\ company' = com
           /\ UNCHANGED caller
     /\ UNCHANGED <<clock, inPlay, metering, counter, grants>>

\* getEntitledUsageReplay, outside the lock: an expired reservation is marked.
ReplayReadExpires(o) ==
  /\ HasExpired(o, clock)
  /\ reservation' = [reservation EXCEPT ![o].status = "expired"]
  /\ UNCHANGED <<clock, inPlay, metering, counter, grants, company, caller>>

-----------------------------------------------------------------------------
(* Settling a reservation, by its row id *)

\* Mutant: the status of the row is not asked again.
MaySettleAny(o) == reservation[o].status # "none"

\* The row is still reserved.  It may have expired and been reserved again since.
MaySettle(o) == reservation[o].status = "reserved"

\* The row, its company row and the count, for units of work done.
CommitUnits(o, units) ==
  LET r == reservation[o]
      kind == KindOf[o]
      first == ScopeOf[o] \notin grants
      counted == IF kind = "answer_application" /\ ~ first THEN 0 ELSE units
      done == [reservation EXCEPT ![o].status = "committed", ![o].units = counted]
  IN IF ~ r.metered
       THEN /\ reservation' = [reservation EXCEPT ![o].status = "committed",
                                                  ![o].units = units]
            /\ UNCHANGED <<counter, grants, company>>
       ELSE /\ reservation' = done
            /\ counter' = IF kind \in CounterKinds
                 THEN [counter EXCEPT ![kind] = @ + counted] ELSE counter
            /\ grants' = IF kind = "answer_application"
                 THEN grants \cup {ScopeOf[o]} ELSE grants
            /\ company' = IF kind \in CompanyKinds
                 THEN [company EXCEPT ![ScopeOf[o]][kind] = @ + units] ELSE company

\* A row that ends without units gives up an unused company row: nobody else's
\* reservation may hold it.
GiveUp(o, status) ==
  LET res == [reservation EXCEPT ![o].status = status, ![o].units = 0,
                ![o].linked = @ /\ status # "committed"]
      com == IF reservation[o].linked THEN [company EXCEPT ![ScopeOf[o]] =
               IF Kept(ScopeOf[o], res) THEN @ ELSE NoCompany] ELSE company
  IN /\ reservation' = Unlinked(res, com) /\ company' = com
     /\ UNCHANGED <<counter, grants>>

\* commitEntitledUsage, commitContactUnlocks and commitOutreachDraftGeneration: a
\* committed row is left as it is, and any other row throws.  Contacts may turn out
\* fewer than reserved, or none, with or without an answer worth replaying.
CommitWork(c, units, replayed) ==
  LET o == caller[c]
  IN /\ o # NoOp
     /\ KindOf[o] # "contact" => units = UnitsOf[o]
     /\ units <= UnitsOf[o]
     /\ IF ~ MaySettle(o) THEN UNCHANGED <<reservation, counter, grants, company>>
        ELSE IF units > 0 THEN CommitUnits(o, units)
        ELSE GiveUp(o, IF replayed THEN "committed" ELSE "released")
     /\ caller' = [caller EXCEPT ![c] = NoOp]
     /\ UNCHANGED <<clock, inPlay, metering>>

\* releaseEntitledUsage.
ReleaseWork(c) ==
  LET o == caller[c]
  IN /\ o # NoOp
     /\ IF MaySettle(o) THEN GiveUp(o, "released")
                        ELSE UNCHANGED <<reservation, counter, grants, company>>
     /\ caller' = [caller EXCEPT ![c] = NoOp]
     /\ UNCHANGED <<clock, inPlay, metering>>

\* The process dies, and the reservation stays.
CallerDies(c) ==
  /\ caller[c] # NoOp
  /\ caller' = [caller EXCEPT ![c] = NoOp]
  /\ UNCHANGED <<clock, inPlay, metering, reservation, counter, grants, company>>

\* The account's plan changes while work is reserved.
PlanChanges ==
  /\ metering' = ~ metering
  /\ UNCHANGED <<clock, inPlay, reservation, counter, grants, company, caller>>

ClockTicks ==
  /\ clock < MaxClock
  /\ clock' = clock + 1
  /\ UNCHANGED <<inPlay, metering, reservation, counter, grants, company, caller>>

EntitlementNext ==
  \/ \E c \in Callers, o \in Ops, now \in {clock - 1, clock} :
       now >= 0 /\ Reserve(c, o, now)
  \/ \E o \in Ops : ReplayReadExpires(o)
  \/ \E c \in Callers, units \in 0..CompanyUse, replayed \in BOOLEAN :
       CommitWork(c, units, replayed)
  \/ \E c \in Callers : ReleaseWork(c) \/ CallerDies(c)
  \/ PlanChanges \/ ClockTicks

\* Time passes, and whoever sent the request asks for its answer again.
EntitlementFairness ==
  /\ WF_entitlementVars(ClockTicks)
  /\ WF_entitlementVars(\E o \in Ops : ReplayReadExpires(o))

-----------------------------------------------------------------------------
(* Properties *)

\* However many calls reserve, settle late, die or are retried: what is used and what
\* is still reserved stay within the trial's limits, the number of companies included.
WithinAllowance ==
  /\ \A k \in GenerationKinds :
       counter[k] + UnitSum(reservation, PendingOf(reservation, k)) <= Allowance
  /\ counter["answer_application"]
       + Cardinality({ScopeOf[o] : o \in PendingOf(reservation, "answer_application")}
                     \ grants) <= Allowance
  /\ \A s \in Companies, k \in CompanyKinds :
       company[s][k] + UnitSum(reservation, {o \in PendingOf(reservation, k) :
                                               ScopeOf[o] = s}) <= CompanyUse
  /\ Cardinality({s \in Companies : company[s].row}) <= CompanyLimit

CommittedMetered(kind) ==
  {o \in Ops : /\ KindOf[o] = kind /\ reservation[o].status = "committed"
               /\ reservation[o].metered}

\* The counters are exactly the committed metered work: nothing is counted twice by a
\* late or repeated settlement, and nothing is lost with a deleted company row.
CountersMatchReservations ==
  /\ \A k \in CounterKinds :
       counter[k] = UnitSum(reservation, CommittedMetered(k))
  /\ \A s \in Companies, k \in CompanyKinds :
       company[s][k] = UnitSum(reservation, {o \in CommittedMetered(k) : ScopeOf[o] = s})

\* Metered work on a company never loses the row its units are counted on.
PendingKeepsCompany ==
  \A o \in Ops :
    /\ reservation[o].status = "reserved" /\ reservation[o].metered
    /\ KindOf[o] \in CompanyKinds
    => reservation[o].linked /\ company[ScopeOf[o]].row

\* The units of a request that died come back: a reservation does not stay once its
\* time is over.
UnitsComeBack ==
  []<>(\A o \in Ops : reservation[o].status = "reserved" => reservation[o].expires > clock)

=============================================================================
