------------------------------ MODULE UsageProofs ------------------------------
(***************************************************************************)
(* Metered usage stays within its limits and is counted exactly, for any   *)
(* number of operations, requests and companies and any limits.  A sum of  *)
(* units is the size of a set, so no induction over data is needed.        *)
(***************************************************************************)
EXTENDS Services, FiniteSetTheorems, TLAPS

-----------------------------------------------------------------------------
(* What a sum of units does *)

UsageRows ==
  [status : {"none", "reserved", "committed", "released", "expired"}, units : Nat,
   metered : BOOLEAN, linked : BOOLEAN, expires : Nat]

\* The units of these rows, one by one.
UnitsIn(res, ops) == UNION {{o} \X (1..res[o].units) : o \in ops}

LEMMA UnitsOfOne ==
  ASSUME NEW o, NEW n \in Nat
  PROVE  IsFiniteSet({o} \X (1..n)) /\ Cardinality({o} \X (1..n)) = n
<1> DEFINE f == [i \in 1..n |-> <<o, i>>]
<1> DEFINE T == {o} \X (1..n)
<1>1. f \in [1..n -> T] /\ \A i \in 1..n : f[i] = <<o, i>>
  OBVIOUS
<1>3. \A t \in T : \E i \in 1..n : t = <<o, i>>
  OBVIOUS
<1>4. f \in Surjection(1..n, T)
  BY <1>1, <1>3 DEF Surjection
<1>5. \A i, j \in 1..n : <<o, i>> = <<o, j>> => i = j
  OBVIOUS
<1>6. f \in Injection(1..n, T)
  BY <1>1, <1>5 DEF Injection, IsInjective
<1>2. IsFiniteSet(1..n) /\ Cardinality(1..n) = n
  BY FS_Interval
<1> HIDE DEF f
<1> QED
  BY <1>2, <1>4, <1>6, FS_Surjection

\* The image of finitely many operations is finite.
LEMMA ImageOfOps ==
  ASSUME NEW ops, IsFiniteSet(ops), NEW f, DOMAIN f = ops
  PROVE  IsFiniteSet({f[o] : o \in ops})
<1> DEFINE g == [o \in ops |-> f[o]]
<1>1. g \in Surjection(ops, {f[o] : o \in ops})
  BY DEF Surjection
<1> QED
  BY <1>1, FS_Surjection

LEMMA UnitSumType ==
  ASSUME NEW res \in [Ops -> UsageRows], NEW ops \in SUBSET Ops
  PROVE  IsFiniteSet(UnitsIn(res, ops)) /\ UnitSum(res, ops) \in Nat
         /\ UnitSum(res, ops) = Cardinality(UnitsIn(res, ops))
<1>1. IsFiniteSet(ops)
  BY OpsAssumption, FS_Subset
<1> DEFINE f == [o \in ops |-> {o} \X (1..res[o].units)]
<1>2. IsFiniteSet({f[o] : o \in ops})
  <2>1. DOMAIN f = ops
    OBVIOUS
  <2> HIDE DEF f
  <2> QED
    BY <1>1, <2>1, ImageOfOps
<1>3. \A o \in ops : IsFiniteSet(f[o])
  <2> TAKE o \in ops
  <2>1. res[o].units \in Nat
    BY DEF UsageRows
  <2> QED
    BY <2>1, UnitsOfOne
<1>4. UnitsIn(res, ops) = UNION {f[o] : o \in ops}
  BY DEF UnitsIn
<1>5. IsFiniteSet(UnitsIn(res, ops))
  <2> HIDE DEF f
  <2> QED
    BY <1>2, <1>3, <1>4, FS_UNION
<1> QED
  BY <1>5, FS_CardinalityType DEF UnitSum, UnitsIn

LEMMA UnitSumSame ==
  ASSUME NEW a \in [Ops -> UsageRows], NEW b \in [Ops -> UsageRows], NEW ops \in SUBSET Ops,
         \A o \in ops : a[o].units = b[o].units
  PROVE  UnitSum(a, ops) = UnitSum(b, ops)
<1>1. {{o} \X (1..a[o].units) : o \in ops} = {{o} \X (1..b[o].units) : o \in ops}
  OBVIOUS
<1> QED
  BY <1>1 DEF UnitSum

LEMMA UnitSumLess ==
  ASSUME NEW res \in [Ops -> UsageRows], NEW more \in SUBSET Ops, NEW ops \in SUBSET more
  PROVE  UnitSum(res, ops) <= UnitSum(res, more)
<1>1. UnitsIn(res, ops) \subseteq UnitsIn(res, more)
  BY DEF UnitsIn
<1>2. IsFiniteSet(UnitsIn(res, more))
  BY UnitSumType
<1>3. Cardinality(UnitsIn(res, ops)) <= Cardinality(UnitsIn(res, more))
  BY <1>1, <1>2, FS_Subset
<1> QED
  BY <1>3, UnitSumType

LEMMA UnitSumAdds ==
  ASSUME NEW res \in [Ops -> UsageRows], NEW ops \in SUBSET Ops, NEW o \in Ops, o \notin ops
  PROVE  UnitSum(res, ops \cup {o}) = UnitSum(res, ops) + res[o].units
<1> DEFINE mine == {o} \X (1..res[o].units)
<1>1. res[o].units \in Nat
  BY DEF UsageRows
<1>2. IsFiniteSet(mine) /\ Cardinality(mine) = res[o].units
  BY <1>1, UnitsOfOne
<1>3. UnitsIn(res, ops \cup {o}) = UnitsIn(res, ops) \cup mine
  BY DEF UnitsIn
<1>4. UnitsIn(res, ops) \cap mine = {}
  BY DEF UnitsIn
<1> HIDE DEF mine
<1>5. IsFiniteSet(UnitsIn(res, ops)) /\ UnitSum(res, ops) = Cardinality(UnitsIn(res, ops))
  BY UnitSumType
<1>6. Cardinality(UnitsIn(res, ops) \cup mine)
        = Cardinality(UnitsIn(res, ops)) + Cardinality(mine) - Cardinality({})
  BY <1>2, <1>4, <1>5, FS_Union
<1>7. Cardinality({}) = 0 /\ Cardinality(UnitsIn(res, ops)) \in Nat
  BY <1>5, FS_EmptySet, FS_CardinalityType
<1>8. UnitSum(res, ops \cup {o}) = Cardinality(UnitsIn(res, ops) \cup mine)
  BY <1>3, UnitSumType
<1> QED
  BY <1>1, <1>2, <1>5, <1>6, <1>7, <1>8

-----------------------------------------------------------------------------
(* Rows that are pending and rows that are counted *)

Pending(res, o) == res[o].status = "reserved" /\ res[o].metered
Counted(res, o) == res[o].status = "committed" /\ res[o].metered

PendingSum(res, group) == UnitSum(res, {o \in group : Pending(res, o)})
CountedSum(res, group) == UnitSum(res, {o \in group : Counted(res, o)})

SameRow(a, b, o) ==
  b[o].status = a[o].status /\ b[o].metered = a[o].metered /\ b[o].units = a[o].units

\* Rows b have no pending row that a has not, and the same counted ones.
Fewer(a, b) ==
  \A o \in Ops :
    /\ Pending(b, o) => Pending(a, o) /\ b[o].units = a[o].units
    /\ Counted(b, o) <=> Counted(a, o)
    /\ Counted(b, o) => b[o].units = a[o].units

\* Row o becomes pending; or it was, and is counted now.
BecomesPending(a, b, o) ==
  /\ ~ Pending(a, o) /\ ~ Counted(a, o) /\ Pending(b, o)
  /\ \A p \in Ops : p # o => SameRow(a, b, p)
BecomesCounted(a, b, o) ==
  /\ Pending(a, o) /\ Counted(b, o)
  /\ \A p \in Ops : p # o => SameRow(a, b, p)

LEMMA SumTypes ==
  ASSUME NEW a \in [Ops -> UsageRows], NEW group \in SUBSET Ops
  PROVE  PendingSum(a, group) \in Nat /\ CountedSum(a, group) \in Nat
<1>1. {o \in group : Pending(a, o)} \in SUBSET Ops /\ {o \in group : Counted(a, o)} \in SUBSET Ops
  OBVIOUS
<1> QED
  BY <1>1, UnitSumType DEF PendingSum, CountedSum

LEMMA FewerSum ==
  ASSUME NEW a \in [Ops -> UsageRows], NEW b \in [Ops -> UsageRows], Fewer(a, b),
         NEW group \in SUBSET Ops
  PROVE  PendingSum(b, group) <= PendingSum(a, group) /\ CountedSum(b, group) = CountedSum(a, group)
<1> DEFINE before == {o \in group : Pending(a, o)}
           after == {o \in group : Pending(b, o)}
           counted == {o \in group : Counted(a, o)}
<1>1. after \subseteq before /\ before \subseteq Ops /\ \A o \in after : b[o].units = a[o].units
  BY DEF Fewer
<1>2. counted = {o \in group : Counted(b, o)} /\ counted \subseteq Ops
      /\ \A o \in counted : b[o].units = a[o].units
  BY DEF Fewer
<1>3. PendingSum(a, group) = UnitSum(a, before) /\ PendingSum(b, group) = UnitSum(b, after)
      /\ CountedSum(a, group) = UnitSum(a, counted) /\ CountedSum(b, group) = UnitSum(b, counted)
  BY <1>2 DEF PendingSum, CountedSum
<1> HIDE DEF before, after, counted
<1>4. UnitSum(b, after) = UnitSum(a, after) /\ UnitSum(b, counted) = UnitSum(a, counted)
  BY <1>1, <1>2, UnitSumSame
<1>5. UnitSum(a, after) <= UnitSum(a, before)
  BY <1>1, UnitSumLess
<1> QED
  BY <1>3, <1>4, <1>5

LEMMA BecomesPendingSum ==
  ASSUME NEW a \in [Ops -> UsageRows], NEW b \in [Ops -> UsageRows], NEW o \in Ops,
         BecomesPending(a, b, o), NEW group \in SUBSET Ops
  PROVE  /\ CountedSum(b, group) = CountedSum(a, group)
         /\ o \in group => PendingSum(b, group) = PendingSum(a, group) + b[o].units
         /\ o \notin group => PendingSum(b, group) = PendingSum(a, group)
<1> DEFINE before == {p \in group : Pending(a, p)}
           after == {p \in group : Pending(b, p)}
           counted == {p \in group : Counted(a, p)}
<1>1. /\ before \subseteq Ops /\ counted \subseteq Ops /\ o \notin before
      /\ counted = {p \in group : Counted(b, p)}
      /\ \A p \in before \cup counted : b[p].units = a[p].units
  BY DEF BecomesPending, SameRow, Pending, Counted
<1>2. o \in group => after = before \cup {o}
  BY DEF BecomesPending, SameRow, Pending
<1>3. o \notin group => after = before
  BY DEF BecomesPending, SameRow, Pending
<1>4. PendingSum(a, group) = UnitSum(a, before) /\ PendingSum(b, group) = UnitSum(b, after)
      /\ CountedSum(a, group) = UnitSum(a, counted) /\ CountedSum(b, group) = UnitSum(b, counted)
  BY <1>1 DEF PendingSum, CountedSum
<1> HIDE DEF before, after, counted
<1>5. UnitSum(b, before) = UnitSum(a, before) /\ UnitSum(b, counted) = UnitSum(a, counted)
  BY <1>1, UnitSumSame
<1>6. UnitSum(b, before \cup {o}) = UnitSum(b, before) + b[o].units
  BY <1>1, UnitSumAdds
<1> QED
  BY <1>2, <1>3, <1>4, <1>5, <1>6

LEMMA BecomesCountedSum ==
  ASSUME NEW a \in [Ops -> UsageRows], NEW b \in [Ops -> UsageRows], NEW o \in Ops,
         BecomesCounted(a, b, o), NEW group \in SUBSET Ops
  PROVE  /\ o \in group => /\ PendingSum(b, group) + a[o].units = PendingSum(a, group)
                           /\ CountedSum(b, group) = CountedSum(a, group) + b[o].units
         /\ o \notin group => /\ PendingSum(b, group) = PendingSum(a, group)
                              /\ CountedSum(b, group) = CountedSum(a, group)
<1> DEFINE before == {p \in group : Pending(a, p)}
           after == {p \in group : Pending(b, p)}
           counted == {p \in group : Counted(a, p)}
           now == {p \in group : Counted(b, p)}
<1>1. /\ after \subseteq Ops /\ counted \subseteq Ops /\ o \notin after /\ o \notin counted
      /\ \A p \in after \cup counted : b[p].units = a[p].units
  BY DEF BecomesCounted, SameRow, Pending, Counted
<1>2. o \in group => before = after \cup {o} /\ now = counted \cup {o}
  BY DEF BecomesCounted, SameRow, Pending, Counted
<1>3. o \notin group => before = after /\ now = counted
  BY DEF BecomesCounted, SameRow, Pending, Counted
<1>4. PendingSum(a, group) = UnitSum(a, before) /\ PendingSum(b, group) = UnitSum(b, after)
      /\ CountedSum(a, group) = UnitSum(a, counted) /\ CountedSum(b, group) = UnitSum(b, now)
  BY DEF PendingSum, CountedSum
<1> HIDE DEF before, after, counted, now
<1>5. UnitSum(b, after) = UnitSum(a, after) /\ UnitSum(b, counted) = UnitSum(a, counted)
  BY <1>1, UnitSumSame
<1>6. UnitSum(a, after \cup {o}) = UnitSum(a, after) + a[o].units
      /\ UnitSum(b, counted \cup {o}) = UnitSum(b, counted) + b[o].units
  BY <1>1, UnitSumAdds
<1> QED
  BY <1>2, <1>3, <1>4, <1>5, <1>6

\* The applications of which answers are pending.
PendingScopes(res) == {ScopeOf[o] : o \in PendingOf(res, "answer_application")}

LEMMA PendingScopesFinite ==
  ASSUME NEW res \in [Ops -> UsageRows], NEW some \in SUBSET PendingScopes(res)
  PROVE  IsFiniteSet(some) /\ Cardinality(some) \in Nat
<1> DEFINE ops == PendingOf(res, "answer_application")
           f == [o \in ops |-> ScopeOf[o]]
<1>1. ops \subseteq Ops
  BY DEF PendingOf
<1>2. IsFiniteSet(ops)
  BY <1>1, OpsAssumption, FS_Subset
<1>3. DOMAIN f = ops /\ PendingScopes(res) = {f[o] : o \in ops}
  BY DEF PendingScopes
<1> HIDE DEF f, ops
<1>4. IsFiniteSet(PendingScopes(res))
  BY <1>2, <1>3, ImageOfOps
<1> QED
  BY <1>4, FS_Subset, FS_CardinalityType

-----------------------------------------------------------------------------
(* Limits and counts *)

OfKind(k) == {o \in Ops : KindOf[o] = k}
OfCompany(s, k) == {o \in Ops : KindOf[o] = k /\ ScopeOf[o] = s}

\* Rows res with companies com, counters cnt and granted applications gr are within the limits.
Within(res, com, cnt, gr) ==
  /\ \A k \in GenerationKinds : cnt[k] + PendingSum(res, OfKind(k)) <= Allowance
  /\ cnt["answer_application"] + Cardinality(PendingScopes(res) \ gr) <= Allowance
  /\ \A s \in Companies, k \in CompanyKinds :
       com[s][k] + PendingSum(res, OfCompany(s, k)) <= CompanyUse

\* The counters are the counted rows.
Matches(res, com, cnt) ==
  /\ \A k \in CounterKinds : cnt[k] = CountedSum(res, OfKind(k))
  /\ \A s \in Companies, k \in CompanyKinds : com[s][k] = CountedSum(res, OfCompany(s, k))

SameCounts(com, new) == \A s \in Companies, k \in CompanyKinds : new[s][k] = com[s][k]

LEMMA MatchTypes ==
  ASSUME NEW a \in [Ops -> UsageRows], NEW com, NEW cnt, Matches(a, com, cnt)
  PROVE  /\ \A k \in CounterKinds : cnt[k] \in Nat /\ PendingSum(a, OfKind(k)) \in Nat
         /\ \A s \in Companies, k \in CompanyKinds :
              com[s][k] \in Nat /\ PendingSum(a, OfCompany(s, k)) \in Nat
         /\ \A k : OfKind(k) \in SUBSET Ops
         /\ \A s, k : OfCompany(s, k) \in SUBSET Ops
         /\ \A x : Cardinality(PendingScopes(a) \ x) \in Nat
<1>1. \A k : OfKind(k) \in SUBSET Ops
  BY DEF OfKind
<1>2. \A s, k : OfCompany(s, k) \in SUBSET Ops
  BY DEF OfCompany
<1>3. \A x : PendingScopes(a) \ x \in SUBSET PendingScopes(a)
  OBVIOUS
<1> QED
  BY <1>1, <1>2, <1>3, SumTypes, PendingScopesFinite DEF Matches

LEMMA FewerKeeps ==
  ASSUME NEW a \in [Ops -> UsageRows], NEW b \in [Ops -> UsageRows], Fewer(a, b),
         NEW com, NEW new, SameCounts(com, new), NEW cnt, NEW gr,
         Within(a, com, cnt, gr), Matches(a, com, cnt)
  PROVE  Within(b, new, cnt, gr) /\ Matches(b, new, cnt)
<1>1. /\ \A k : PendingSum(b, OfKind(k)) <= PendingSum(a, OfKind(k))
                /\ CountedSum(b, OfKind(k)) = CountedSum(a, OfKind(k))
                /\ PendingSum(b, OfKind(k)) \in Nat
      /\ \A s, k : PendingSum(b, OfCompany(s, k)) <= PendingSum(a, OfCompany(s, k))
                   /\ CountedSum(b, OfCompany(s, k)) = CountedSum(a, OfCompany(s, k))
                   /\ PendingSum(b, OfCompany(s, k)) \in Nat
  BY FewerSum, SumTypes, MatchTypes
<1>2. Matches(b, new, cnt)
  BY <1>1 DEF Matches, SameCounts
<1>3. Cardinality(PendingScopes(b) \ gr) <= Cardinality(PendingScopes(a) \ gr)
  <2>1. PendingScopes(b) \ gr \subseteq PendingScopes(a) \ gr
    BY DEF PendingScopes, PendingOf, Fewer, Pending
  <2>2. IsFiniteSet(PendingScopes(a) \ gr)
    BY PendingScopesFinite
  <2> QED
    BY <2>1, <2>2, FS_Subset
<1>4. Within(b, new, cnt, gr)
  <2>1. \A k \in GenerationKinds : cnt[k] + PendingSum(b, OfKind(k)) <= Allowance
    <3> TAKE k \in GenerationKinds
    <3>1. k \in CounterKinds
      BY DEF CounterKinds
    <3>2. cnt[k] + PendingSum(a, OfKind(k)) <= Allowance
      BY DEF Within
    <3> QED
      BY <1>1, <3>1, <3>2, MatchTypes, LimitsAssumption
  <2>2. cnt["answer_application"] + Cardinality(PendingScopes(b) \ gr) <= Allowance
    <3>1. "answer_application" \in CounterKinds
      BY DEF CounterKinds
    <3>2. Cardinality(PendingScopes(b) \ gr) \in Nat
      BY <1>2, MatchTypes
    <3>3. cnt["answer_application"] + Cardinality(PendingScopes(a) \ gr) <= Allowance
      BY DEF Within
    <3>4. cnt["answer_application"] \in Nat /\ Cardinality(PendingScopes(a) \ gr) \in Nat
      BY <3>1, MatchTypes
    <3> QED
      BY <1>3, <3>2, <3>3, <3>4, LimitsAssumption
  <2>3. \A s \in Companies, k \in CompanyKinds :
          new[s][k] + PendingSum(b, OfCompany(s, k)) <= CompanyUse
    <3> TAKE s \in Companies, k \in CompanyKinds
    <3>1. com[s][k] + PendingSum(a, OfCompany(s, k)) <= CompanyUse
      BY DEF Within
    <3>2. com[s][k] \in Nat /\ PendingSum(a, OfCompany(s, k)) \in Nat /\ new[s][k] = com[s][k]
      BY MatchTypes DEF SameCounts
    <3>3. PendingSum(b, OfCompany(s, k)) \in Nat
          /\ PendingSum(b, OfCompany(s, k)) <= PendingSum(a, OfCompany(s, k))
      BY <1>1
    <3> QED
      BY <3>1, <3>2, <3>3, LimitsAssumption
  <2> QED
    BY <2>1, <2>2, <2>3 DEF Within
<1> QED
  BY <1>2, <1>4

\* A row that becomes pending when its units fit.
LEMMA ReservedKeeps ==
  ASSUME NEW a \in [Ops -> UsageRows], NEW b \in [Ops -> UsageRows], NEW o \in Ops,
         BecomesPending(a, b, o), b[o].units = UnitsOf[o],
         NEW com, NEW new, SameCounts(com, new), NEW cnt, NEW gr,
         Within(a, com, cnt, gr), Matches(a, com, cnt),
         KindOf[o] \in GenerationKinds =>
           cnt[KindOf[o]] + PendingSum(a, OfKind(KindOf[o])) + UnitsOf[o] <= Allowance,
         KindOf[o] = "answer_application" =>
           cnt[KindOf[o]] + Cardinality(PendingScopes(a) \ {ScopeOf[o]}) + UnitsOf[o] <= Allowance,
         KindOf[o] \in CompanyKinds =>
           com[ScopeOf[o]][KindOf[o]] + PendingSum(a, OfCompany(ScopeOf[o], KindOf[o]))
             + UnitsOf[o] <= CompanyUse
  PROVE  Within(b, new, cnt, gr) /\ Matches(b, new, cnt)
<1>1. /\ \A k : OfKind(k) \in SUBSET Ops
      /\ \A s, k : OfCompany(s, k) \in SUBSET Ops
  BY DEF OfKind, OfCompany
<1>2. Matches(b, new, cnt)
  BY <1>1, BecomesPendingSum DEF Matches, SameCounts
<1>3. \A k \in GenerationKinds : cnt[k] + PendingSum(b, OfKind(k)) <= Allowance
  <2> TAKE k \in GenerationKinds
  <2>1. k \in CounterKinds /\ cnt[k] + PendingSum(a, OfKind(k)) <= Allowance
    BY DEF CounterKinds, Within
  <2>2. CASE KindOf[o] = k
    <3>1. o \in OfKind(k)
      BY <2>2 DEF OfKind
    <3>2. PendingSum(b, OfKind(k)) = PendingSum(a, OfKind(k)) + UnitsOf[o]
      BY <1>1, <3>1, BecomesPendingSum
    <3>3. cnt[k] \in Nat /\ PendingSum(a, OfKind(k)) \in Nat /\ UnitsOf[o] \in Nat
      BY <2>1, MatchTypes, OpsAssumption
    <3> QED
      BY <2>2, <3>2, <3>3, LimitsAssumption
  <2>3. CASE KindOf[o] # k
    <3>1. o \notin OfKind(k)
      BY <2>3 DEF OfKind
    <3>2. PendingSum(b, OfKind(k)) = PendingSum(a, OfKind(k))
      BY <1>1, <3>1, BecomesPendingSum
    <3> QED
      BY <2>1, <3>2
  <2> QED
    BY <2>2, <2>3
<1>4. cnt["answer_application"] + Cardinality(PendingScopes(b) \ gr) <= Allowance
  <2>1. "answer_application" \in CounterKinds
        /\ cnt["answer_application"] + Cardinality(PendingScopes(a) \ gr) <= Allowance
    BY DEF CounterKinds, Within
  <2>2. \A p \in Ops : p # o => (Pending(b, p) <=> Pending(a, p))
    BY DEF BecomesPending, SameRow, Pending
  <2>3. CASE KindOf[o] # "answer_application"
    <3>1. PendingScopes(b) = PendingScopes(a)
      BY <2>2, <2>3 DEF PendingScopes, PendingOf, Pending
    <3> QED
      BY <2>1, <3>1
  <2>4. CASE KindOf[o] = "answer_application"
    <3> DEFINE others == PendingScopes(a) \ {ScopeOf[o]}
    <3>1. PendingScopes(b) \ gr \subseteq others \cup {ScopeOf[o]}
      BY <2>2 DEF PendingScopes, PendingOf, Pending
    <3>2. IsFiniteSet(others) /\ Cardinality(others) \in Nat
      BY PendingScopesFinite
    <3>3. IsFiniteSet(others \cup {ScopeOf[o]})
          /\ Cardinality(others \cup {ScopeOf[o]}) = Cardinality(others) + 1
      BY <3>2, FS_AddElement
    <3>4. Cardinality(PendingScopes(b) \ gr) <= Cardinality(others) + 1
      BY <3>1, <3>3, FS_Subset
    <3>5. UnitsOf[o] = 1
      BY <2>4, OpsAssumption
    <3>6. cnt["answer_application"] \in Nat /\ Cardinality(PendingScopes(b) \ gr) \in Nat
      BY <1>2, <2>1, MatchTypes
    <3>7. cnt["answer_application"] + Cardinality(others) + 1 <= Allowance
      BY <2>4, <3>5
    <3> HIDE DEF others
    <3> QED
      BY <3>2, <3>4, <3>6, <3>7, LimitsAssumption
  <2> QED
    BY <2>3, <2>4
<1>5. \A s \in Companies, k \in CompanyKinds :
        new[s][k] + PendingSum(b, OfCompany(s, k)) <= CompanyUse
  <2> TAKE s \in Companies, k \in CompanyKinds
  <2>1. com[s][k] + PendingSum(a, OfCompany(s, k)) <= CompanyUse /\ new[s][k] = com[s][k]
    BY DEF Within, SameCounts
  <2>2. CASE KindOf[o] = k /\ ScopeOf[o] = s
    <3>1. o \in OfCompany(s, k)
      BY <2>2 DEF OfCompany
    <3>2. PendingSum(b, OfCompany(s, k)) = PendingSum(a, OfCompany(s, k)) + UnitsOf[o]
      BY <1>1, <3>1, BecomesPendingSum
    <3>3. com[s][k] \in Nat /\ PendingSum(a, OfCompany(s, k)) \in Nat /\ UnitsOf[o] \in Nat
      BY MatchTypes, OpsAssumption
    <3> QED
      BY <2>1, <2>2, <3>2, <3>3, LimitsAssumption
  <2>3. CASE ~ (KindOf[o] = k /\ ScopeOf[o] = s)
    <3>1. o \notin OfCompany(s, k)
      BY <2>3 DEF OfCompany
    <3>2. PendingSum(b, OfCompany(s, k)) = PendingSum(a, OfCompany(s, k))
      BY <1>1, <3>1, BecomesPendingSum
    <3> QED
      BY <2>1, <3>2
  <2> QED
    BY <2>2, <2>3
<1> QED
  BY <1>2, <1>3, <1>4, <1>5 DEF Within

\* What a committed row is counted on: its kind's counter or its company's.
Counts(o, units, com, new, cnt, after, gr, granted) ==
  /\ \A k \in CounterKinds : after[k] = IF KindOf[o] = k THEN cnt[k] + units ELSE cnt[k]
  /\ \A s \in Companies, k \in CompanyKinds :
       new[s][k] = IF KindOf[o] = k /\ ScopeOf[o] = s THEN com[s][k] + units ELSE com[s][k]
  /\ granted = IF KindOf[o] = "answer_application" /\ units > 0 THEN gr \cup {ScopeOf[o]} ELSE gr
  /\ KindOf[o] = "answer_application" /\ ScopeOf[o] \in gr => units = 0

LEMMA CommittedKeeps ==
  ASSUME NEW a \in [Ops -> UsageRows], NEW b \in [Ops -> UsageRows], NEW o \in Ops,
         BecomesCounted(a, b, o), a[o].units = UnitsOf[o], b[o].units <= UnitsOf[o],
         NEW com, NEW new, NEW cnt, NEW after, NEW gr, NEW granted,
         Counts(o, b[o].units, com, new, cnt, after, gr, granted),
         Within(a, com, cnt, gr), Matches(a, com, cnt)
  PROVE  Within(b, new, after, granted) /\ Matches(b, new, after)
<1>1. /\ \A k : OfKind(k) \in SUBSET Ops
      /\ \A s, k : OfCompany(s, k) \in SUBSET Ops
  BY DEF OfKind, OfCompany
<1>2. b[o].units \in Nat /\ a[o].units \in Nat
  BY DEF UsageRows
<1>3. /\ \A k : o \in OfKind(k) <=> KindOf[o] = k
      /\ \A s, k : o \in OfCompany(s, k) <=> KindOf[o] = k /\ ScopeOf[o] = s
  BY DEF OfKind, OfCompany
<1>4. Matches(b, new, after)
  BY <1>1, <1>3, BecomesCountedSum DEF Matches, Counts
<1>5. \A k \in GenerationKinds : after[k] + PendingSum(b, OfKind(k)) <= Allowance
  <2> TAKE k \in GenerationKinds
  <2>1. k \in CounterKinds /\ cnt[k] + PendingSum(a, OfKind(k)) <= Allowance
    BY DEF CounterKinds, Within
  <2>2. cnt[k] \in Nat /\ PendingSum(b, OfKind(k)) \in Nat
    BY <1>1, <2>1, MatchTypes, SumTypes
  <2>3. CASE KindOf[o] = k
    <3>1. PendingSum(b, OfKind(k)) + a[o].units = PendingSum(a, OfKind(k))
      BY <1>1, <1>3, <2>3, BecomesCountedSum
    <3>2. after[k] = cnt[k] + b[o].units
      BY <2>1, <2>3 DEF Counts
    <3> QED
      BY <1>2, <2>1, <2>2, <3>1, <3>2, LimitsAssumption
  <2>4. CASE KindOf[o] # k
    <3>1. PendingSum(b, OfKind(k)) = PendingSum(a, OfKind(k))
      BY <1>1, <1>3, <2>4, BecomesCountedSum
    <3>2. after[k] = cnt[k]
      BY <2>1, <2>4 DEF Counts
    <3> QED
      BY <2>1, <3>1, <3>2
  <2> QED
    BY <2>3, <2>4
<1>6. \A s \in Companies, k \in CompanyKinds :
        new[s][k] + PendingSum(b, OfCompany(s, k)) <= CompanyUse
  <2> TAKE s \in Companies, k \in CompanyKinds
  <2>1. com[s][k] + PendingSum(a, OfCompany(s, k)) <= CompanyUse
    BY DEF Within
  <2>2. com[s][k] \in Nat /\ PendingSum(b, OfCompany(s, k)) \in Nat
    BY <1>1, MatchTypes, SumTypes
  <2>3. CASE KindOf[o] = k /\ ScopeOf[o] = s
    <3>1. PendingSum(b, OfCompany(s, k)) + a[o].units = PendingSum(a, OfCompany(s, k))
      BY <1>1, <1>3, <2>3, BecomesCountedSum
    <3>2. new[s][k] = com[s][k] + b[o].units
      BY <2>3 DEF Counts
    <3> QED
      BY <1>2, <2>1, <2>2, <3>1, <3>2, LimitsAssumption
  <2>4. CASE ~ (KindOf[o] = k /\ ScopeOf[o] = s)
    <3>1. PendingSum(b, OfCompany(s, k)) = PendingSum(a, OfCompany(s, k))
      BY <1>1, <1>3, <2>4, BecomesCountedSum
    <3>2. new[s][k] = com[s][k]
      BY <2>4 DEF Counts
    <3> QED
      BY <2>1, <3>1, <3>2
  <2> QED
    BY <2>3, <2>4
<1>7. after["answer_application"] + Cardinality(PendingScopes(b) \ granted) <= Allowance
  <2>1. "answer_application" \in CounterKinds
        /\ cnt["answer_application"] + Cardinality(PendingScopes(a) \ gr) <= Allowance
    BY DEF CounterKinds, Within
  <2>2. cnt["answer_application"] \in Nat /\ Cardinality(PendingScopes(b) \ granted) \in Nat
        /\ Cardinality(PendingScopes(a) \ gr) \in Nat /\ IsFiniteSet(PendingScopes(a) \ gr)
    BY <1>4, <2>1, MatchTypes, PendingScopesFinite
  <2>3. PendingScopes(b) \subseteq PendingScopes(a)
    BY DEF PendingScopes, PendingOf, BecomesCounted, SameRow, Pending, Counted
  <2>4. CASE KindOf[o] = "answer_application" /\ b[o].units > 0
    <3>1. ScopeOf[o] \in PendingScopes(a) \ gr
      <4>1. o \in PendingOf(a, "answer_application")
        BY <2>4 DEF PendingOf, BecomesCounted, Pending
      <4> QED
        BY <1>2, <2>4, <4>1 DEF PendingScopes, Counts
    <3>2. granted = gr \cup {ScopeOf[o]} /\ after["answer_application"] = cnt["answer_application"] + b[o].units
      BY <2>1, <2>4 DEF Counts
    <3> DEFINE left == (PendingScopes(a) \ gr) \ {ScopeOf[o]}
    <3>3. IsFiniteSet(left) /\ Cardinality(left) = Cardinality(PendingScopes(a) \ gr) - 1
      BY <2>2, <3>1, FS_RemoveElement
    <3>4. PendingScopes(b) \ granted \subseteq left
      BY <2>3, <3>2
    <3>5. Cardinality(PendingScopes(b) \ granted) <= Cardinality(left)
      BY <3>3, <3>4, FS_Subset
    <3>6. UnitsOf[o] = 1
      BY <2>4, OpsAssumption
    <3> HIDE DEF left
    <3> QED
      BY <1>2, <2>1, <2>2, <3>2, <3>3, <3>5, <3>6, LimitsAssumption
  <2>5. CASE ~ (KindOf[o] = "answer_application" /\ b[o].units > 0)
    <3>1. granted = gr /\ after["answer_application"] = cnt["answer_application"]
      BY <1>2, <2>1, <2>2, <2>5 DEF Counts
    <3>2. Cardinality(PendingScopes(b) \ granted) <= Cardinality(PendingScopes(a) \ gr)
      BY <2>2, <2>3, <3>1, FS_Subset
    <3> QED
      BY <2>1, <2>2, <3>1, <3>2, LimitsAssumption
  <2> QED
    BY <2>4, <2>5
<1> QED
  BY <1>4, <1>5, <1>6, <1>7 DEF Within

-----------------------------------------------------------------------------
(* The inductive invariant *)

CompanyRows == [row : BOOLEAN, contact : Nat, draft : Nat]

\* A reserved row has the units that were asked for, and only work on a company is linked.
RowsAsAsked(res) ==
  \A o \in Ops : /\ res[o].status = "reserved" => res[o].units = UnitsOf[o]
                 /\ res[o].linked => KindOf[o] \in CompanyKinds

\* PendingKeepsCompany, of any rows.
PendingLinked(res, com) ==
  \A o \in Ops :
    Pending(res, o) /\ KindOf[o] \in CompanyKinds => res[o].linked /\ com[ScopeOf[o]].row

CompaniesWithin(com) == Cardinality({s \in Companies : com[s].row}) <= CompanyLimit

\* Rows, companies, counters and granted applications that go together.
Accounts(res, com, cnt, gr) ==
  /\ res \in [Ops -> UsageRows] /\ com \in [Companies -> CompanyRows]
  /\ cnt \in [CounterKinds -> Nat]
  /\ RowsAsAsked(res) /\ PendingLinked(res, com) /\ CompaniesWithin(com)
  /\ Within(res, com, cnt, gr) /\ Matches(res, com, cnt)

UsageInv ==
  /\ clock \in Nat /\ caller \in [Callers -> Ops \cup {NoOp}]
  /\ Accounts(reservation, company, counter, grants)

LEMMA CompaniesFinite ==
  ASSUME NEW some \in SUBSET Companies PROVE IsFiniteSet(some) /\ Cardinality(some) \in Nat
<1> DEFINE ops == {p \in Ops : KindOf[p] \in CompanyKinds}
           f == [o \in ops |-> ScopeOf[o]]
<1>1. IsFiniteSet(ops)
  BY OpsAssumption, FS_Subset
<1>2. DOMAIN f = ops /\ Companies = {f[o] : o \in ops}
  BY DEF Companies
<1> HIDE DEF f, ops
<1>3. IsFiniteSet(Companies)
  BY <1>1, <1>2, ImageOfOps
<1> QED
  BY <1>3, FS_Subset, FS_CardinalityType

LEMMA ScopeIsCompany ==
  ASSUME NEW o \in Ops, KindOf[o] \in CompanyKinds PROVE ScopeOf[o] \in Companies
BY DEF Companies

\* Rows of which no more are pending.
LEMMA FewerAccounts ==
  ASSUME NEW a, NEW b \in [Ops -> UsageRows], NEW com, NEW cnt, NEW gr,
         Accounts(a, com, cnt, gr), Fewer(a, b), RowsAsAsked(b), PendingLinked(b, com)
  PROVE  Accounts(b, com, cnt, gr)
<1>1. SameCounts(com, com)
  BY DEF SameCounts
<1> QED
  BY <1>1, FewerKeeps DEF Accounts

\* Company rows that are unused and that nobody holds are deleted.
LEMMA PurgeAccounts ==
  ASSUME NEW res, NEW com, NEW cnt, NEW gr, Accounts(res, company, cnt, gr),
         com = [s \in Companies |-> com[s]],
         \A s \in Companies : com[s] = company[s] \/ (~ Kept(s, res) /\ com[s] = NoCompany)
  PROVE  Accounts(Unlinked(res, com), com, cnt, gr)
<1> DEFINE b == Unlinked(res, com)
<1>1. res \in [Ops -> UsageRows] /\ company \in [Companies -> CompanyRows]
  BY DEF Accounts
<1>2. \A r \in UsageRows :
        /\ [r EXCEPT !.linked = FALSE] \in UsageRows
        /\ [r EXCEPT !.linked = FALSE].status = r.status
        /\ [r EXCEPT !.linked = FALSE].metered = r.metered
        /\ [r EXCEPT !.linked = FALSE].units = r.units
        /\ ~ [r EXCEPT !.linked = FALSE].linked
  BY DEF UsageRows
<1>3. /\ b \in [Ops -> UsageRows]
      /\ \A o \in Ops : SameRow(res, b, o) /\ (b[o].linked => res[o].linked)
      /\ \A o \in Ops : b[o] = res[o] \/ ~ com[ScopeOf[o]].row
  BY <1>1, <1>2 DEF Unlinked, SameRow
<1>4. \A s \in Companies : ~ Kept(s, res) => company[s].contact = 0 /\ company[s].draft = 0
  BY <1>1 DEF Kept, CompanyRows
<1>5. NoCompany \in CompanyRows /\ ~ NoCompany.row /\ NoCompany.contact = 0 /\ NoCompany.draft = 0
  BY DEF NoCompany, CompanyRows
<1>6. \A s \in Companies : /\ com[s] \in CompanyRows /\ com[s].contact = company[s].contact
                           /\ com[s].draft = company[s].draft /\ (com[s].row => company[s].row)
  BY <1>1, <1>4, <1>5
<1>7. com \in [Companies -> CompanyRows]
  BY <1>6
<1>8. SameCounts(company, com)
  <2>1. \A s \in Companies : com[s]["contact"] = company[s]["contact"] /\ com[s]["draft"] = company[s]["draft"]
    BY <1>6
  <2> QED
    BY <2>1 DEF SameCounts, CompanyKinds
<1>9. Fewer(res, b)
  BY <1>3 DEF Fewer, SameRow, Pending, Counted
<1>10. RowsAsAsked(b)
  BY <1>3 DEF RowsAsAsked, SameRow, Accounts
<1>11. PendingLinked(b, com)
  <2> SUFFICES ASSUME NEW o \in Ops, Pending(b, o), KindOf[o] \in CompanyKinds
               PROVE  b[o].linked /\ com[ScopeOf[o]].row
    BY DEF PendingLinked
  <2>1. Pending(res, o) /\ res[o].linked /\ company[ScopeOf[o]].row
    BY <1>3 DEF SameRow, Pending, Accounts, PendingLinked
  <2>2. Kept(ScopeOf[o], res)
    BY <2>1 DEF Kept, HoldsCompany, Pending
  <2>3. com[ScopeOf[o]] = company[ScopeOf[o]]
    BY <2>2, ScopeIsCompany
  <2> QED
    BY <1>3, <2>1, <2>3
<1>12. CompaniesWithin(com)
  <2> DEFINE before == {s \in Companies : company[s].row}
             after == {s \in Companies : com[s].row}
  <2>1. after \subseteq before /\ IsFiniteSet(before)
    BY <1>6, CompaniesFinite
  <2>2. Cardinality(after) <= Cardinality(before) /\ Cardinality(before) <= CompanyLimit
    BY <2>1, FS_Subset DEF Accounts, CompaniesWithin
  <2>3. Cardinality(after) \in Nat /\ Cardinality(before) \in Nat
    BY CompaniesFinite
  <2> HIDE DEF before
  <2> QED
    BY <2>2, <2>3, LimitsAssumption DEF CompaniesWithin
<1> HIDE DEF b
<1>13. Within(b, com, cnt, gr) /\ Matches(b, com, cnt)
  BY <1>1, <1>3, <1>8, <1>9, FewerKeeps DEF Accounts
<1> QED
  BY <1>3, <1>7, <1>10, <1>11, <1>12, <1>13 DEF Accounts, b

-----------------------------------------------------------------------------
(* Reserving *)

LEMMA StatusField ==
  ASSUME NEW r \in UsageRows, NEW x \in {"none", "reserved", "committed", "released", "expired"}
  PROVE  /\ [r EXCEPT !.status = x] \in UsageRows /\ [r EXCEPT !.status = x].status = x
         /\ [r EXCEPT !.status = x].units = r.units /\ [r EXCEPT !.status = x].metered = r.metered
         /\ [r EXCEPT !.status = x].linked = r.linked
BY DEF UsageRows

\* The rows after expired reservations were marked.
LEMMA SweptAccounts ==
  ASSUME NEW cnt, NEW gr, Accounts(reservation, company, cnt, gr), NEW now
  PROVE  /\ Accounts(Swept(now), company, cnt, gr)
         /\ \A o \in Ops : Swept(now)[o].status = "committed" <=> reservation[o].status = "committed"
<1> DEFINE res == Swept(now)
<1>1. reservation \in [Ops -> UsageRows]
  BY DEF Accounts
<1>2. \A o \in Ops :
        \/ res[o] = reservation[o]
        \/ reservation[o].status = "reserved" /\ res[o] = [reservation[o] EXCEPT !.status = "expired"]
  BY DEF Swept, HasExpired
<1>3. res = [o \in Ops |-> res[o]]
  BY DEF Swept
<1> HIDE DEF res
<1>4. \A o \in Ops :
        /\ res[o] \in UsageRows
        /\ \/ res[o] = reservation[o]
           \/ /\ reservation[o].status = "reserved" /\ res[o].status = "expired"
              /\ res[o].linked = reservation[o].linked
  <2> TAKE o \in Ops
  <2>1. reservation[o] \in UsageRows
    BY <1>1
  <2>2. CASE res[o] = reservation[o]
    BY <2>1, <2>2
  <2>3. CASE /\ reservation[o].status = "reserved"
             /\ res[o] = [reservation[o] EXCEPT !.status = "expired"]
    <3>1. \A r \in UsageRows : /\ [r EXCEPT !.status = "expired"] \in UsageRows
                                /\ [r EXCEPT !.status = "expired"].status = "expired"
                                /\ [r EXCEPT !.status = "expired"].linked = r.linked
      BY DEF UsageRows
    <3> QED
      BY <2>1, <2>3, <3>1
  <2> QED
    BY <1>2, <2>2, <2>3
<1>5. res \in [Ops -> UsageRows]
  BY <1>3, <1>4
<1>6. Fewer(reservation, res)
  BY <1>4 DEF Fewer, Pending, Counted
<1>7. RowsAsAsked(res) /\ PendingLinked(res, company)
  BY <1>4 DEF Accounts, RowsAsAsked, PendingLinked, Pending
<1>8. Accounts(res, company, cnt, gr)
  BY <1>5, <1>6, <1>7, FewerAccounts
<1> QED
  BY <1>4, <1>8 DEF res

LEMMA PurgedAccounts ==
  ASSUME NEW res, NEW cnt, NEW gr, Accounts(res, company, cnt, gr)
  PROVE  Accounts(Unlinked(res, Purged(res)), Purged(res), cnt, gr)
<1> DEFINE com == Purged(res)
<1>1. com = [s \in Companies |-> com[s]]
      /\ \A s \in Companies : com[s] = company[s] \/ (~ Kept(s, res) /\ com[s] = NoCompany)
  BY DEF Purged
<1> HIDE DEF com
<1>2. Accounts(Unlinked(res, com), com, cnt, gr)
  BY <1>1, PurgeAccounts
<1> QED
  BY <1>2 DEF com

\* A reservation as it is written.
LEMMA ReservedRow ==
  ASSUME NEW o \in Ops, NEW now \in Nat, NEW m \in BOOLEAN
  PROVE  /\ Reserved(o, now, m) \in UsageRows
         /\ Reserved(o, now, m).status = "reserved" /\ Reserved(o, now, m).units = UnitsOf[o]
         /\ Reserved(o, now, m).metered = m
         /\ Reserved(o, now, m).linked <=> m /\ KindOf[o] \in CompanyKinds
<1>1. PICK l \in BOOLEAN : l <=> m /\ KindOf[o] \in CompanyKinds
  OBVIOUS
<1>2. Reserved(o, now, m) = [status |-> "reserved", units |-> UnitsOf[o], metered |-> m,
                             linked |-> l, expires |-> now + ReservationTTL]
  <2>1. l = (m /\ KindOf[o] \in CompanyKinds)
    BY <1>1
  <2> QED
    BY <2>1 DEF Reserved
<1>3. UnitsOf[o] \in Nat /\ now + ReservationTTL \in Nat
  BY OpsAssumption, LimitsAssumption
<1>4. Reserved(o, now, m) \in UsageRows
  BY <1>2, <1>3 DEF UsageRows
<1>5. /\ Reserved(o, now, m).status = "reserved" /\ Reserved(o, now, m).units = UnitsOf[o]
      /\ Reserved(o, now, m).metered = m /\ Reserved(o, now, m).linked = l
  BY <1>2
<1> QED
  BY <1>1, <1>4, <1>5

\* A company row is written for the operation, if there was room for one.
LEMMA WithRowAccounts ==
  ASSUME NEW res, NEW com, NEW cnt, NEW gr, NEW o \in Ops, Accounts(res, com, cnt, gr),
         CompanyFits(com, o)
  PROVE  /\ Accounts(res, WithCompanyRow(com, o), cnt, gr)
         /\ KindOf[o] \in CompanyKinds => WithCompanyRow(com, o)[ScopeOf[o]].row
         /\ SameCounts(com, WithCompanyRow(com, o))
<1> DEFINE new == WithCompanyRow(com, o)
           s == ScopeOf[o]
<1>1. com \in [Companies -> CompanyRows] /\ res \in [Ops -> UsageRows]
  BY DEF Accounts
<1>2. \A r \in CompanyRows :
        /\ [r EXCEPT !.row = TRUE] \in CompanyRows /\ [r EXCEPT !.row = TRUE].row
        /\ [r EXCEPT !.row = TRUE].contact = r.contact /\ [r EXCEPT !.row = TRUE].draft = r.draft
  BY DEF CompanyRows
<1>3. CASE KindOf[o] \notin CompanyKinds
  <2>1. new = com
    BY <1>3 DEF WithCompanyRow
  <2> QED
    BY <1>3, <2>1 DEF SameCounts
<1>4. CASE KindOf[o] \in CompanyKinds
  <2>1. s \in Companies
    BY <1>4, ScopeIsCompany
  <2>2. new = [com EXCEPT ![s] = [com[s] EXCEPT !.row = TRUE]]
    BY <1>1, <1>4, <2>1 DEF WithCompanyRow
  <2> HIDE DEF new
  <2>3. /\ new \in [Companies -> CompanyRows] /\ new[s].row
        /\ \A t \in Companies : /\ new[t].contact = com[t].contact /\ new[t].draft = com[t].draft
                                /\ t # s => new[t] = com[t]
    BY <1>1, <1>2, <2>1, <2>2
  <2>4. SameCounts(com, new)
    <3>1. \A t \in Companies : new[t]["contact"] = com[t]["contact"] /\ new[t]["draft"] = com[t]["draft"]
      BY <2>3
    <3> QED
      BY <3>1 DEF SameCounts, CompanyKinds
  <2>5. Fewer(res, res)
    BY DEF Fewer
  <2>6. Within(res, new, cnt, gr) /\ Matches(res, new, cnt)
    BY <1>1, <2>4, <2>5, FewerKeeps DEF Accounts
  <2>7. PendingLinked(res, new)
    BY <2>3, ScopeIsCompany DEF PendingLinked, Accounts
  <2>8. CompaniesWithin(new)
    <3> DEFINE before == {t \in Companies : com[t].row}
               after == {t \in Companies : new[t].row}
    <3>1. CASE com[s].row
      <4>1. after = before
        BY <2>3, <3>1
      <4> QED
        BY <4>1 DEF CompaniesWithin, Accounts
    <3>2. CASE ~ com[s].row
      <4>1. after = before \cup {s} /\ s \notin before
        BY <2>1, <2>3, <3>2
      <4>2. IsFiniteSet(before) /\ Cardinality(before) \in Nat
        BY CompaniesFinite
      <4>3. Cardinality(before) < CompanyLimit
        BY <1>4, <3>2 DEF CompanyFits
      <4>4. Cardinality(before \cup {s}) = Cardinality(before) + 1
        BY <4>1, <4>2, FS_AddElement
      <4>5. Cardinality(before) + 1 <= CompanyLimit
        <5> HIDE DEF before
        <5> QED
          BY <4>2, <4>3, LimitsAssumption
      <4> QED
        BY <4>1, <4>4, <4>5 DEF CompaniesWithin
    <3> QED
      BY <3>1, <3>2
  <2>9. Accounts(res, new, cnt, gr)
    BY <2>3, <2>6, <2>7, <2>8 DEF Accounts
  <2> QED
    BY <2>3, <2>4, <2>9 DEF new
<1> QED
  BY <1>3, <1>4

\* Row o becomes the given one and the others stay.
LEMMA RowBecomes ==
  ASSUME NEW a \in [Ops -> UsageRows], NEW o \in Ops, NEW v \in UsageRows,
         NEW b, b = [a EXCEPT ![o] = v]
  PROVE  /\ b \in [Ops -> UsageRows] /\ b[o] = v
         /\ \A p \in Ops : p # o => b[p] = a[p]
OBVIOUS

\* A reservation on a plan that is not metered, or of answers that were granted.
LEMMA FreeAccounts ==
  ASSUME NEW kept, NEW com, NEW cnt, NEW gr, Accounts(kept, com, cnt, gr),
         NEW o \in Ops, NEW now \in Nat, kept[o].status \notin {"reserved", "committed"}
  PROVE  Accounts([kept EXCEPT ![o] = Reserved(o, now, FALSE)], com, cnt, gr)
<1> DEFINE v == Reserved(o, now, FALSE)
           b == [kept EXCEPT ![o] = v]
<1>1. v \in UsageRows /\ v.status = "reserved" /\ v.units = UnitsOf[o] /\ ~ v.metered /\ ~ v.linked
  <2>1. PICK m \in BOOLEAN : m = FALSE
    OBVIOUS
  <2> QED
    BY <2>1, ReservedRow
<1> HIDE DEF v
<1>2. /\ b \in [Ops -> UsageRows] /\ b[o] = v
      /\ \A p \in Ops : p # o => b[p] = kept[p]
  BY <1>1, RowBecomes DEF Accounts
<1> HIDE DEF b
<1>3. Fewer(kept, b)
  <2> SUFFICES ASSUME NEW p \in Ops
               PROVE  /\ Pending(b, p) => Pending(kept, p) /\ b[p].units = kept[p].units
                      /\ Counted(b, p) <=> Counted(kept, p)
                      /\ Counted(b, p) => b[p].units = kept[p].units
    BY DEF Fewer
  <2>1. CASE p = o
    BY <1>1, <1>2, <2>1 DEF Pending, Counted
  <2>2. CASE p # o
    BY <1>2, <2>2 DEF Pending, Counted
  <2> QED
    BY <2>1, <2>2
<1>4. RowsAsAsked(b)
  BY <1>1, <1>2 DEF RowsAsAsked, Accounts
<1>5. PendingLinked(b, com)
  BY <1>1, <1>2 DEF PendingLinked, Accounts, Pending
<1>6. Accounts(b, com, cnt, gr)
  BY <1>2, <1>3, <1>4, <1>5, FewerAccounts
<1> QED
  BY <1>6 DEF b, v

\* The pending units that a reservation is asked to fit with.
LEMMA PendingUnitsAre ==
  ASSUME NEW res, NEW o \in Ops
  PROVE  /\ KindOf[o] \in GenerationKinds =>
              PendingUnits(res, o) = PendingSum(res, OfKind(KindOf[o]))
         /\ KindOf[o] = "answer_application" =>
              PendingUnits(res, o) = Cardinality(PendingScopes(res) \ {ScopeOf[o]})
         /\ KindOf[o] \in CompanyKinds =>
              PendingUnits(res, o) = PendingSum(res, OfCompany(ScopeOf[o], KindOf[o]))
<1>1. \A k : PendingOf(res, k) = {p \in OfKind(k) : Pending(res, p)}
  BY DEF PendingOf, OfKind, Pending
<1>2. \A s, k : {p \in PendingOf(res, k) : ScopeOf[p] = s} = {p \in OfCompany(s, k) : Pending(res, p)}
  BY DEF PendingOf, OfCompany, Pending
<1>3. /\ "answer_application" \notin GenerationKinds /\ "answer_application" \notin CompanyKinds
      /\ GenerationKinds \cap CompanyKinds = {}
  BY DEF GenerationKinds, CompanyKinds
<1>4. CASE KindOf[o] \in GenerationKinds
  BY <1>1, <1>3, <1>4 DEF PendingUnits, PendingSum
<1>5. CASE KindOf[o] = "answer_application"
  BY <1>3, <1>5 DEF PendingUnits, PendingScopes
<1>6. CASE KindOf[o] \in CompanyKinds
  <2>1. PendingUnits(res, o) = UnitSum(res, {p \in PendingOf(res, KindOf[o]) : ScopeOf[p] = ScopeOf[o]})
    BY <1>3, <1>6 DEF PendingUnits
  <2> QED
    BY <1>2, <1>3, <1>6, <2>1 DEF PendingSum
<1> QED
  BY <1>3, <1>4, <1>5, <1>6

\* A metered reservation that fits.
LEMMA MeteredAccounts ==
  ASSUME NEW kept, NEW com, NEW gr, Accounts(kept, com, counter, gr),
         NEW o \in Ops, NEW now \in Nat, kept[o].status \notin {"reserved", "committed"},
         CompanyFits(com, o), Fits(kept, com, o)
  PROVE  Accounts([kept EXCEPT ![o] = Reserved(o, now, TRUE)], WithCompanyRow(com, o), counter, gr)
<1> DEFINE v == Reserved(o, now, TRUE)
           b == [kept EXCEPT ![o] = v]
           new == WithCompanyRow(com, o)
<1>1. v \in UsageRows /\ v.status = "reserved" /\ v.units = UnitsOf[o] /\ v.metered
      /\ (v.linked <=> KindOf[o] \in CompanyKinds)
  <2>1. PICK m \in BOOLEAN : m = TRUE
    OBVIOUS
  <2> QED
    BY <2>1, ReservedRow
<1> HIDE DEF v
<1>2. /\ b \in [Ops -> UsageRows] /\ b[o] = v
      /\ \A p \in Ops : p # o => b[p] = kept[p]
  BY <1>1, RowBecomes DEF Accounts
<1>3. Accounts(kept, new, counter, gr) /\ SameCounts(com, new)
      /\ (KindOf[o] \in CompanyKinds => new[ScopeOf[o]].row)
  BY WithRowAccounts
<1> HIDE DEF b, new
<1>4. BecomesPending(kept, b, o) /\ b[o].units = UnitsOf[o]
  BY <1>1, <1>2 DEF BecomesPending, SameRow, Pending, Counted
<1>5. RowsAsAsked(b)
  BY <1>1, <1>2 DEF RowsAsAsked, Accounts
<1>6. PendingLinked(b, new)
  BY <1>1, <1>2, <1>3 DEF PendingLinked, Accounts, Pending
<1>7. Used(com, o) + PendingUnits(kept, o) + UnitsOf[o] <= LimitFor(o)
  BY DEF Fits
<1>8. /\ "answer_application" \notin CompanyKinds
      /\ GenerationKinds \cap CompanyKinds = {}
  BY DEF GenerationKinds, CompanyKinds
<1>9. Within(b, new, counter, gr) /\ Matches(b, new, counter)
  <2>1. KindOf[o] \in GenerationKinds =>
          counter[KindOf[o]] + PendingSum(kept, OfKind(KindOf[o])) + UnitsOf[o] <= Allowance
    BY <1>7, <1>8, PendingUnitsAre DEF Used, LimitFor
  <2>2. KindOf[o] = "answer_application" =>
          counter[KindOf[o]] + Cardinality(PendingScopes(kept) \ {ScopeOf[o]}) + UnitsOf[o] <= Allowance
    BY <1>7, <1>8, PendingUnitsAre DEF Used, LimitFor
  <2>3. KindOf[o] \in CompanyKinds =>
          com[ScopeOf[o]][KindOf[o]] + PendingSum(kept, OfCompany(ScopeOf[o], KindOf[o]))
            + UnitsOf[o] <= CompanyUse
    BY <1>7, PendingUnitsAre DEF Used, LimitFor
  <2>4. kept \in [Ops -> UsageRows] /\ Within(kept, com, counter, gr) /\ Matches(kept, com, counter)
    BY DEF Accounts
  <2> QED
    BY <1>2, <1>3, <1>4, <2>1, <2>2, <2>3, <2>4, ReservedKeeps
<1>10. Accounts(b, new, counter, gr)
  BY <1>2, <1>3, <1>5, <1>6, <1>9 DEF Accounts
<1> QED
  BY <1>10 DEF b, v, new

LEMMA ReserveInv ==
  ASSUME UsageInv, NEW c \in Callers, NEW o \in Ops, NEW now \in {clock - 1, clock}, now >= 0,
         Reserve(c, o, now)
  PROVE  UsageInv'
<1> DEFINE res == Swept(now)
           com == Purged(res)
           kept == Unlinked(res, com)
<1>1. now \in Nat /\ Accounts(reservation, company, counter, grants)
  BY DEF UsageInv
<1>2. Accounts(kept, com, counter, grants)
  BY <1>1, SweptAccounts, PurgedAccounts
<1>3. /\ kept[o].status \notin {"reserved", "committed"}
      /\ UNCHANGED <<clock, counter, grants>>
      /\ \/ /\ reservation' = [kept EXCEPT ![o] = Reserved(o, now, FALSE)] /\ company' = com
         \/ /\ CompanyFits(com, o) /\ Fits(kept, com, o)
            /\ reservation' = [kept EXCEPT ![o] = Reserved(o, now, TRUE)]
            /\ company' = WithCompanyRow(com, o)
         \/ /\ CompanyFits(com, o) /\ reservation' = kept /\ company' = WithCompanyRow(com, o)
         \/ reservation' = kept /\ company' = com
  BY DEF Reserve
<1>4. caller' \in [Callers -> Ops \cup {NoOp}]
  <2>1. caller \in [Callers -> Ops \cup {NoOp}]
    BY DEF UsageInv
  <2>2. caller' = caller \/ caller' = [caller EXCEPT ![c] = o]
    BY DEF Reserve
  <2> QED
    BY <2>1, <2>2
<1> HIDE DEF res, com, kept
<1>5. Accounts(reservation', company', counter, grants)
  <2>1. Accounts([kept EXCEPT ![o] = Reserved(o, now, FALSE)], com, counter, grants)
    BY <1>1, <1>2, <1>3, FreeAccounts
  <2>2. CompanyFits(com, o) /\ Fits(kept, com, o) =>
          Accounts([kept EXCEPT ![o] = Reserved(o, now, TRUE)], WithCompanyRow(com, o), counter, grants)
    BY <1>1, <1>2, <1>3, MeteredAccounts
  <2>3. CompanyFits(com, o) => Accounts(kept, WithCompanyRow(com, o), counter, grants)
    BY <1>2, WithRowAccounts
  <2> QED
    BY <1>2, <1>3, <2>1, <2>2, <2>3
<1>6. Accounts(reservation, company, counter, grants)'
  <2>1. counter' = counter /\ grants' = grants
    BY <1>3
  <2> QED
    BY <1>5, <2>1 DEF Accounts, RowsAsAsked, PendingLinked, CompaniesWithin, Within, Matches,
                      Pending
<1> QED
  BY <1>3, <1>4, <1>6 DEF UsageInv

-----------------------------------------------------------------------------
(* Settling *)

LEMMA AccountsPrimed ==
  ASSUME Accounts(reservation', company', counter', grants')
  PROVE  Accounts(reservation, company, counter, grants)'
BY DEF Accounts, RowsAsAsked, PendingLinked, CompaniesWithin, Within, Matches, Pending

\* A row that is written as settled, with these units.
Settled(r, x, n) == [r EXCEPT !.status = x, !.units = n]

LEMMA SettledRow ==
  ASSUME NEW r \in UsageRows, NEW x \in {"committed", "released"}, NEW n \in Nat
  PROVE  /\ Settled(r, x, n) \in UsageRows /\ Settled(r, x, n).status = x
         /\ Settled(r, x, n).units = n /\ Settled(r, x, n).metered = r.metered
         /\ Settled(r, x, n).linked = r.linked
<1> DEFINE q == [r EXCEPT !.status = x]
<1>1. q \in UsageRows /\ q.status = x /\ q.metered = r.metered /\ q.linked = r.linked
  BY DEF UsageRows
<1>2. Settled(r, x, n) = [q EXCEPT !.units = n]
  BY DEF Settled
<1> HIDE DEF q
<1>3. /\ [q EXCEPT !.units = n] \in UsageRows /\ [q EXCEPT !.units = n].status = q.status
      /\ [q EXCEPT !.units = n].units = n /\ [q EXCEPT !.units = n].metered = q.metered
      /\ [q EXCEPT !.units = n].linked = q.linked
  BY <1>1 DEF UsageRows
<1> QED
  BY <1>1, <1>2, <1>3

\* An unmetered row that is settled, or a released one, is counted nowhere.
LEMMA UncountedAccounts ==
  ASSUME NEW a, NEW com, NEW cnt, NEW gr, Accounts(a, com, cnt, gr), NEW o \in Ops,
         a[o].status = "reserved", NEW v \in UsageRows, NEW b, b = [a EXCEPT ![o] = v],
         v.status \in {"committed", "released", "expired"}, v.metered = a[o].metered,
         v.linked => a[o].linked, ~ v.metered \/ v.status # "committed"
  PROVE  Accounts(b, com, cnt, gr)
<1>1. /\ b \in [Ops -> UsageRows] /\ b[o] = v
      /\ \A p \in Ops : p # o => b[p] = a[p]
  BY RowBecomes DEF Accounts
<1>2. Fewer(a, b)
  BY <1>1 DEF Fewer, Pending, Counted
<1>3. RowsAsAsked(b) /\ PendingLinked(b, com)
  BY <1>1 DEF RowsAsAsked, PendingLinked, Accounts, Pending
<1> QED
  BY <1>1, <1>2, <1>3, FewerAccounts

\* The same companies have a row.
SameRows(com, new) == \A s \in Companies : new[s].row = com[s].row

\* A metered row that is committed is counted.
LEMMA CountedAccounts ==
  ASSUME NEW a, NEW com, NEW cnt, NEW gr, Accounts(a, com, cnt, gr), NEW o \in Ops,
         a[o].status = "reserved", a[o].metered,
         NEW v \in UsageRows, NEW b, b = [a EXCEPT ![o] = v],
         v.status = "committed", v.metered, v.linked => a[o].linked, v.units <= UnitsOf[o],
         NEW new \in [Companies -> CompanyRows], NEW after \in [CounterKinds -> Nat], NEW granted,
         SameRows(com, new),
         Counts(o, v.units, com, new, cnt, after, gr, granted)
  PROVE  Accounts(b, new, after, granted)
<1>1. /\ b \in [Ops -> UsageRows] /\ b[o] = v
      /\ \A p \in Ops : p # o => b[p] = a[p]
  BY RowBecomes DEF Accounts
<1>2. BecomesCounted(a, b, o) /\ a[o].units = UnitsOf[o]
  BY <1>1 DEF BecomesCounted, SameRow, Pending, Counted, Accounts, RowsAsAsked
<1>3. Within(b, new, after, granted) /\ Matches(b, new, after)
  BY <1>1, <1>2, CommittedKeeps DEF Accounts
<1>4. RowsAsAsked(b) /\ PendingLinked(b, new)
  BY <1>1, ScopeIsCompany DEF RowsAsAsked, PendingLinked, Accounts, Pending, SameRows
<1>5. CompaniesWithin(new)
  <2>1. {s \in Companies : new[s].row} = {s \in Companies : com[s].row}
    BY DEF SameRows
  <2> QED
    BY <2>1 DEF CompaniesWithin, Accounts
<1> QED
  BY <1>1, <1>3, <1>4, <1>5 DEF Accounts

LEMMA ExpiresInv ==
  ASSUME UsageInv, NEW o \in Ops, ReplayReadExpires(o) PROVE UsageInv'
<1> DEFINE v == [reservation[o] EXCEPT !.status = "expired"]
<1>1. Accounts(reservation, company, counter, grants) /\ reservation[o] \in UsageRows
      /\ reservation[o].status = "reserved"
  BY DEF UsageInv, Accounts, ReplayReadExpires, HasExpired
<1>2. /\ reservation' = [reservation EXCEPT ![o] = v]
      /\ UNCHANGED <<clock, counter, grants, company, caller>>
  BY DEF ReplayReadExpires
<1>3. v \in UsageRows /\ v.status = "expired" /\ v.metered = reservation[o].metered
      /\ v.linked = reservation[o].linked
  <2>1. \A r \in UsageRows : /\ [r EXCEPT !.status = "expired"] \in UsageRows
                             /\ [r EXCEPT !.status = "expired"].status = "expired"
                             /\ [r EXCEPT !.status = "expired"].metered = r.metered
                             /\ [r EXCEPT !.status = "expired"].linked = r.linked
    BY DEF UsageRows
  <2> QED
    BY <1>1, <2>1
<1> HIDE DEF v
<1>4. Accounts(reservation', company, counter, grants)
  BY <1>1, <1>2, <1>3, UncountedAccounts
<1>5. Accounts(reservation, company, counter, grants)'
  BY <1>2, <1>4, AccountsPrimed
<1> QED
  BY <1>2, <1>5 DEF UsageInv

LEMMA GiveUpAccounts ==
  ASSUME UsageInv, NEW o \in Ops, NEW status \in {"committed", "released"}, MaySettle(o),
         GiveUp(o, status)
  PROVE  Accounts(reservation, company, counter, grants)'
<1> DEFINE l == reservation[o].linked /\ status # "committed"
           res == [reservation EXCEPT ![o].status = status, ![o].units = 0, ![o].linked = l]
           com == IF reservation[o].linked THEN [company EXCEPT ![ScopeOf[o]] =
                    IF Kept(ScopeOf[o], res) THEN @ ELSE NoCompany] ELSE company
           q == Settled(reservation[o], status, 0)
           v == [q EXCEPT !.linked = l]
<1>1. /\ Accounts(reservation, company, counter, grants)
      /\ reservation[o] \in UsageRows /\ reservation \in [Ops -> UsageRows]
      /\ reservation[o].status = "reserved" /\ company \in [Companies -> CompanyRows]
      /\ counter \in [CounterKinds -> Nat]
  BY DEF UsageInv, Accounts, MaySettle
<1>2. /\ reservation' = Unlinked(res, com) /\ company' = com
      /\ UNCHANGED <<counter, grants>>
  BY DEF GiveUp
<1>3. q \in UsageRows /\ q.status = status /\ q.units = 0 /\ q.metered = reservation[o].metered
  BY <1>1, SettledRow
<1>4. res = [reservation EXCEPT ![o] = v]
  BY <1>1 DEF Settled
<1>5. /\ v \in UsageRows /\ v.status = status /\ v.units = 0
      /\ v.metered = reservation[o].metered /\ (v.linked => reservation[o].linked)
  <2>1. PICK m \in BOOLEAN : m = l
    BY <1>1 DEF UsageRows
  <2>2. m => reservation[o].linked
    BY <2>1
  <2> HIDE DEF q, l
  <2>3. /\ [q EXCEPT !.linked = m] \in UsageRows /\ [q EXCEPT !.linked = m].status = q.status
        /\ [q EXCEPT !.linked = m].units = q.units /\ [q EXCEPT !.linked = m].metered = q.metered
        /\ [q EXCEPT !.linked = m].linked = m
    BY <1>3 DEF UsageRows
  <2> QED
    BY <1>3, <2>1, <2>2, <2>3
<1> HIDE DEF v, q, res
<1>6. Accounts(res, company, counter, grants)
  <2>1. CASE status = "committed" /\ reservation[o].metered
    <3>1. /\ \A k \in CounterKinds : counter[k] \in Nat /\ counter[k] + 0 = counter[k]
          /\ \A s \in Companies, k \in CompanyKinds :
               company[s][k] \in Nat /\ company[s][k] + 0 = company[s][k]
      BY <1>1, MatchTypes DEF Accounts
    <3>2. Counts(o, v.units, company, company, counter, counter, grants, grants)
      BY <1>5, <3>1 DEF Counts
    <3>3. v.units <= UnitsOf[o]
      BY <1>5, OpsAssumption
    <3>4. SameRows(company, company)
      BY DEF SameRows
    <3> QED
      BY <1>1, <1>4, <1>5, <2>1, <3>2, <3>3, <3>4, CountedAccounts
  <2>2. CASE ~ (status = "committed" /\ reservation[o].metered)
    BY <1>1, <1>4, <1>5, <2>2, UncountedAccounts
  <2> QED
    BY <2>1, <2>2
<1>7. com = [s \in Companies |-> com[s]]
      /\ \A s \in Companies : com[s] = company[s] \/ (~ Kept(s, res) /\ com[s] = NoCompany)
  BY <1>1
<1> HIDE DEF com
<1>8. Accounts(Unlinked(res, com), com, counter, grants)
  BY <1>6, <1>7, PurgeAccounts
<1> QED
  BY <1>2, <1>8, AccountsPrimed

\* The units of a committed row are added to its company's row.
CountAdded(com, new, s, k, n) ==
  \A t \in Companies, j \in CompanyKinds :
    new[t][j] = IF j = k /\ t = s THEN com[t][j] + n ELSE com[t][j]
Added(com, s, k, n) == [com EXCEPT ![s][k] = @ + n]

LEMMA CompanyCounts ==
  ASSUME NEW com \in [Companies -> CompanyRows], NEW s \in Companies, NEW k \in CompanyKinds,
         NEW n \in Nat, NEW new, new = Added(com, s, k, n)
  PROVE  new \in [Companies -> CompanyRows] /\ SameRows(com, new) /\ CountAdded(com, new, s, k, n)
<1>1. com[s] \in CompanyRows
  OBVIOUS
<1>2. CASE k = "contact"
  <2> DEFINE v == [com[s] EXCEPT !.contact = com[s].contact + n]
  <2>1. new = [com EXCEPT ![s] = v]
    BY <1>1, <1>2 DEF Added
  <2>2. v \in CompanyRows /\ v.row = com[s].row /\ v.contact = com[s].contact + n
        /\ v.draft = com[s].draft
    BY <1>1 DEF CompanyRows
  <2> HIDE DEF v
  <2>3. /\ new \in [Companies -> CompanyRows] /\ new[s] = v
        /\ \A t \in Companies : t # s => new[t] = com[t]
    BY <2>1, <2>2
  <2>4. \A t \in Companies :
          /\ new[t]["contact"] = IF t = s THEN com[t]["contact"] + n ELSE com[t]["contact"]
          /\ new[t]["draft"] = com[t]["draft"]
    BY <2>2, <2>3
  <2> QED
    BY <1>2, <2>2, <2>3, <2>4 DEF CompanyKinds, SameRows, CountAdded
<1>3. CASE k = "draft"
  <2> DEFINE v == [com[s] EXCEPT !.draft = com[s].draft + n]
  <2>1. new = [com EXCEPT ![s] = v]
    BY <1>1, <1>3 DEF Added
  <2>2. v \in CompanyRows /\ v.row = com[s].row /\ v.draft = com[s].draft + n
        /\ v.contact = com[s].contact
    BY <1>1 DEF CompanyRows
  <2> HIDE DEF v
  <2>3. /\ new \in [Companies -> CompanyRows] /\ new[s] = v
        /\ \A t \in Companies : t # s => new[t] = com[t]
    BY <2>1, <2>2
  <2>4. \A t \in Companies :
          /\ new[t]["draft"] = IF t = s THEN com[t]["draft"] + n ELSE com[t]["draft"]
          /\ new[t]["contact"] = com[t]["contact"]
    BY <2>2, <2>3
  <2> QED
    BY <1>3, <2>2, <2>3, <2>4 DEF CompanyKinds, SameRows, CountAdded
<1> QED
  BY <1>2, <1>3 DEF CompanyKinds

LEMMA CommitUnitsAccounts ==
  ASSUME UsageInv, NEW o \in Ops, NEW units \in Nat, units > 0, units <= UnitsOf[o],
         MaySettle(o), CommitUnits(o, units)
  PROVE  Accounts(reservation, company, counter, grants)'
<1> DEFINE r == reservation[o]
           kind == KindOf[o]
           counted == IF kind = "answer_application" /\ ScopeOf[o] \in grants THEN 0 ELSE units
<1>1. /\ Accounts(reservation, company, counter, grants)
      /\ r \in UsageRows /\ r.status = "reserved"
      /\ company \in [Companies -> CompanyRows] /\ counter \in [CounterKinds -> Nat]
  BY DEF UsageInv, Accounts, MaySettle
<1>2. counted \in Nat /\ counted <= UnitsOf[o] /\ UnitsOf[o] \in Nat
  BY OpsAssumption
<1>3. CASE ~ r.metered
  <2> DEFINE v == Settled(r, "committed", units)
  <2>1. /\ reservation' = [reservation EXCEPT ![o] = v]
        /\ UNCHANGED <<counter, grants, company>>
    BY <1>1, <1>3 DEF CommitUnits, Settled, Accounts
  <2>2. v \in UsageRows /\ v.status = "committed" /\ v.metered = r.metered /\ v.linked = r.linked
    <3> HIDE DEF counted, r
    <3> QED
      BY <1>1, SettledRow
  <2> HIDE DEF v
  <2>3. Accounts(reservation', company, counter, grants)
    BY <1>1, <1>3, <2>1, <2>2, UncountedAccounts
  <2> QED
    BY <2>1, <2>3, AccountsPrimed
<1>4. CASE r.metered
  <2> DEFINE v == Settled(r, "committed", counted)
  <2>1. /\ reservation' = [reservation EXCEPT ![o] = v]
        /\ counter' = IF kind \in CounterKinds
             THEN [counter EXCEPT ![kind] = @ + counted] ELSE counter
        /\ grants' = IF kind = "answer_application" THEN grants \cup {ScopeOf[o]} ELSE grants
        /\ company' = IF kind \in CompanyKinds
             THEN Added(company, ScopeOf[o], kind, units) ELSE company
    BY <1>1, <1>4 DEF CommitUnits, Settled, Accounts, Added
  <2>2. v \in UsageRows /\ v.status = "committed" /\ v.metered = r.metered /\ v.linked = r.linked
        /\ v.units = counted
    <3> HIDE DEF counted, r
    <3> QED
      BY <1>1, <1>2, SettledRow
  <2> HIDE DEF v
  <2>3. /\ counter' \in [CounterKinds -> Nat]
        /\ \A k \in CounterKinds :
             counter'[k] = IF kind = k THEN counter[k] + counted ELSE counter[k]
    BY <1>1, <1>2, <2>1
  <2>4. "answer_application" \notin CompanyKinds
    BY DEF CompanyKinds
  <2>5. /\ company' \in [Companies -> CompanyRows]
        /\ SameRows(company, company')
        /\ \A s \in Companies, k \in CompanyKinds :
             company'[s][k] = IF kind = k /\ ScopeOf[o] = s THEN company[s][k] + counted
                                                           ELSE company[s][k]
    <3>1. CASE kind \in CompanyKinds
      <4>1. ScopeOf[o] \in Companies /\ counted = units
        BY <2>4, <3>1, ScopeIsCompany
      <4>2. company' = Added(company, ScopeOf[o], kind, units)
        BY <2>1, <3>1
      <4> HIDE DEF kind, counted
      <4>3. company' \in [Companies -> CompanyRows] /\ SameRows(company, company')
            /\ CountAdded(company, company', ScopeOf[o], kind, units)
        BY <1>1, <3>1, <4>1, <4>2, CompanyCounts
      <4> QED
        BY <4>1, <4>3 DEF CountAdded
    <3>2. CASE kind \notin CompanyKinds
      <4>1. company' = company
        BY <2>1, <3>2
      <4> QED
        BY <1>1, <3>2, <4>1 DEF SameRows
    <3> QED
      BY <3>1, <3>2
  <2>6. /\ grants' = IF kind = "answer_application" /\ counted > 0 THEN grants \cup {ScopeOf[o]}
                                                                  ELSE grants
        /\ kind = "answer_application" /\ ScopeOf[o] \in grants => counted = 0
    <3>1. kind = "answer_application" /\ ScopeOf[o] \in grants => grants \cup {ScopeOf[o]} = grants
      OBVIOUS
    <3> QED
      BY <2>1, <3>1
  <2> HIDE DEF counted
  <2>7. Counts(o, v.units, company, company', counter, counter', grants, grants')
    BY <2>2, <2>3, <2>5, <2>6 DEF Counts
  <2>8. Accounts(reservation', company', counter', grants')
    <3>1. reservation[o].status = "reserved" /\ reservation[o].metered /\ v.metered
          /\ (v.linked => reservation[o].linked) /\ v.units <= UnitsOf[o] /\ v.status = "committed"
      BY <1>1, <1>2, <1>4, <2>2
    <3> HIDE DEF r, kind
    <3> QED
      BY <1>1, <2>1, <2>2, <2>3, <2>5, <2>7, <3>1, CountedAccounts
  <2> QED
    BY <2>8, AccountsPrimed
<1> QED
  BY <1>3, <1>4

LEMMA SettleInv ==
  ASSUME UsageInv, NEW c \in Callers,
         \/ ReleaseWork(c)
         \/ \E units \in 0..CompanyUse, replayed \in BOOLEAN : CommitWork(c, units, replayed)
  PROVE  UsageInv'
<1>1. caller[c] \in Ops /\ clock' = clock /\ caller' \in [Callers -> Ops \cup {NoOp}]
  BY DEF UsageInv, ReleaseWork, CommitWork
<1>2. CASE UNCHANGED <<reservation, counter, grants, company>>
  <2>1. Accounts(reservation', company', counter', grants')
    BY <1>2 DEF UsageInv
  <2> QED
    BY <1>1, <2>1, AccountsPrimed DEF UsageInv
<1>3. CASE MaySettle(caller[c]) /\ \E status \in {"committed", "released"} : GiveUp(caller[c], status)
  BY <1>1, <1>3, GiveUpAccounts DEF UsageInv
<1>4. CASE MaySettle(caller[c]) /\ \E units \in 0..CompanyUse :
             units > 0 /\ units <= UnitsOf[caller[c]] /\ CommitUnits(caller[c], units)
  <2>1. \A units \in 0..CompanyUse : units \in Nat
    BY LimitsAssumption
  <2> QED
    BY <1>1, <1>4, <2>1, CommitUnitsAccounts DEF UsageInv
<1> QED
  BY <1>2, <1>3, <1>4 DEF ReleaseWork, CommitWork

LEMMA UsageNextInv == ASSUME UsageInv, EntitlementNext PROVE UsageInv'
<1>1. CASE /\ UNCHANGED <<reservation, counter, grants, company>>
           /\ clock' \in Nat /\ caller' \in [Callers -> Ops \cup {NoOp}]
  <2>1. Accounts(reservation', company', counter', grants')
    BY <1>1 DEF UsageInv
  <2> QED
    BY <1>1, <2>1, AccountsPrimed DEF UsageInv
<1>2. ASSUME NEW c \in Callers, CallerDies(c) PROVE UsageInv'
  BY <1>1, <1>2 DEF CallerDies, UsageInv
<1>3. CASE PlanChanges \/ ClockTicks
  BY <1>1, <1>3 DEF PlanChanges, ClockTicks, UsageInv
<1> QED
  BY <1>2, <1>3, ReserveInv, ExpiresInv, SettleInv DEF EntitlementNext

LEMMA UsageInitInv == ASSUME EntitlementInit \/ EntitlementsAtRest PROVE UsageInv
<1>1. /\ reservation = [o \in Ops |-> NoReservation] /\ counter = [k \in CounterKinds |-> 0]
      /\ grants = {} /\ company = [s \in Companies |-> NoCompany]
      /\ clock \in Nat /\ caller \in [Callers -> Ops \cup {NoOp}]
  BY LimitsAssumption DEF EntitlementInit, EntitlementsAtRest, NothingUsed
<1>2. NoReservation \in UsageRows /\ NoReservation.status = "none" /\ ~ NoReservation.linked
  BY DEF NoReservation, UsageRows
<1>3. NoCompany \in CompanyRows /\ ~ NoCompany.row /\ NoCompany.contact = 0 /\ NoCompany.draft = 0
  BY DEF NoCompany, CompanyRows
<1>4. reservation \in [Ops -> UsageRows] /\ company \in [Companies -> CompanyRows]
      /\ counter \in [CounterKinds -> Nat]
  BY <1>1, <1>2, <1>3
<1>5. \A group \in SUBSET Ops : PendingSum(reservation, group) = 0 /\ CountedSum(reservation, group) = 0
  <2> TAKE group \in SUBSET Ops
  <2>1. {o \in group : Pending(reservation, o)} = {} /\ {o \in group : Counted(reservation, o)} = {}
    BY <1>1, <1>2 DEF Pending, Counted
  <2>2. UnitSum(reservation, {}) = 0
    BY FS_EmptySet DEF UnitSum
  <2> QED
    BY <2>1, <2>2 DEF PendingSum, CountedSum
<1>6. (\A k : OfKind(k) \in SUBSET Ops) /\ \A s, k : OfCompany(s, k) \in SUBSET Ops
  BY DEF OfKind, OfCompany
<1>7. \A s \in Companies, k \in CompanyKinds : company[s][k] = 0
  <2>1. \A s \in Companies : company[s]["contact"] = 0 /\ company[s]["draft"] = 0
    BY <1>1, <1>3
  <2> QED
    BY <2>1 DEF CompanyKinds
<1>8. PendingScopes(reservation) \ grants = {} /\ Cardinality({}) = 0
  BY <1>1, <1>2, FS_EmptySet DEF PendingScopes, PendingOf
<1>9. Within(reservation, company, counter, grants)
  <2>1. \A k \in GenerationKinds : counter[k] + PendingSum(reservation, OfKind(k)) <= Allowance
    <3> TAKE k \in GenerationKinds
    <3>1. counter[k] = 0 /\ PendingSum(reservation, OfKind(k)) = 0
      BY <1>1, <1>5, <1>6 DEF CounterKinds
    <3> QED
      BY <3>1, LimitsAssumption
  <2>2. counter["answer_application"] + Cardinality(PendingScopes(reservation) \ grants) <= Allowance
    <3>1. counter["answer_application"] = 0 /\ Cardinality(PendingScopes(reservation) \ grants) = 0
      BY <1>1, <1>8 DEF CounterKinds
    <3> QED
      BY <3>1, LimitsAssumption
  <2>3. \A s \in Companies, k \in CompanyKinds :
          company[s][k] + PendingSum(reservation, OfCompany(s, k)) <= CompanyUse
    <3> TAKE s \in Companies, k \in CompanyKinds
    <3>1. company[s][k] = 0 /\ PendingSum(reservation, OfCompany(s, k)) = 0
      BY <1>5, <1>6, <1>7
    <3> QED
      BY <3>1, LimitsAssumption
  <2> QED
    BY <2>1, <2>2, <2>3 DEF Within
<1>10. Matches(reservation, company, counter)
  BY <1>1, <1>5, <1>6, <1>7 DEF Matches
<1>11. RowsAsAsked(reservation) /\ PendingLinked(reservation, company)
  BY <1>1, <1>2 DEF RowsAsAsked, PendingLinked, Pending
<1>12. CompaniesWithin(company)
  <2>1. {s \in Companies : company[s].row} = {}
    BY <1>1, <1>3
  <2> QED
    BY <2>1, FS_EmptySet, LimitsAssumption DEF CompaniesWithin
<1> QED
  BY <1>1, <1>4, <1>9, <1>10, <1>11, <1>12 DEF UsageInv, Accounts

-----------------------------------------------------------------------------
(* Theorems *)

THEOREM UsageKeepsInv == ServicesSpec => []UsageInv
<1>1. ServicesInit => UsageInv
  BY UsageInitInv DEF ServicesInit
<1>2. UsageInv /\ [ServicesNext]_serviceVars => UsageInv'
  <2> SUFFICES ASSUME UsageInv, [ServicesNext]_serviceVars PROVE UsageInv'
    OBVIOUS
  <2>1. CASE UNCHANGED entitlementVars
    <3>1. /\ UNCHANGED <<clock, caller>> /\ Accounts(reservation', company', counter', grants')
      BY <2>1 DEF entitlementVars, UsageInv
    <3> QED
      BY <3>1, AccountsPrimed DEF UsageInv
  <2> QED
    BY <2>1, UsageNextInv DEF ServicesNext, UsageStep, AccountStep, RecoveryStep, serviceVars
<1> QED
  BY <1>1, <1>2, PTL DEF ServicesSpec

\* What is used and what is still reserved stay within the trial's limits (entitlements.ts),
\* for any number of operations and requests that reserve, settle late, die or are sent again.
THEOREM UsageStaysWithin == ServicesSpec => []WithinAllowance
<1>1. UsageInv => WithinAllowance
  <2> SUFFICES ASSUME UsageInv PROVE WithinAllowance
    OBVIOUS
  <2>1. Within(reservation, company, counter, grants) /\ CompaniesWithin(company)
    BY DEF UsageInv, Accounts
  <2>2. \A k : PendingOf(reservation, k) = {o \in OfKind(k) : Pending(reservation, o)}
    BY DEF PendingOf, OfKind, Pending
  <2>3. \A s, k : {o \in PendingOf(reservation, k) : ScopeOf[o] = s}
                    = {o \in OfCompany(s, k) : Pending(reservation, o)}
    BY DEF PendingOf, OfCompany, Pending
  <2> QED
    BY <2>1, <2>2, <2>3 DEF Within, CompaniesWithin, WithinAllowance, PendingSum, PendingScopes
<1> QED
  BY <1>1, UsageKeepsInv, PTL

\* The counters are exactly the metered work that was committed: no settlement counts twice,
\* and no deleted company row loses a unit.
THEOREM CountersAreExact == ServicesSpec => []CountersMatchReservations
<1>1. UsageInv => CountersMatchReservations
  <2> SUFFICES ASSUME UsageInv PROVE CountersMatchReservations
    OBVIOUS
  <2>1. Matches(reservation, company, counter)
    BY DEF UsageInv, Accounts
  <2>2. \A k : CommittedMetered(k) = {o \in OfKind(k) : Counted(reservation, o)}
    BY DEF CommittedMetered, OfKind, Counted
  <2>3. \A s, k : {o \in CommittedMetered(k) : ScopeOf[o] = s}
                    = {o \in OfCompany(s, k) : Counted(reservation, o)}
    BY DEF CommittedMetered, OfCompany, Counted
  <2> QED
    BY <2>1, <2>2, <2>3 DEF Matches, CountersMatchReservations, CountedSum
<1> QED
  BY <1>1, UsageKeepsInv, PTL

\* Reserved metered work on a company keeps the row its units will be counted on.
THEOREM PendingWorkKeepsCompany == ServicesSpec => []PendingKeepsCompany
<1>1. UsageInv => PendingKeepsCompany
  BY DEF UsageInv, Accounts, PendingLinked, Pending, PendingKeepsCompany
<1> QED
  BY <1>1, UsageKeepsInv, PTL
=============================================================================
