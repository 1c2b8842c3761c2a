----------------------------- MODULE LedgerProofs -----------------------------
(***************************************************************************)
(* What holds of the facts of an attempt however the transactions that     *)
(* write them began, waited and committed.  The facts are a set, and the   *)
(* fold reads them by created_at: the first lemmas say what it makes of    *)
(* such a set, without the ranks.                                          *)
(***************************************************************************)
EXTENDS AttemptLedger, FiniteSetTheorems, TLAPS

\* Finitely many facts, no two of one created_at.
Timed(stored) ==
  /\ IsFiniteSet(stored)
  /\ \A s \in stored : s.at \in Nat
  /\ \A s, t \in stored : s.at = t.at => s = t

Recorded(stored, kind) == \E s \in stored : s.entry.fact.kind = kind

-----------------------------------------------------------------------------
(* What the fold reads in a set of facts *)

\* A fact with an earlier created_at stands at a lower place of the order, and every
\* place is taken.
LEMMA Places ==
  ASSUME NEW stored, Timed(stored)
  PROVE  \E place \in [stored -> 1..Cardinality(stored)] :
           /\ \A s \in stored : InOrder(stored)[place[s]] = s.entry.fact
           /\ \A s, t \in stored : place[s] < place[t] <=> s.at < t.at
           /\ \A s, t \in stored : place[s] = place[t] => s = t
           /\ \A i \in 1..Cardinality(stored) : \E s \in stored : place[s] = i
<1> DEFINE earlier(s) == {t \in stored : t.at < s.at}
           rank == [s \in stored |-> Cardinality(earlier(s))]
           n == Cardinality(stored)
           place == [s \in stored |-> rank[s] + 1]
<1>0. IsFiniteSet(stored) /\ n \in Nat
  BY FS_CardinalityType DEF Timed
<1>1. \A s \in stored : IsFiniteSet(earlier(s)) /\ rank[s] = Cardinality(earlier(s))
                         /\ rank[s] \in Nat
  <2> TAKE s \in stored
  <2>1. earlier(s) \in SUBSET stored
    OBVIOUS
  <2>2. IsFiniteSet(earlier(s))
    BY <2>1, <1>0, FS_Subset
  <2>3. Cardinality(earlier(s)) \in Nat
    BY <2>2, FS_CardinalityType
  <2> QED
    BY <2>2, <2>3
<1>2. ASSUME NEW s \in stored, NEW t \in stored, s.at < t.at
      PROVE  rank[s] < rank[t]
  <2>1. earlier(s) \in SUBSET earlier(t) /\ s \in earlier(t) /\ s \notin earlier(s)
    BY <1>2 DEF Timed
  <2>2. earlier(t) # earlier(s)
    BY <2>1
  <2> HIDE DEF earlier, rank
  <2>3. /\ Cardinality(earlier(s)) <= Cardinality(earlier(t))
        /\ Cardinality(earlier(t)) = Cardinality(earlier(s)) => earlier(t) = earlier(s)
    BY <2>1, <1>1, FS_Subset
  <2> QED
    BY <2>2, <2>3, <1>1
<1>3. ASSUME NEW s \in stored PROVE rank[s] < n
  <2>1. earlier(s) \in SUBSET stored /\ s \notin earlier(s)
    BY DEF Timed
  <2> HIDE DEF earlier, rank
  <2>2. /\ Cardinality(earlier(s)) <= n
        /\ n = Cardinality(earlier(s)) => stored = earlier(s)
    BY <2>1, <1>0, FS_Subset
  <2>3. stored # earlier(s)
    BY <2>1
  <2> QED
    BY <2>2, <2>3, <1>0, <1>1
<1>4. ASSUME NEW i, NEW s \in stored, i = rank[s] + 1, i \in 1..n,
             \A t \in stored : rank[t] = rank[s] => t = s
      PROVE  InOrder(stored)[i] = s.entry.fact
  <2> DEFINE it == CHOOSE t \in stored : Cardinality(earlier(t)) = i - 1
  <2>1. InOrder(stored)[i] = it.entry.fact
    BY <1>4 DEF InOrder
  <2> HIDE DEF earlier, rank
  <2>2. Cardinality(earlier(s)) = i - 1
    BY <1>1, <1>4
  <2>3. it \in stored /\ Cardinality(earlier(it)) = i - 1
    BY <2>2, Zenon
  <2> HIDE DEF it
  <2>4. rank[it] = rank[s]
    BY <2>2, <2>3, <1>1
  <2> QED
    BY <2>1, <2>3, <2>4, <1>4
<1> HIDE DEF earlier, rank
<1>5. place \in [stored -> 1..n]
  BY <1>0, <1>1, <1>3
<1>6. \A s, t \in stored : place[s] < place[t] <=> s.at < t.at
  <2> SUFFICES ASSUME NEW s \in stored, NEW t \in stored
               PROVE  place[s] < place[t] <=> s.at < t.at
    OBVIOUS
  <2>1. s.at \in Nat /\ t.at \in Nat /\ (s.at = t.at => s = t)
    BY DEF Timed
  <2>2. s.at < t.at => rank[s] < rank[t]
    BY <1>2
  <2>3. t.at < s.at => rank[t] < rank[s]
    BY <1>2
  <2> QED
    BY <2>1, <2>2, <2>3, <1>1
<1>7. \A s, t \in stored : place[s] = place[t] => s = t
  <2> SUFFICES ASSUME NEW s \in stored, NEW t \in stored, place[s] = place[t]
               PROVE  s = t
    OBVIOUS
  <2>1. s.at \in Nat /\ t.at \in Nat /\ (s.at = t.at => s = t)
    BY DEF Timed
  <2>2. place[s] \in Nat
    BY <1>5
  <2>3. ~ (place[s] < place[t]) /\ ~ (place[t] < place[s])
    BY <2>2
  <2>4. ~ (s.at < t.at) /\ ~ (t.at < s.at)
    BY <2>3, <1>6
  <2> QED
    BY <2>1, <2>4
<1>8. \A i \in 1..n : \E s \in stored : place[s] = i
  <2> HIDE DEF place
  <2>1. place \in Injection(stored, 1..n)
    BY <1>5, <1>7 DEF Injection, IsInjective
  <2>2. IsFiniteSet(1..n) /\ Cardinality(1..n) = n
    BY <1>0, FS_Interval
  <2>3. place \in Surjection(stored, 1..n)
    BY <2>1, <2>2, FS_Injection
  <2> QED
    BY <2>3 DEF Surjection
<1>9. ASSUME NEW s \in stored PROVE InOrder(stored)[place[s]] = s.entry.fact
  <2>1. \A t \in stored : rank[t] = rank[s] => t = s
    BY <1>7
  <2>2. place[s] = rank[s] + 1 /\ place[s] \in 1..n
    BY <1>5
  <2> HIDE DEF place
  <2> QED
    BY <2>1, <2>2, <1>4
<1> HIDE DEF place
<1> QED
  BY <1>5, <1>6, <1>7, <1>8, <1>9

\* The fold finds a kind in the order exactly if a fact of the kind is recorded.
LEMMA KindsRead ==
  ASSUME NEW stored, Timed(stored), NEW kind
  PROVE  Has(InOrder(stored), kind) <=> Recorded(stored, kind)
<1>1. PICK place \in [stored -> 1..Cardinality(stored)] :
        /\ \A s \in stored : InOrder(stored)[place[s]] = s.entry.fact
        /\ \A i \in 1..Cardinality(stored) : \E s \in stored : place[s] = i
  BY Places
<1>2. DOMAIN InOrder(stored) = 1..Cardinality(stored)
  BY DEF InOrder
<1>3. ASSUME NEW i \in DOMAIN InOrder(stored), InOrder(stored)[i].kind = kind
      PROVE  Recorded(stored, kind)
  <2>1. PICK s \in stored : place[s] = i
    BY <1>1, <1>2
  <2> QED
    BY <2>1, <1>1, <1>3 DEF Recorded
<1>4. ASSUME NEW s \in stored, s.entry.fact.kind = kind
      PROVE  Has(InOrder(stored), kind)
  <2>1. place[s] \in DOMAIN InOrder(stored) /\ InOrder(stored)[place[s]].kind = kind
    BY <1>1, <1>2, <1>4
  <2> QED
    BY <2>1 DEF Has
<1> QED
  BY <1>3, <1>4 DEF Has, Recorded

\* No facts are no evidence, and some are never none.
LEMMA NothingRead ==
  ASSUME NEW stored, Timed(stored)
  PROVE  InOrder(stored) = << >> <=> stored = {}
<1>1. DOMAIN InOrder(stored) = 1..Cardinality(stored) /\ Cardinality(stored) \in Nat
  BY FS_CardinalityType DEF InOrder, Timed
<1>2. stored = {} => InOrder(stored) = << >>
  <2> SUFFICES ASSUME stored = {} PROVE InOrder(stored) = << >>
    OBVIOUS
  <2>1. Cardinality(stored) = 0
    BY FS_EmptySet
  <2> QED
    BY <2>1 DEF InOrder
<1>3. stored # {} => InOrder(stored) # << >>
  <2>1. stored # {} => Cardinality(stored) # 0
    BY FS_EmptySet DEF Timed
  <2> QED
    BY <2>1, <1>1
<1> QED
  BY <1>2, <1>3

\* Facts the fold does not call invalid.
Sound(stored) ==
  /\ \E o \in stored :
       /\ o.entry.fact.kind = "attempt_opened"
       /\ \A s \in stored \ {o} : s.entry.fact.kind # "attempt_opened" /\ o.at < s.at
  /\ \A s, t \in stored :
       s.entry.fact.kind = "boundary_authorized" /\ t.entry.fact.kind = "boundary_authorized"
         => s = t
  /\ \A s \in stored : s.entry.fact.kind = "not_sent_proven" =>
       /\ \A t \in stored : t.entry.fact.kind = "not_sent_proven" => s = t
       /\ \A t \in stored : t.entry.fact.kind \in Risk => t.at < s.at
       /\ Recorded(stored, "boundary_authorized") =>
            s.entry.fact.proof \in AuthorizationAdmissibleProofs
       /\ ~ Recorded(stored, "press_observed")

LEMMA SoundIsValid ==
  ASSUME NEW stored, Timed(stored), Sound(stored)
  PROVE  ~ InvalidSequence(InOrder(stored))
<1> DEFINE events == InOrder(stored)
           n == Cardinality(stored)
<1>1. PICK place \in [stored -> 1..n] :
        /\ \A s \in stored : events[place[s]] = s.entry.fact
        /\ \A s, t \in stored : place[s] < place[t] <=> s.at < t.at
        /\ \A s, t \in stored : place[s] = place[t] => s = t
        /\ \A i \in 1..n : \E s \in stored : place[s] = i
  BY Places
<1>2. DOMAIN events = 1..n
  BY DEF InOrder
<1>3. \A kind : Has(events, kind) <=> Recorded(stored, kind)
  BY KindsRead
<1> SUFFICES ~ InvalidSequence(events)
  OBVIOUS
<1> HIDE DEF events
<1>4. \A i \in DOMAIN events : \E s \in stored : place[s] = i /\ events[i] = s.entry.fact
  BY <1>1, <1>2
<1>5. PICK o \in stored :
        /\ o.entry.fact.kind = "attempt_opened"
        /\ \A s \in stored \ {o} : s.entry.fact.kind # "attempt_opened" /\ o.at < s.at
  BY DEF Sound
<1>6. Has(events, "attempt_opened")
  BY <1>3, <1>5 DEF Recorded
<1>7. AtMostOne(events, "attempt_opened")
  BY <1>4, <1>5 DEF AtMostOne
<1>8. AtMostOne(events, "boundary_authorized")
  BY <1>4 DEF AtMostOne, Sound
<1>9. AtMostOne(events, "not_sent_proven")
  BY <1>4 DEF AtMostOne, Sound
<1>10. ASSUME NEW i \in DOMAIN events, NEW j \in DOMAIN events,
              events[i].kind \in {"boundary_authorized", "press_observed"},
              events[j].kind = "attempt_opened", i < j
       PROVE  FALSE
  <2>1. PICK s \in stored : place[s] = i /\ events[i] = s.entry.fact
    BY <1>4
  <2>2. PICK t \in stored : place[t] = j /\ events[j] = t.entry.fact
    BY <1>4
  <2>3. t = o /\ s # o
    BY <2>1, <2>2, <1>5, <1>10
  <2>4. s.at < o.at /\ o.at < s.at
    BY <2>1, <2>2, <2>3, <1>1, <1>5, <1>10
  <2>5. s.at \in Nat /\ o.at \in Nat
    BY DEF Timed
  <2> QED
    BY <2>4, <2>5
<1>11. ASSUME NEW i \in DOMAIN events, IsResolution(events, i), Contradicted(events, i)
       PROVE  FALSE
  <2>1. PICK s \in stored : place[s] = i /\ events[i] = s.entry.fact
    BY <1>4
  <2>2. s.entry.fact.kind = "not_sent_proven"
    BY <2>1, <1>11 DEF IsResolution
  <2>3. ~ Has(events, "press_observed")
    BY <2>2, <1>3 DEF Sound
  <2>4. Has(events, "boundary_authorized") => events[i].proof \in AuthorizationAdmissibleProofs
    BY <2>1, <2>2, <1>3 DEF Sound
  <2>5. PICK j \in DOMAIN events : events[j].kind \in Risk /\ j > i
    BY <2>3, <2>4, <1>11 DEF Contradicted
  <2>6. PICK t \in stored : place[t] = j /\ events[j] = t.entry.fact
    BY <1>4
  <2>7. t.at < s.at
    BY <2>2, <2>5, <2>6 DEF Sound
  <2>8. j < i
    BY <2>1, <2>6, <2>7, <1>1
  <2>9. i \in Nat /\ j \in Nat
    BY <1>2
  <2> QED
    BY <2>5, <2>8, <2>9
<1> QED
  BY <1>6, <1>7, <1>8, <1>9, <1>10, <1>11 DEF InvalidSequence

\* What an answer of the fold says of the facts.
LEMMA FoldMeans ==
  ASSUME NEW stored, Timed(stored)
  PROVE  /\ Fold(stored) = "no_evidence" <=> stored = {}
         /\ Fold(stored) = "blocked_confirmed" <=> Recorded(stored, "submission_confirmed")
         /\ Fold(stored) = "invalid_sequence" => InvalidSequence(InOrder(stored))
         /\ Fold(stored) = "opened" =>
              /\ ~ Recorded(stored, "boundary_authorized")
              /\ ~ Recorded(stored, "press_observed")
              /\ ~ Recorded(stored, "not_sent_proven")
         /\ Fold(stored) \in {"pressed", "boundary_authorized"} =>
              ~ Recorded(stored, "not_sent_proven")
         /\ Fold(stored) = "boundary_authorized" => Recorded(stored, "boundary_authorized")
         /\ Fold(stored) = "pressed" => Recorded(stored, "press_observed")
         /\ Fold(stored) \in {"no_evidence", "blocked_confirmed", "invalid_sequence",
                              "safe_not_sent", "pressed", "boundary_authorized", "opened"}
         /\ Recorded(stored, "boundary_authorized") /\ ~ Recorded(stored, "not_sent_proven") =>
              Fold(stored) \in {"blocked_confirmed", "invalid_sequence", "pressed",
                                "boundary_authorized"}
<1> DEFINE events == InOrder(stored)
           none == stored = {}
           confirmed == Recorded(stored, "submission_confirmed")
           invalid == InvalidSequence(events)
           closed == Recorded(stored, "not_sent_proven")
           observed == Recorded(stored, "press_observed")
           allowed == Recorded(stored, "boundary_authorized")
<1>1. \A kind : Has(events, kind) <=> Recorded(stored, kind)
  BY KindsRead
<1>2. events = << >> <=> none
  BY NothingRead
<1>3. none => ~ confirmed /\ ~ closed /\ ~ observed /\ ~ allowed
  BY DEF Recorded
<1>4. Fold(stored) =
        IF none THEN "no_evidence"
        ELSE IF confirmed THEN "blocked_confirmed"
        ELSE IF invalid THEN "invalid_sequence"
        ELSE IF closed THEN "safe_not_sent"
        ELSE IF observed THEN "pressed"
        ELSE IF allowed THEN "boundary_authorized"
        ELSE "opened"
  <2>1. Fold(stored) = RetrySafety(events)
    BY DEF Fold
  <2> HIDE DEF events
  <2> QED
    BY <2>1, <1>1, <1>2 DEF RetrySafety
<1> HIDE DEF none, confirmed, invalid, closed, observed, allowed
<1>5. /\ Fold(stored) = "no_evidence" <=> none
      /\ Fold(stored) = "blocked_confirmed" <=> confirmed
      /\ Fold(stored) = "invalid_sequence" => invalid
      /\ Fold(stored) = "opened" => ~ allowed /\ ~ observed /\ ~ closed
      /\ Fold(stored) \in {"pressed", "boundary_authorized"} => ~ closed
      /\ Fold(stored) = "boundary_authorized" => allowed
      /\ Fold(stored) = "pressed" => observed
      /\ Fold(stored) \in {"no_evidence", "blocked_confirmed", "invalid_sequence",
                           "safe_not_sent", "pressed", "boundary_authorized", "opened"}
      /\ allowed /\ ~ closed =>
           Fold(stored) \in {"blocked_confirmed", "invalid_sequence", "pressed",
                            "boundary_authorized"}
  BY <1>3, <1>4
<1> QED
  BY <1>5 DEF none, confirmed, invalid, closed, observed, allowed

-----------------------------------------------------------------------------
(* The inductive invariant *)

Entries == {Entry(w) : w \in Writers \cup {"repair"}}

LedgerTypeOK ==
  /\ facts \subseteq [entry : Entries, at : Nat] /\ IsFiniteSet(facts)
  /\ dbClock \in Nat /\ began \in [Writers -> Nat]
  /\ sender \in {"ready", "opened", "waiting", "gone"}
  /\ managedRun \in [run : {"none", "running", "gone", "filed", "refused"}, pressed : BOOLEAN]
  /\ packet \in {"new", "in_flight", "parked", "released", "answered"}
  /\ inHand \in BOOLEAN /\ answered \in BOOLEAN /\ latePress \in BOOLEAN

\* Every fact and every open transaction has a time of its own.
TimesApart ==
  /\ \A s \in facts : 0 < s.at /\ s.at <= dbClock
  /\ \A s, t \in facts : s.at = t.at => s = t
  /\ \A w \in Writers : began[w] <= dbClock
  /\ \A v, w \in Writers : began[v] = began[w] => v = w \/ began[v] = 0
  /\ \A w \in Writers, s \in facts : s.at # began[w]

\* The opening fact is the first, of every other and of every transaction still open; and
\* nothing but an authorization or a stop is under way before the boundary.
OpenedFirst ==
  /\ sender = "ready" =>
       /\ facts = {} /\ packet = "new" /\ managedRun.run = "none" /\ ~ inHand
       /\ \A w \in Writers \ {"open"} : began[w] = 0
  /\ sender # "ready" =>
       /\ packet # "new" /\ began["open"] = 0
       /\ \E o \in facts :
            /\ o.entry = Entry("open")
            /\ \A s \in facts \ {o} : s.entry.fact.kind # "attempt_opened" /\ o.at < s.at
            /\ \A w \in Writers : began[w] # 0 => o.at < began[w]
  /\ sender = "opened" =>
       /\ packet = "in_flight" /\ managedRun.run = "none" /\ ~ inHand
       /\ \A s \in facts : s.entry = Entry("open")
       /\ \A w \in Writers \ {"authorize", "stop"} : began[w] = 0

\* The boundary is authorized once, before any not-sent proof and before any transaction
\* that may write one began; a stopped sender's authorization finds the proof.
AuthorizedOnceAndBefore ==
  /\ began["authorize"] # 0 => sender = "opened" \/ Recorded(facts, "not_sent_proven")
  /\ \A s \in facts : s.entry.fact.kind = "boundary_authorized" =>
       /\ \A t \in facts : t.entry.fact.kind = "boundary_authorized" => t = s
       /\ \A t \in facts : t.entry.fact.kind = "not_sent_proven" => s.at < t.at
       /\ \A w \in {"refuse", "close", "look", "packet_look"} :
            began[w] # 0 => s.at < began[w]

\* One not-sent proof, unless a press was observed; none while the row is in flight; and
\* never a stop's with an authorization.
ProofsFit ==
  /\ packet = "in_flight" => ~ Recorded(facts, "not_sent_proven")
  /\ \A s \in facts : s.entry.fact.kind = "not_sent_proven" =>
       /\ Recorded(facts, "boundary_authorized") =>
            s.entry.fact.proof \in AuthorizationAdmissibleProofs
       /\ \A t \in facts : t.entry.fact.kind = "not_sent_proven" =>
            t = s \/ Recorded(facts, "press_observed")

\* An answered row stays answered, and with it the fold.
AnswerKept == (answered => packet = "answered") /\ AnswerSticks

LedgerInv ==
  /\ LedgerTypeOK /\ TimesApart /\ OpenedFirst /\ AuthorizedOnceAndBefore /\ ProofsFit
  /\ AnswerKept

LEMMA InvMeansTimed == LedgerTypeOK /\ TimesApart => Timed(facts)
BY DEF LedgerTypeOK, TimesApart, Timed

-----------------------------------------------------------------------------
(* What the writers append *)

LEMMA EntryTable ==
  /\ Entry("open").fact.kind = "attempt_opened"
  /\ Entry("authorize").fact.kind = "boundary_authorized"
  /\ Entry("progress").fact.kind = "press_observed"
  /\ Entry("echo").fact.kind = "press_observed"
  /\ Entry("confirm").fact.kind = "submission_confirmed"
  /\ \A w \in {"refuse", "stop", "close", "look", "packet_look", "repair"} :
       Entry(w).fact.kind = "not_sent_proven"
  /\ \A w \in {"refuse", "look", "packet_look"} :
       Entry(w).fact.proof \in AuthorizationAdmissibleProofs
  /\ Entry("progress").fact = Pressed /\ Entry("echo").fact = Pressed
  /\ Entry("open").key = "open" /\ Entry("stop").key = "pre-click"
BY DEF Entry, Opened, Authorized, Pressed, Confirmed, NotSent, AuthorizationAdmissibleProofs

\* The fact a commit writes: new, or on record already; a look without an outcome to
\* settle writes none.
LEMMA CommittedFact ==
  ASSUME LedgerTypeOK, TimesApart, NEW w \in Writers, Commit(w)
  PROVE  /\ CreatedAt(w) \in Nat /\ 0 < CreatedAt(w) /\ CreatedAt(w) <= dbClock'
         /\ \A s \in facts : s.at # CreatedAt(w)
         /\ \A v \in Writers : v # w => began[v] # CreatedAt(w)
         /\ w = "authorize" => \A s \in facts : s.at < CreatedAt(w)
         /\ \/ facts' = facts \cup {[entry |-> Entry(w), at |-> CreatedAt(w)]}
            \/ facts' = facts /\ \E s \in facts : s.entry = Entry(w)
            \/ facts' = facts /\ w = "packet_look"
<1>1. /\ CreatedAt(w) \in Nat /\ 0 < CreatedAt(w) /\ CreatedAt(w) <= dbClock'
      /\ \A s \in facts : s.at # CreatedAt(w)
      /\ \A v \in Writers : v # w => began[v] # CreatedAt(w)
      /\ w = "authorize" => \A s \in facts : s.at < CreatedAt(w)
  <2>1. /\ began[w] \in Nat /\ began[w] # 0 /\ dbClock \in Nat /\ began[w] <= dbClock
        /\ \A s \in facts : s.at # began[w] /\ s.at \in Nat /\ s.at <= dbClock
        /\ \A v \in Writers : v # w => began[v] # began[w] /\ began[v] <= dbClock
                                       /\ began[v] \in Nat
    BY DEF LedgerTypeOK, TimesApart, Commit
  <2>2. CreatedAt(w) = (IF w = "authorize" THEN dbClock + 1 ELSE began[w])
        /\ dbClock' = (IF w = "authorize" THEN dbClock + 1 ELSE dbClock)
    BY DEF Commit, CreatedAt
  <2> QED
    BY <2>1, <2>2
<1>2. \/ facts' = facts \cup {[entry |-> Entry(w), at |-> CreatedAt(w)]}
      \/ facts' = facts /\ \E s \in facts : s.entry = Entry(w)
      \/ facts' = facts /\ w = "packet_look"
  BY DEF Commit, Appended, Appends, SameFact
<1> QED
  BY <1>1, <1>2

-----------------------------------------------------------------------------
(* Types and times *)

LEMMA InitLedger == LedgerInit => LedgerInv
<1> SUFFICES ASSUME LedgerInit PROVE LedgerInv
  OBVIOUS
<1> USE DEF LedgerInit
<1>1. LedgerTypeOK
  BY FS_EmptySet DEF LedgerTypeOK
<1>2. TimesApart
  BY DEF TimesApart
<1>3. OpenedFirst
  BY DEF OpenedFirst, Writers
<1>4. AuthorizedOnceAndBefore /\ ProofsFit
  BY DEF AuthorizedOnceAndBefore, ProofsFit, Recorded, Writers
<1>5. AnswerKept
  BY DEF AnswerKept, AnswerSticks
<1> QED
  BY <1>1, <1>2, <1>3, <1>4, <1>5 DEF LedgerInv

\* The store with one fact more.
LEMMA OneFactMore ==
  ASSUME LedgerTypeOK, NEW entry \in Entries, NEW at \in Nat
  PROVE  LET more == facts \cup {[entry |-> entry, at |-> at]} IN
         more \subseteq [entry : Entries, at : Nat] /\ IsFiniteSet(more)
<1>1. [entry |-> entry, at |-> at] \in [entry : Entries, at : Nat]
  OBVIOUS
<1>2. IsFiniteSet(facts \cup {[entry |-> entry, at |-> at]})
  BY FS_AddElement DEF LedgerTypeOK
<1> QED
  BY <1>1, <1>2 DEF LedgerTypeOK

LEMMA StepTypes == LedgerTypeOK /\ [LedgerNext]_ledgerVars => LedgerTypeOK'
<1> SUFFICES ASSUME LedgerTypeOK, [LedgerNext]_ledgerVars PROVE LedgerTypeOK'
  OBVIOUS
<1> USE DEF LedgerTypeOK
<1>1. ASSUME NEW w \in Writers, BeginTransaction(w) PROVE LedgerTypeOK'
  BY <1>1 DEF BeginTransaction
<1>2. ASSUME NEW w \in Writers, Abandon(w) PROVE LedgerTypeOK'
  BY <1>2 DEF Abandon
<1>3. ASSUME NEW w \in Writers, Commit(w) PROVE LedgerTypeOK'
  <2>1. CreatedAt(w) \in Nat /\ Entry(w) \in Entries
    BY DEF CreatedAt, Entries
  <2>2. facts' \subseteq [entry : Entries, at : Nat] /\ IsFiniteSet(facts')
    <3>1. facts' = facts \/ facts' = facts \cup {[entry |-> Entry(w), at |-> CreatedAt(w)]}
      BY <1>3 DEF Commit, Appended
    <3> QED
      BY <3>1, <2>1, OneFactMore
  <2>3. dbClock' \in Nat /\ began' \in [Writers -> Nat] /\ packet' \in
          {"new", "in_flight", "parked", "released", "answered"}
    BY <1>3 DEF Commit, RowAfter
  <2>4. sender' \in {"ready", "opened", "waiting", "gone"}
    BY <1>3 DEF Commit
  <2>5. managedRun' \in [run : {"none", "running", "gone", "filed", "refused"},
                         pressed : BOOLEAN]
    BY <1>3 DEF Commit
  <2>6. inHand' \in BOOLEAN /\ answered' \in BOOLEAN /\ latePress' \in BOOLEAN
    BY <1>3 DEF Commit
  <2> QED
    BY <2>2, <2>3, <2>4, <2>5, <2>6
<1>4. CASE Repair
  <2>1. Entry("repair") \in Entries /\ dbClock + 1 \in Nat
    BY DEF Entries
  <2>2. facts' \subseteq [entry : Entries, at : Nat] /\ IsFiniteSet(facts')
    BY <1>4, <2>1, OneFactMore DEF Repair
  <2> QED
    BY <1>4, <2>2 DEF Repair
<1>5. CASE RunPresses
  BY <1>5 DEF RunPresses
<1>6. CASE RunEnds
  BY <1>6 DEF RunEnds
<1>7. CASE CallReturns
  BY <1>7 DEF CallReturns
<1>8. CASE SenderDies
  BY <1>8 DEF SenderDies
<1>9. CASE Park \/ LosesClaim \/ LedgerTick
  BY <1>9 DEF Park, LosesClaim, LedgerTick
<1>10. CASE UNCHANGED ledgerVars
  BY <1>10 DEF ledgerVars
<1> QED
  BY <1>1, <1>2, <1>3, <1>4, <1>5, <1>6, <1>7, <1>8, <1>9, <1>10 DEF LedgerNext

LEMMA StepTimes == LedgerTypeOK /\ TimesApart /\ [LedgerNext]_ledgerVars => TimesApart'
<1> SUFFICES ASSUME LedgerTypeOK, TimesApart, [LedgerNext]_ledgerVars PROVE TimesApart'
  OBVIOUS
<1>0. /\ dbClock \in Nat /\ began \in [Writers -> Nat] /\ \A s \in facts : s.at \in Nat
      /\ \A w \in Writers : began[w] \in Nat
  BY DEF LedgerTypeOK
<1>1. ASSUME NEW w \in Writers, BeginTransaction(w) PROVE TimesApart'
  <2>1. /\ facts' = facts /\ dbClock' = dbClock + 1
        /\ \A v \in Writers : began'[v] = IF v = w THEN dbClock + 1 ELSE began[v]
    BY <1>0, <1>1 DEF BeginTransaction
  <2> QED
    BY <1>0, <2>1 DEF TimesApart
<1>2. ASSUME facts' = facts, dbClock' \in Nat, dbClock' >= dbClock,
             \A v \in Writers : began'[v] = began[v] \/ began'[v] = 0
      PROVE  TimesApart'
  BY <1>0, <1>2 DEF TimesApart
<1>3. ASSUME NEW w \in Writers, Abandon(w) PROVE TimesApart'
  BY <1>0, <1>2, <1>3 DEF Abandon
<1>4. ASSUME NEW w \in Writers, Commit(w) PROVE TimesApart'
  <2>1. /\ CreatedAt(w) \in Nat /\ 0 < CreatedAt(w) /\ CreatedAt(w) <= dbClock'
        /\ \A s \in facts : s.at # CreatedAt(w)
        /\ \A v \in Writers : v # w => began[v] # CreatedAt(w)
        /\ \/ facts' = facts \cup {[entry |-> Entry(w), at |-> CreatedAt(w)]}
           \/ facts' = facts
    BY <1>4, CommittedFact
  <2>2. dbClock' \in Nat /\ dbClock' >= dbClock
        /\ \A v \in Writers : began'[v] = IF v = w THEN 0 ELSE began[v]
    BY <1>0, <1>4 DEF Commit
  <2>3. CASE facts' = facts
    BY <2>2, <2>3, <1>2
  <2>4. CASE facts' = facts \cup {[entry |-> Entry(w), at |-> CreatedAt(w)]}
    <3>1. PICK new \in facts' : new.at = CreatedAt(w) /\ facts' = facts \cup {new}
      BY <2>4
    <3> QED
      BY <3>1, <2>1, <2>2, <1>0 DEF TimesApart
  <2> QED
    BY <2>1, <2>3, <2>4
<1>5. CASE Repair
  <2>1. PICK new \in facts' : new.at = dbClock + 1 /\ facts' = facts \cup {new}
    BY <1>5 DEF Repair
  <2>2. began' = began /\ dbClock' = dbClock + 1
    BY <1>5 DEF Repair
  <2> QED
    BY <2>1, <2>2, <1>0 DEF TimesApart
<1>6. CASE RunPresses \/ RunEnds \/ CallReturns \/ SenderDies \/ Park \/ LosesClaim
           \/ LedgerTick \/ UNCHANGED ledgerVars
  BY <1>0, <1>2, <1>6 DEF RunPresses, RunEnds, CallReturns, SenderDies, Park, LosesClaim,
     LedgerTick, ledgerVars
<1> QED
  BY <1>1, <1>3, <1>4, <1>5, <1>6 DEF LedgerNext

-----------------------------------------------------------------------------
(* The opening fact *)

\* A sender that has not opened the attempt yet is alone, and its opening goes through.
LEMMA ReadyOpens ==
  ASSUME OpenedFirst, sender = "ready", NEW w \in Writers, began[w] # 0
  PROVE  w = "open" /\ ~ Abandon(w)
<1>1. w = "open" /\ facts = {}
  BY DEF OpenedFirst
<1>2. Admits("open") /\ ~ Conflicts("open") /\ Holds("open", Appended("open"))
  BY <1>1 DEF Admits, Conflicts, Holds
<1> QED
  BY <1>1, <1>2 DEF Abandon

LEMMA StepOpenedFirst ==
  LedgerTypeOK /\ TimesApart /\ OpenedFirst /\ [LedgerNext]_ledgerVars => OpenedFirst'
<1> SUFFICES ASSUME LedgerTypeOK, TimesApart, OpenedFirst, [LedgerNext]_ledgerVars
             PROVE  OpenedFirst'
  OBVIOUS
<1>0. /\ dbClock \in Nat /\ \A s \in facts : s.at \in Nat /\ s.at <= dbClock
      /\ \A w \in Writers : began[w] \in Nat
      /\ "open" \in Writers
  BY DEF LedgerTypeOK, TimesApart, Writers
<1> DEFINE FirstOf(o) ==
             /\ o \in facts /\ o.entry = Entry("open")
             /\ \A s \in facts \ {o} : s.entry.fact.kind # "attempt_opened" /\ o.at < s.at
             /\ \A w \in Writers : began[w] # 0 => o.at < began[w]
\* A step that writes no fact, begins at most one transaction and does not open.
<1>1. ASSUME facts' = facts, packet' # "new" \/ packet' = packet,
             sender' # "ready" \/ sender' = sender,
             sender' = "ready" => packet' = packet /\ managedRun' = managedRun /\ ~ inHand',
             sender' = "opened" =>
               /\ sender = "opened" /\ packet' = packet /\ managedRun' = managedRun
               /\ ~ inHand',
             sender = "ready" => sender' = "ready",
             \A w \in Writers : \/ began'[w] = began[w] \/ began'[w] = 0
                                \/ /\ began'[w] = dbClock + 1
                                   /\ sender' = "ready" <=> w = "open"
                                   /\ sender' = "opened" => w \in {"authorize", "stop"}
      PROVE  OpenedFirst'
  <2>1. CASE sender = "ready"
    <3>1. /\ facts' = {} /\ packet' = "new" /\ managedRun'.run = "none" /\ ~ inHand'
          /\ \A w \in Writers \ {"open"} : began'[w] = 0
      BY <1>1, <2>1 DEF OpenedFirst
    <3> QED
      BY <1>1, <2>1, <3>1 DEF OpenedFirst
  <2>2. CASE sender # "ready"
    <3>1. PICK o : FirstOf(o)
      BY <2>2 DEF OpenedFirst
    <3>2. \A w \in Writers : began'[w] # 0 => o.at < began'[w]
      BY <3>1, <1>1, <1>0
    <3>3. packet' # "new" /\ began'["open"] = 0 /\ sender' # "ready"
      BY <2>2, <1>1, <1>0 DEF OpenedFirst
    <3>4. \A s \in facts' \ {o} : s.entry.fact.kind # "attempt_opened" /\ o.at < s.at
      BY <3>1, <1>1
    <3>5. o \in facts' /\ o.entry = Entry("open")
      BY <3>1, <1>1
    <3>6. ASSUME sender' = "opened"
          PROVE  /\ packet' = "in_flight" /\ managedRun'.run = "none" /\ ~ inHand'
                 /\ \A s \in facts' : s.entry = Entry("open")
                 /\ \A w \in Writers \ {"authorize", "stop"} : began'[w] = 0
      BY <3>6, <1>1 DEF OpenedFirst
    <3> QED
      BY <3>2, <3>3, <3>4, <3>5, <3>6 DEF OpenedFirst
  <2> QED
    BY <2>1, <2>2
\* A step that writes a fact after the opening.
<1>2. ASSUME sender # "ready", packet' # "new", sender' \notin {"ready", "opened"},
             NEW new, new.entry.fact.kind # "attempt_opened",
             facts' = facts \/ facts' = facts \cup {new},
             new.at = dbClock + 1 \/ \E w \in Writers : began[w] # 0 /\ new.at = began[w],
             \A w \in Writers : began'[w] = began[w] \/ began'[w] = 0
      PROVE  OpenedFirst'
  <2>1. PICK o : FirstOf(o)
    BY <1>2 DEF OpenedFirst
  <2>2. o.at < new.at
    BY <2>1, <1>2, <1>0
  <2>3. \A w \in Writers : began'[w] # 0 => o.at < began'[w]
    BY <2>1, <1>2
  <2>4. o \in facts' /\ \A s \in facts' \ {o} :
                           s.entry.fact.kind # "attempt_opened" /\ o.at < s.at
    BY <2>1, <2>2, <1>2
  <2>5. began'["open"] = 0
    BY <1>0, <1>2 DEF OpenedFirst
  <2> QED
    BY <2>1, <2>3, <2>4, <2>5, <1>2 DEF OpenedFirst
<1>3. ASSUME NEW w \in Writers, BeginTransaction(w) PROVE OpenedFirst'
  <2>1. /\ UNCHANGED <<facts, sender, managedRun, packet, inHand>>
        /\ \A v \in Writers : began'[v] = IF v = w THEN dbClock + 1 ELSE began[v]
    BY <1>3 DEF BeginTransaction, LedgerTypeOK
  <2>2. sender = "ready" <=> w = "open"
    BY <1>3 DEF BeginTransaction, MayBegin, OpenedFirst, Claimed, Writers
  <2>3. sender = "opened" => w \in {"authorize", "stop"}
    BY <1>3, <2>2 DEF BeginTransaction, MayBegin, OpenedFirst, Claimed, Completed, Writers
  <2>4. sender = "ready" \/ sender = "opened" => ~ inHand
    BY DEF OpenedFirst
  <2> QED
    BY <2>1, <2>2, <2>3, <2>4, <1>1
<1>4. ASSUME NEW w \in Writers, Abandon(w) PROVE OpenedFirst'
  <2>1. /\ facts' = facts /\ managedRun' = managedRun /\ packet' = packet
        /\ \A v \in Writers : began'[v] = began[v] \/ began'[v] = 0
        /\ sender' = "gone" \/ sender' = sender
        /\ inHand' => inHand
        /\ began[w] # 0
    BY <1>4 DEF Abandon, LedgerTypeOK
  <2>2. sender # "ready"
    BY <2>1, <1>4, ReadyOpens
  <2>3. sender = "opened" => ~ inHand
    BY DEF OpenedFirst
  <2> QED
    BY <2>1, <2>2, <2>3, <1>1
<1>5. ASSUME NEW w \in Writers, Commit(w) PROVE OpenedFirst'
  <2>1. /\ began[w] # 0 /\ Admits(w)
        /\ \A v \in Writers : began'[v] = IF v = w THEN 0 ELSE began[v]
        /\ packet' = RowAfter(w)
        /\ sender' = (CASE w = "open" -> "opened"
                        [] w = "authorize" -> "waiting"
                        [] w \in {"stop", "progress"} -> "gone"
                        [] OTHER -> sender)
        /\ managedRun' = IF w = "authorize" THEN [managedRun EXCEPT !.run = "running"]
                                            ELSE managedRun
        /\ inHand' = (w = "echo" \/ (inHand /\ w \notin {"confirm", "refuse"}))
    BY <1>5 DEF Commit, LedgerTypeOK
  <2>2. /\ \/ facts' = facts \cup {[entry |-> Entry(w), at |-> CreatedAt(w)]}
           \/ facts' = facts
        /\ CreatedAt(w) = dbClock + 1 \/ CreatedAt(w) = began[w]
    BY <1>5, CommittedFact DEF CreatedAt
  <2>3. CASE w = "open"
    <3>1. facts = {} /\ sender = "ready"
      BY <2>1, <2>3 DEF Admits, OpenedFirst
    <3>2. \A v \in Writers : began'[v] = 0
      BY <2>1, <2>3, <3>1 DEF OpenedFirst
    <3>3. /\ packet' = "in_flight" /\ sender' = "opened" /\ managedRun'.run = "none"
          /\ ~ inHand'
      BY <2>1, <2>3, <3>1 DEF OpenedFirst, RowAfter
    <3> DEFINE o == [entry |-> Entry("open"), at |-> CreatedAt("open")]
    <3>4. facts' = {o}
      BY <3>1, <2>3, <1>5 DEF Commit, Appended, Appends, SameFact
    <3>5. o.entry = Entry("open")
      OBVIOUS
    <3> HIDE DEF o
    <3> QED
      BY <3>2, <3>3, <3>4, <3>5, <1>0 DEF OpenedFirst
  <2>4. CASE w # "open"
    <3>1. sender # "ready"
      BY <2>1, <2>4 DEF OpenedFirst
    <3>2. sender = "opened" => w \in {"authorize", "stop"}
      BY <2>1 DEF OpenedFirst
    <3>3. sender' \notin {"ready", "opened"}
      BY <2>1, <2>4, <3>1, <3>2
    <3>4. packet' # "new"
      BY <2>1, <3>1 DEF RowAfter, OpenedFirst, Writers
    <3>5. Entry(w).fact.kind # "attempt_opened"
      BY <2>4, EntryTable DEF Writers
    <3> DEFINE new == [entry |-> Entry(w), at |-> CreatedAt(w)]
    <3>6. new.entry = Entry(w) /\ new.at = CreatedAt(w)
      OBVIOUS
    <3>7. facts' = facts \/ facts' = facts \cup {new}
      BY <2>2
    <3> HIDE DEF new
    <3> QED
      BY <3>1, <3>3, <3>4, <3>5, <3>6, <3>7, <2>1, <2>2, <1>2
  <2> QED
    BY <2>3, <2>4
<1>6. CASE Repair
  <2> DEFINE new == [entry |-> Entry("repair"), at |-> dbClock + 1]
  <2>1. new.entry = Entry("repair") /\ new.at = dbClock + 1
    OBVIOUS
  <2>2. /\ packet = "parked" /\ packet' = "released" /\ began' = began /\ sender' = sender
        /\ facts' = facts \cup {new}
    BY <1>6 DEF Repair
  <2>3. sender \notin {"ready", "opened"}
    BY <2>2 DEF OpenedFirst
  <2>4. Entry("repair").fact.kind # "attempt_opened"
    BY EntryTable
  <2> HIDE DEF new
  <2> QED
    BY <2>1, <2>2, <2>3, <2>4, <1>2
<1>7. CASE RunPresses \/ RunEnds
  <2>1. managedRun.run = "running" /\ UNCHANGED <<facts, began, sender, packet, inHand>>
    BY <1>7 DEF RunPresses, RunEnds
  <2>2. sender # "ready" /\ sender # "opened"
    BY <2>1 DEF OpenedFirst
  <2> QED
    BY <2>1, <2>2, <1>1
<1>8. CASE CallReturns
  BY <1>8, <1>1 DEF CallReturns
<1>9. CASE SenderDies
  <2>1. /\ UNCHANGED <<facts, managedRun, packet>> /\ ~ inHand'
        /\ sender' = IF sender = "ready" THEN sender ELSE "gone"
        /\ \A w \in Writers : began'[w] = began[w] \/ began'[w] = 0
    BY <1>9 DEF SenderDies, LedgerTypeOK
  <2> QED
    BY <2>1, <1>1
<1>10. CASE Park \/ LosesClaim
  BY <1>10, <1>1 DEF Park, LosesClaim
<1>11. CASE LedgerTick \/ UNCHANGED ledgerVars
  BY <1>11, <1>1 DEF LedgerTick, ledgerVars, OpenedFirst
<1> QED
  BY <1>3, <1>4, <1>5, <1>6, <1>7, <1>8, <1>9, <1>10, <1>11 DEF LedgerNext

-----------------------------------------------------------------------------
(* What a writer under the lock knows *)

\* The fold calls the facts invalid only when a press and a not-sent proof are both among
\* them.
LEMMA InvalidMeansBoth ==
  ASSUME LedgerTypeOK, TimesApart, OpenedFirst, AuthorizedOnceAndBefore, ProofsFit,
         Now = "invalid_sequence"
  PROVE  Recorded(facts, "press_observed") /\ Recorded(facts, "not_sent_proven")
<1>1. Timed(facts)
  BY InvMeansTimed
<1>2. facts # {} /\ ~ Sound(facts)
  BY <1>1, FoldMeans, SoundIsValid DEF Now
<1>3. sender # "ready"
  BY <1>2 DEF OpenedFirst
<1>4. PICK o \in facts :
        /\ o.entry = Entry("open")
        /\ \A s \in facts \ {o} : s.entry.fact.kind # "attempt_opened" /\ o.at < s.at
  BY <1>3 DEF OpenedFirst
<1>5. o.entry.fact.kind = "attempt_opened"
  BY <1>4, EntryTable
<1>6. \A s, t \in facts :
        s.entry.fact.kind = "boundary_authorized" /\ t.entry.fact.kind = "boundary_authorized"
          => s = t
  BY DEF AuthorizedOnceAndBefore
<1>7. PICK s \in facts :
        /\ s.entry.fact.kind = "not_sent_proven"
        /\ ~ (/\ \A t \in facts : t.entry.fact.kind = "not_sent_proven" => s = t
              /\ \A t \in facts : t.entry.fact.kind \in Risk => t.at < s.at
              /\ Recorded(facts, "boundary_authorized") =>
                   s.entry.fact.proof \in AuthorizationAdmissibleProofs
              /\ ~ Recorded(facts, "press_observed"))
  BY <1>2, <1>4, <1>5, <1>6 DEF Sound
<1>8. Recorded(facts, "not_sent_proven")
  BY <1>7 DEF Recorded
<1>9. ASSUME ~ Recorded(facts, "press_observed") PROVE FALSE
  <2>1. \A t \in facts : t.entry.fact.kind = "not_sent_proven" => s = t
    BY <1>7, <1>9 DEF ProofsFit
  <2>2. Recorded(facts, "boundary_authorized") =>
          s.entry.fact.proof \in AuthorizationAdmissibleProofs
    BY <1>7 DEF ProofsFit
  <2>3. ASSUME NEW t \in facts, t.entry.fact.kind \in Risk PROVE t.at < s.at
    <3>1. CASE t.entry.fact.kind = "attempt_opened"
      BY <1>4, <1>5, <1>7, <3>1
    <3>2. CASE t.entry.fact.kind = "boundary_authorized"
      BY <1>7, <3>2 DEF AuthorizedOnceAndBefore
    <3>3. CASE t.entry.fact.kind = "press_observed"
      BY <1>9, <3>3 DEF Recorded
    <3> QED
      BY <2>3, <3>1, <3>2, <3>3 DEF Risk
  <2> QED
    BY <1>7, <1>9, <2>1, <2>2, <2>3
<1> QED
  BY <1>8, <1>9

\* A writer that finds an attempt without an outcome finds no not-sent proof, or a press.
LEMMA UnverifiedFinds ==
  ASSUME LedgerTypeOK, TimesApart, OpenedFirst, AuthorizedOnceAndBefore, ProofsFit,
         BlockedUnverified(Events), Recorded(facts, "not_sent_proven")
  PROVE  Recorded(facts, "press_observed")
<1>1. Now \in {"invalid_sequence", "pressed", "boundary_authorized", "opened"}
  BY DEF BlockedUnverified, Events, Now, Fold
<1>2. Now = "invalid_sequence"
  BY <1>1, InvMeansTimed, FoldMeans DEF Now
<1> QED
  BY <1>2, InvalidMeansBoth

\* A stop the runner types finds no authorization.
LEMMA StopFinds ==
  ASSUME LedgerTypeOK, TimesApart, OpenedFirst, AuthorizedOnceAndBefore, ProofsFit, MayStop
  PROVE  ~ Recorded(facts, "boundary_authorized") /\ ~ Recorded(facts, "not_sent_proven")
<1>1. ~ Recorded(facts, "not_sent_proven")
  BY DEF MayStop, ProofsFit
<1>2. Now # "invalid_sequence"
  BY <1>1, InvalidMeansBoth
<1>3. Now \notin {"boundary_authorized", "pressed", "blocked_confirmed"}
  BY DEF MayStop
<1>4. Recorded(facts, "boundary_authorized") /\ ~ Recorded(facts, "not_sent_proven") =>
        Now \in {"blocked_confirmed", "invalid_sequence", "pressed", "boundary_authorized"}
  BY InvMeansTimed, FoldMeans DEF Now
<1> QED
  BY <1>1, <1>2, <1>3, <1>4

\* Before the boundary a stop goes through.
LEMMA OpenedStops ==
  ASSUME LedgerTypeOK, TimesApart, OpenedFirst, sender = "opened", began["stop"] # 0
  PROVE  ~ Abandon("stop")
<1>1. packet = "in_flight" /\ \A s \in facts : s.entry = Entry("open")
  BY DEF OpenedFirst
<1>2. /\ ~ Recorded(facts, "boundary_authorized") /\ ~ Recorded(facts, "press_observed")
      /\ ~ Recorded(facts, "submission_confirmed")
  BY <1>1, EntryTable DEF Recorded
<1>3. Now \notin {"boundary_authorized", "pressed", "blocked_confirmed"}
  BY <1>2, InvMeansTimed, FoldMeans DEF Now
<1>4. Admits("stop")
  BY <1>1, <1>3 DEF Admits, MayStop
<1>5. ~ Conflicts("stop") /\ Holds("stop", Appended("stop"))
  BY <1>1, EntryTable DEF Conflicts, Holds
<1> QED
  BY <1>4, <1>5 DEF Abandon

LEMMA NeverReachedFinds ==
  ASSUME LedgerTypeOK, TimesApart, NeverReachedEmployer(Events)
  PROVE  ~ Recorded(facts, "boundary_authorized") /\ ~ Recorded(facts, "not_sent_proven")
BY InvMeansTimed, KindsRead DEF NeverReachedEmployer, Events

\* What a commit that writes a fact found recorded.
LEMMA CommitFinds ==
  ASSUME LedgerTypeOK, TimesApart, OpenedFirst, AuthorizedOnceAndBefore, ProofsFit,
         NEW w \in Writers, Commit(w)
  PROVE  /\ w = "authorize" => /\ ~ Recorded(facts, "boundary_authorized")
                               /\ ~ Recorded(facts, "not_sent_proven")
                               /\ sender = "opened"
         /\ w \in {"stop", "close"} => /\ ~ Recorded(facts, "boundary_authorized")
                                       /\ ~ Recorded(facts, "not_sent_proven")
         /\ w = "refuse" => ~ Recorded(facts, "not_sent_proven")
         /\ w \in {"look", "packet_look"} /\ facts' # facts
              /\ Recorded(facts, "not_sent_proven") => Recorded(facts, "press_observed")
<1>1. Admits(w) /\ began[w] # 0
  BY DEF Commit
<1>2. CASE w = "authorize"
  <2>1. Now = "opened"
    BY <1>1, <1>2 DEF Admits
  <2>2. ~ Recorded(facts, "boundary_authorized") /\ ~ Recorded(facts, "not_sent_proven")
    BY <2>1, InvMeansTimed, FoldMeans DEF Now
  <2> QED
    BY <1>1, <1>2, <2>2 DEF AuthorizedOnceAndBefore
<1>3. CASE w = "stop"
  BY <1>1, <1>3, StopFinds DEF Admits
<1>4. CASE w = "close"
  BY <1>1, <1>4, NeverReachedFinds DEF Admits
<1>5. CASE w = "refuse"
  BY <1>1, <1>5, InvMeansTimed, KindsRead DEF Admits, Events
<1>6. CASE w \in {"look", "packet_look"}
  <2>1. facts' # facts => BlockedUnverified(Events)
    BY <1>1, <1>6 DEF Admits, Commit, Appended, Appends
  <2> QED
    BY <1>6, <2>1, UnverifiedFinds
<1> QED
  BY <1>2, <1>3, <1>4, <1>5, <1>6

-----------------------------------------------------------------------------
(* The authorization and the not-sent proofs *)

LEMMA StepAuthorized ==
  LedgerTypeOK /\ TimesApart /\ OpenedFirst /\ AuthorizedOnceAndBefore /\ ProofsFit
    /\ [LedgerNext]_ledgerVars => AuthorizedOnceAndBefore'
<1> SUFFICES ASSUME LedgerTypeOK, TimesApart, OpenedFirst, AuthorizedOnceAndBefore,
                    ProofsFit, [LedgerNext]_ledgerVars
             PROVE  AuthorizedOnceAndBefore'
  OBVIOUS
<1> DEFINE Closers == {"refuse", "close", "look", "packet_look"}
<1>0. /\ dbClock \in Nat /\ \A s \in facts : s.at \in Nat /\ s.at <= dbClock
      /\ \A w \in Writers : began[w] \in Nat
      /\ "authorize" \in Writers /\ Closers \subseteq Writers
  BY DEF LedgerTypeOK, TimesApart, Writers
\* A step that writes no fact.
<1>1. ASSUME facts' = facts,
             \A w \in Writers : began'[w] \in {began[w], 0, dbClock + 1},
             began'["authorize"] # 0 =>
               sender' = "opened" \/ Recorded(facts, "not_sent_proven")
      PROVE  AuthorizedOnceAndBefore'
  <2>1. ASSUME NEW s \in facts, s.entry.fact.kind = "boundary_authorized",
               NEW w \in Closers, began'[w] # 0
        PROVE  s.at < began'[w]
    <3>1. began'[w] \in {began[w], 0, dbClock + 1} /\ s.at \in Nat /\ s.at <= dbClock
      BY <1>0, <1>1
    <3>2. began[w] # 0 => s.at < began[w]
      BY <2>1 DEF AuthorizedOnceAndBefore
    <3> QED
      BY <3>1, <3>2, <2>1, <1>0
  <2> QED
    BY <1>1, <2>1 DEF AuthorizedOnceAndBefore, Recorded
\* A step that writes a fact other than an authorization.
<1>2. ASSUME NEW new, facts' = facts \/ facts' = facts \cup {new},
             new.entry.fact.kind # "boundary_authorized",
             new.entry.fact.kind = "not_sent_proven" =>
               \A s \in facts : s.entry.fact.kind = "boundary_authorized" => s.at < new.at,
             \A w \in Writers : began'[w] \in {began[w], 0},
             began'["authorize"] # 0 =>
               sender' = "opened" \/ Recorded(facts', "not_sent_proven")
      PROVE  AuthorizedOnceAndBefore'
  <2>1. ASSUME NEW s \in facts', s.entry.fact.kind = "boundary_authorized"
        PROVE  /\ \A t \in facts' : t.entry.fact.kind = "boundary_authorized" => t = s
               /\ \A t \in facts' : t.entry.fact.kind = "not_sent_proven" => s.at < t.at
               /\ \A w \in Closers : began'[w] # 0 => s.at < began'[w]
    <3>1. s \in facts
      BY <2>1, <1>2
    <3>2. \A w \in Closers : began'[w] # 0 => s.at < began'[w]
      BY <3>1, <2>1, <1>0, <1>2 DEF AuthorizedOnceAndBefore
    <3> QED
      BY <3>1, <3>2, <2>1, <1>2 DEF AuthorizedOnceAndBefore
  <2> QED
    BY <2>1, <1>2 DEF AuthorizedOnceAndBefore
<1>3. ASSUME NEW w \in Writers, BeginTransaction(w) PROVE AuthorizedOnceAndBefore'
  <2>1. /\ UNCHANGED <<facts, sender>> /\ MayBegin(w)
        /\ \A v \in Writers : began'[v] = IF v = w THEN dbClock + 1 ELSE began[v]
    BY <1>3 DEF BeginTransaction, LedgerTypeOK
  <2>2. w = "authorize" => sender = "opened"
    BY <2>1 DEF MayBegin
  <2> QED
    BY <2>1, <2>2, <1>0, <1>1 DEF AuthorizedOnceAndBefore
<1>4. ASSUME NEW w \in Writers, Abandon(w) PROVE AuthorizedOnceAndBefore'
  <2>1. /\ facts' = facts /\ began[w] # 0
        /\ \A v \in Writers : began'[v] = IF v = w THEN 0 ELSE began[v]
        /\ sender' = IF w \in {"open", "authorize", "stop"} THEN "gone" ELSE sender
    BY <1>4 DEF Abandon, LedgerTypeOK
  <2>2. w = "open" => FALSE
    <3>1. w = "open" => sender = "ready"
      BY <2>1 DEF OpenedFirst
    <3> QED
      BY <3>1, <2>1, <1>4, ReadyOpens
  <2>3. w = "stop" => sender # "opened"
    BY <2>1, <1>4, OpenedStops
  <2> QED
    BY <2>1, <2>2, <2>3, <1>0, <1>1 DEF AuthorizedOnceAndBefore
<1>5. ASSUME NEW w \in Writers, Commit(w) PROVE AuthorizedOnceAndBefore'
  <2> DEFINE new == [entry |-> Entry(w), at |-> CreatedAt(w)]
  <2>1. new.entry = Entry(w) /\ new.at = CreatedAt(w)
    OBVIOUS
  <2>2. /\ \/ facts' = facts \cup {new}
           \/ facts' = facts /\ \E s \in facts : s.entry = Entry(w)
           \/ facts' = facts /\ w = "packet_look"
        /\ w = "authorize" => \A s \in facts : s.at < CreatedAt(w)
    BY <1>5, CommittedFact
  <2> HIDE DEF new
  <2>3. /\ began[w] # 0
        /\ \A v \in Writers : began'[v] = IF v = w THEN 0 ELSE began[v]
        /\ sender' = (CASE w = "open" -> "opened"
                        [] w = "authorize" -> "waiting"
                        [] w \in {"stop", "progress"} -> "gone"
                        [] OTHER -> sender)
    BY <1>5 DEF Commit, LedgerTypeOK
  <2>4. CASE w = "authorize"
    <3>1. /\ ~ Recorded(facts, "boundary_authorized")
          /\ ~ Recorded(facts, "not_sent_proven") /\ sender = "opened"
      BY <1>5, <2>4, CommitFinds
    <3>2. \A v \in Closers : began'[v] = 0
      BY <3>1, <2>3, <2>4, <1>0 DEF OpenedFirst
    <3>3. \A s \in facts' : s.entry.fact.kind = "boundary_authorized" => s = new
      BY <3>1, <2>2, EntryTable DEF Recorded
    <3>4. \A s \in facts' : s.entry.fact.kind # "not_sent_proven"
      BY <3>1, <2>1, <2>2, <2>4, EntryTable DEF Recorded
    <3>5. began'["authorize"] = 0
      BY <2>3, <2>4
    <3> QED
      BY <3>2, <3>3, <3>4, <3>5 DEF AuthorizedOnceAndBefore
  <2>5. CASE w # "authorize"
    <3>1. new.entry.fact.kind # "boundary_authorized"
      BY <2>1, <2>5, EntryTable DEF Writers
    <3>2. ASSUME new.entry.fact.kind = "not_sent_proven", NEW s \in facts,
                 s.entry.fact.kind = "boundary_authorized"
          PROVE  s.at < new.at
      <4>1. w \in {"refuse", "stop", "close", "look", "packet_look"}
        BY <3>2, <2>1, <2>5, EntryTable DEF Writers
      <4>2. w # "stop"
        BY <3>2, <1>5, CommitFinds DEF Recorded
      <4>3. s.at < began[w]
        BY <4>1, <4>2, <3>2, <2>3 DEF AuthorizedOnceAndBefore
      <4> QED
        BY <4>3, <2>1, <2>5 DEF CreatedAt
    <3>3. Recorded(facts, "not_sent_proven") => Recorded(facts', "not_sent_proven")
      BY <2>2 DEF Recorded
    <3>4. w = "stop" => Recorded(facts', "not_sent_proven")
      BY <2>1, <2>2, EntryTable DEF Recorded
    <3>5. w = "progress" => sender # "opened"
      BY <2>3 DEF OpenedFirst
    <3>6. began'["authorize"] # 0 =>
            sender' = "opened" \/ Recorded(facts', "not_sent_proven")
      BY <3>3, <3>4, <3>5, <2>3, <2>5, <1>0 DEF AuthorizedOnceAndBefore
    <3>7. facts' = facts \/ facts' = facts \cup {new}
      BY <2>2
    <3>8. \A v \in Writers : began'[v] \in {began[v], 0}
      BY <2>3
    <3> QED
      BY <3>1, <3>2, <3>6, <3>7, <3>8, <1>2
  <2> QED
    BY <2>4, <2>5
<1>6. CASE Repair
  <2> DEFINE new == [entry |-> Entry("repair"), at |-> dbClock + 1]
  <2>1. new.entry = Entry("repair") /\ new.at = dbClock + 1
    OBVIOUS
  <2>2. /\ UNCHANGED <<began, sender>> /\ facts' = facts \cup {new}
        /\ NeverReachedEmployer(Events)
    BY <1>6 DEF Repair
  <2> HIDE DEF new
  <2>3. ~ Recorded(facts, "boundary_authorized")
    BY <2>2, NeverReachedFinds
  <2>4. new.entry.fact.kind = "not_sent_proven"
    BY <2>1, EntryTable
  <2>5. Recorded(facts', "not_sent_proven")
    BY <2>2, <2>4 DEF Recorded
  <2> QED
    BY <2>2, <2>3, <2>4, <2>5, <1>2 DEF Recorded
<1>7. CASE SenderDies
  <2>1. /\ facts' = facts /\ began'["authorize"] = 0
        /\ \A w \in Writers : began'[w] \in {began[w], 0}
    BY <1>7, <1>0 DEF SenderDies
  <2> QED
    BY <2>1, <1>1
<1>8. CASE CallReturns
  BY <1>8, <1>1 DEF CallReturns, AuthorizedOnceAndBefore
<1>9. CASE RunPresses \/ RunEnds \/ Park \/ LosesClaim \/ LedgerTick \/ UNCHANGED ledgerVars
  <2>1. UNCHANGED <<facts, began, sender>>
    BY <1>9 DEF RunPresses, RunEnds, Park, LosesClaim, LedgerTick, ledgerVars
  <2> QED
    BY <2>1, <1>1 DEF AuthorizedOnceAndBefore
<1> QED
  BY <1>3, <1>4, <1>5, <1>6, <1>7, <1>8, <1>9 DEF LedgerNext

LEMMA StepProofsFit ==
  LedgerTypeOK /\ TimesApart /\ OpenedFirst /\ AuthorizedOnceAndBefore /\ ProofsFit
    /\ [LedgerNext]_ledgerVars => ProofsFit'
<1> SUFFICES ASSUME LedgerTypeOK, TimesApart, OpenedFirst, AuthorizedOnceAndBefore,
                    ProofsFit, [LedgerNext]_ledgerVars
             PROVE  ProofsFit'
  OBVIOUS
\* A step that writes no fact.
<1>1. ASSUME facts' = facts, packet' = "in_flight" => packet = "in_flight" \/ facts = {}
      PROVE  ProofsFit'
  BY <1>1 DEF ProofsFit, Recorded
\* A step that writes a not-sent proof.
<1>2. ASSUME NEW new, facts' = facts \cup {new}, packet' # "in_flight",
             new.entry.fact.kind = "not_sent_proven",
             \/ ~ Recorded(facts, "boundary_authorized")
             \/ new.entry.fact.proof \in AuthorizationAdmissibleProofs,
             Recorded(facts, "not_sent_proven") => Recorded(facts, "press_observed")
      PROVE  ProofsFit'
  <2>1. /\ Recorded(facts', "boundary_authorized") => Recorded(facts, "boundary_authorized")
        /\ Recorded(facts, "press_observed") => Recorded(facts', "press_observed")
    BY <1>2 DEF Recorded
  <2>2. ASSUME NEW s \in facts', s.entry.fact.kind = "not_sent_proven"
        PROVE  /\ Recorded(facts', "boundary_authorized") =>
                    s.entry.fact.proof \in AuthorizationAdmissibleProofs
               /\ \A t \in facts' : t.entry.fact.kind = "not_sent_proven" =>
                    t = s \/ Recorded(facts', "press_observed")
    <3>1. CASE s \in facts
      <4>1. Recorded(facts, "not_sent_proven")
        BY <2>2, <3>1 DEF Recorded
      <4> QED
        BY <2>1, <2>2, <3>1, <4>1, <1>2 DEF ProofsFit
    <3>2. CASE s = new
      <4>1. ASSUME NEW t \in facts, t.entry.fact.kind = "not_sent_proven"
            PROVE  Recorded(facts', "press_observed")
        BY <4>1, <2>1, <1>2 DEF Recorded
      <4> QED
        BY <2>1, <3>2, <4>1, <1>2
    <3> QED
      BY <2>2, <3>1, <3>2, <1>2
  <2> QED
    BY <2>2, <1>2 DEF ProofsFit
\* A step that writes another fact.
<1>3. ASSUME NEW new, facts' = facts \cup {new},
             packet' = "in_flight" => packet = "in_flight" \/ facts = {},
             new.entry.fact.kind # "not_sent_proven",
             new.entry.fact.kind = "boundary_authorized" => ~ Recorded(facts, "not_sent_proven")
      PROVE  ProofsFit'
  <2>1. ASSUME NEW s \in facts', s.entry.fact.kind = "not_sent_proven"
        PROVE  s \in facts /\ Recorded(facts, "not_sent_proven")
    BY <2>1, <1>3 DEF Recorded
  <2>2. Recorded(facts, "not_sent_proven") =>
          (Recorded(facts', "boundary_authorized") => Recorded(facts, "boundary_authorized"))
    BY <1>3 DEF Recorded
  <2>3. Recorded(facts, "press_observed") => Recorded(facts', "press_observed")
    BY <1>3 DEF Recorded
  <2>4. packet' = "in_flight" => ~ Recorded(facts', "not_sent_proven")
    BY <2>1, <1>3 DEF ProofsFit, Recorded
  <2> QED
    BY <2>1, <2>2, <2>3, <2>4 DEF ProofsFit
<1>4. ASSUME NEW w \in Writers, Commit(w) PROVE ProofsFit'
  <2> DEFINE new == [entry |-> Entry(w), at |-> CreatedAt(w)]
  <2>1. new.entry = Entry(w)
    OBVIOUS
  <2>2. facts' = facts \cup {new} \/ facts' = facts
    BY <1>4, CommittedFact
  <2> HIDE DEF new
  <2>3. packet' = RowAfter(w) /\ Admits(w)
    BY <1>4 DEF Commit
  <2>4. packet' = "in_flight" => packet = "in_flight" \/ facts = {}
    BY <2>3 DEF RowAfter, Admits
  <2>5. CASE facts' = facts
    BY <2>4, <2>5, <1>1
  <2>6. CASE facts' # facts /\ w \in {"refuse", "stop", "close", "look", "packet_look"}
    <3>1. packet' # "in_flight"
      BY <2>3, <2>6 DEF RowAfter
    <3>2. new.entry.fact.kind = "not_sent_proven"
      BY <2>1, <2>6, EntryTable
    <3>3. \/ ~ Recorded(facts, "boundary_authorized")
          \/ new.entry.fact.proof \in AuthorizationAdmissibleProofs
      BY <2>1, <2>6, <1>4, EntryTable, CommitFinds
    <3>4. Recorded(facts, "not_sent_proven") => Recorded(facts, "press_observed")
      BY <2>6, <1>4, CommitFinds
    <3> QED
      BY <2>2, <2>6, <3>1, <3>2, <3>3, <3>4, <1>2
  <2>7. CASE facts' # facts /\ w \notin {"refuse", "stop", "close", "look", "packet_look"}
    <3>1. new.entry.fact.kind # "not_sent_proven"
          /\ (new.entry.fact.kind = "boundary_authorized" => w = "authorize")
      BY <2>1, <2>7, EntryTable DEF Writers
    <3>2. w = "authorize" => ~ Recorded(facts, "not_sent_proven")
      BY <1>4, CommitFinds
    <3> QED
      BY <2>2, <2>4, <2>7, <3>1, <3>2, <1>3
  <2> QED
    BY <2>5, <2>6, <2>7
<1>5. CASE Repair
  <2> DEFINE new == [entry |-> Entry("repair"), at |-> dbClock + 1]
  <2>1. new.entry = Entry("repair")
    OBVIOUS
  <2>2. packet' = "released" /\ facts' = facts \cup {new} /\ NeverReachedEmployer(Events)
    BY <1>5 DEF Repair
  <2> HIDE DEF new
  <2>3. ~ Recorded(facts, "boundary_authorized") /\ ~ Recorded(facts, "not_sent_proven")
    BY <2>2, NeverReachedFinds
  <2>4. new.entry.fact.kind = "not_sent_proven"
    BY <2>1, EntryTable
  <2> QED
    BY <2>2, <2>3, <2>4, <1>2
<1>6. ASSUME NEW w \in Writers, BeginTransaction(w) \/ Abandon(w) PROVE ProofsFit'
  BY <1>6, <1>1 DEF BeginTransaction, Abandon
<1>7. CASE RunPresses \/ RunEnds \/ CallReturns \/ SenderDies \/ Park \/ LosesClaim
           \/ LedgerTick \/ UNCHANGED ledgerVars
  BY <1>7, <1>1 DEF RunPresses, RunEnds, CallReturns, SenderDies, Park, LosesClaim,
     LedgerTick, ledgerVars
<1> QED
  BY <1>4, <1>5, <1>6, <1>7 DEF LedgerNext

-----------------------------------------------------------------------------
(* The applicant's answer *)

LEMMA StepAnswerKept ==
  LedgerInv /\ LedgerTypeOK' /\ TimesApart' /\ [LedgerNext]_ledgerVars => AnswerKept'
<1> SUFFICES ASSUME LedgerInv, LedgerTypeOK', TimesApart', [LedgerNext]_ledgerVars
             PROVE  AnswerKept'
  OBVIOUS
<1> USE DEF LedgerInv
<1>1. ASSUME UNCHANGED <<facts, answered, latePress>>, answered => packet' = "answered"
      PROVE  AnswerKept'
  BY <1>1 DEF AnswerKept, AnswerSticks, Now
<1>2. ASSUME NEW w \in Writers, Commit(w) PROVE AnswerKept'
  <2>1. /\ Admits(w) /\ Holds(w, Appended(w)) /\ facts' = Appended(w) /\ packet' = RowAfter(w)
        /\ answered' = (answered \/ w = "look")
        /\ latePress' = (latePress \/ (answered /\ Entry(w).fact = Pressed))
        /\ began[w] # 0
    BY <1>2 DEF Commit
  <2>2. CASE w = "look"
    <3>1. packet' = "answered"
      BY <2>1, <2>2 DEF RowAfter
    <3>2. Fold(facts') = "safe_not_sent"
      BY <2>1, <2>2 DEF Holds
    <3> QED
      BY <3>1, <3>2 DEF AnswerKept, AnswerSticks, Now
  <2>3. CASE w # "look" /\ ~ answered
    BY <2>1, <2>3 DEF AnswerKept, AnswerSticks
  <2>4. CASE w # "look" /\ answered
    <3>1. packet = "answered" /\ sender # "ready"
      BY <2>4 DEF AnswerKept, OpenedFirst
    <3>2. w \in {"authorize", "progress", "echo", "confirm"}
      <4>1. w # "open"
        BY <2>1, <3>1 DEF OpenedFirst
      <4>2. w \notin {"refuse", "stop", "close", "packet_look"}
        BY <2>1, <3>1 DEF Admits, MayStop, Claimed
      <4> QED
        BY <4>1, <4>2, <2>4 DEF Writers
    <3>3. packet' = "answered"
      BY <2>1, <3>1, <3>2 DEF RowAfter
    <3>4. ASSUME ~ latePress' PROVE Now' \in {"safe_not_sent", "blocked_confirmed"}
      <4>1. ~ latePress /\ Entry(w).fact # Pressed
        BY <3>4, <2>1, <2>4
      <4>2. w \notin {"progress", "echo"}
        BY <4>1, EntryTable
      <4>3. w # "authorize"
        BY <2>1, <2>4, <4>1 DEF Admits, AnswerKept, AnswerSticks
      <4>4. w = "confirm"
        BY <3>2, <4>2, <4>3
      <4>5. \E s \in facts' : s.entry = Entry("confirm")
        <5> DEFINE new == [entry |-> Entry(w), at |-> CreatedAt(w)]
        <5>1. new.entry = Entry("confirm")
          BY <4>4
        <5>2. facts' = facts \cup {new} \/ \E s \in facts' : s.entry = Entry("confirm")
          BY <1>2, <4>4, CommittedFact
        <5> HIDE DEF new
        <5> QED
          BY <5>1, <5>2
      <4>6. Recorded(facts', "submission_confirmed")
        BY <4>5, EntryTable DEF Recorded
      <4>7. Timed(facts')
        BY DEF Timed, LedgerTypeOK, TimesApart
      <4>8. Fold(facts') = "blocked_confirmed"
        BY <4>6, <4>7, FoldMeans
      <4> QED
        BY <4>8 DEF Now
    <3> QED
      BY <3>3, <3>4 DEF AnswerKept, AnswerSticks
  <2> QED
    BY <2>2, <2>3, <2>4
<1>3. CASE Repair
  <2>1. packet = "parked" /\ answered' = answered
    BY <1>3 DEF Repair
  <2> QED
    BY <2>1 DEF AnswerKept, AnswerSticks
<1>4. ASSUME NEW w \in Writers, BeginTransaction(w) \/ Abandon(w) PROVE AnswerKept'
  BY <1>4, <1>1 DEF BeginTransaction, Abandon, AnswerKept
<1>5. CASE RunPresses \/ RunEnds \/ CallReturns \/ SenderDies \/ LedgerTick
           \/ UNCHANGED ledgerVars
  BY <1>5, <1>1 DEF RunPresses, RunEnds, CallReturns, SenderDies, LedgerTick, ledgerVars,
     AnswerKept
<1>6. CASE Park \/ LosesClaim
  BY <1>6, <1>1 DEF Park, LosesClaim, AnswerKept
<1> QED
  BY <1>2, <1>3, <1>4, <1>5, <1>6 DEF LedgerNext

-----------------------------------------------------------------------------
(* The theorems *)

\* The inductive invariant holds, for any lifetime of an authorization, any age a row is
\* closed at, and any number of deaths.
THEOREM LedgerInvHolds == LedgerSpec => []LedgerInv
<1>1. LedgerInit => LedgerInv
  BY InitLedger
<1>2. LedgerInv /\ [LedgerNext]_ledgerVars => LedgerInv'
  <2> SUFFICES ASSUME LedgerInv, [LedgerNext]_ledgerVars PROVE LedgerInv'
    OBVIOUS
  <2>1. LedgerTypeOK'
    BY StepTypes DEF LedgerInv
  <2>2. TimesApart'
    BY StepTimes DEF LedgerInv
  <2>3. OpenedFirst'
    BY StepOpenedFirst DEF LedgerInv
  <2>4. AuthorizedOnceAndBefore'
    BY StepAuthorized DEF LedgerInv
  <2>5. ProofsFit'
    BY StepProofsFit DEF LedgerInv
  <2>6. AnswerKept'
    BY <2>1, <2>2, StepAnswerKept
  <2> QED
    BY <2>1, <2>2, <2>3, <2>4, <2>5, <2>6 DEF LedgerInv
<1> QED
  BY <1>1, <1>2, PTL DEF LedgerSpec

\* A "not there" committed on a row that held the claim stays an answer, unless a press is
\* committed after it, however the transactions began and waited: POST
\* /applications/:id/submission/unverified folds again what it wrote before it commits.
THEOREM AnswersStick == LedgerSpec => []AnswerSticks
<1>1. LedgerInv => AnswerSticks
  BY DEF LedgerInv, AnswerKept
<1> QED
  BY <1>1, LedgerInvHolds, PTL

\* Whatever the guards under the lock let through, the fold reads it, unless a press and a
\* not-sent proof were both recorded: no order of begins, waits, commits and deaths makes
\* an attempt unreadable otherwise.
THEOREM OnlyPressesMakeUnreadable == LedgerSpec => []UnreadableOnlyWhenPressed
<1>1. LedgerInv => UnreadableOnlyWhenPressed
  <2> SUFFICES ASSUME LedgerInv, Now = "invalid_sequence"
               PROVE  Has(Events, "press_observed") /\ Has(Events, "not_sent_proven")
    BY DEF UnreadableOnlyWhenPressed
  <2>1. Recorded(facts, "press_observed") /\ Recorded(facts, "not_sent_proven")
    BY InvalidMeansBoth DEF LedgerInv
  <2> QED
    BY <2>1, InvMeansTimed, KindsRead DEF LedgerInv, Events
<1> QED
  BY <1>1, LedgerInvHolds, PTL
===============================================================================
