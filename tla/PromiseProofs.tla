----------------------------- MODULE PromiseProofs -----------------------------
(***************************************************************************)
(* The runner, the routes and the ledger keep the promise of               *)
(* OneApplication for every posting (KeepsPromise), and a receipt once     *)
(* shown stays on its row but for the applicant's calls                    *)
(* (ConfirmedStaysShown): under the assumption of FilingProofs and for the *)
(* same instances, any number of packets, attempts, processes and calls.   *)
(***************************************************************************)
EXTENDS FilingProofs

-----------------------------------------------------------------------------
(* A receipt, on a row or in a review somebody has read, is of an          *)
(* application the employer holds.                                         *)

WorkerReceipt(w) ==
  /\ worker[w].snap.receipt => EmployerHolds(worker[w].packet)
  /\ worker[w].pc = "confirming" => filed[worker[w].snap.claim]

ReceiptInv ==
  /\ \A p \in Packets : row[p].receipt => EmployerHolds(p)
  /\ \A w \in Workers : WorkerReceipt(w)
  /\ \A r \in Requests : request[r].current.receipt => EmployerHolds(request[r].packet)
  /\ \A a \in Attempts : filed[a] => provider[a].pressed

\* What is filed stays filed, by an attempt that stays bound to its packet.
FilingsStay ==
  \A a \in Attempts :
    filed[a] => filed'[a] /\ attempt'[a].packet = attempt[a].packet

LEMMA HeldStays ==
  ASSUME TypeOK, BindingInv, FilingsStay, NEW p, EmployerHolds(p)
  PROVE  EmployerHolds(p)'
BY DEF EmployerHolds, FilingsStay

-----------------------------------------------------------------------------
(* Steps that let no attempt out, and end none *)

CandidatesStay ==
  \A a \in Attempts :
    /\ FiledOrMayFile(a)' <=> FiledOrMayFile(a)
    /\ FiledOrMayFile(a) => attempt'[a].packet = attempt[a].packet
    /\ filed'[a] <=> filed[a]

LEMMA RecordingStays ==
  ASSUME TypeOK, UNCHANGED <<now, attempt, provider, filed>>,
         \A a \in Attempts :
           \/ ledger'[a] = ledger[a]
           \/ \E fact \in Fact : /\ ledger'[a] = Append(ledger[a], fact)
                                 /\ fact.kind # "boundary_authorized"
  PROVE  CandidatesStay
<1> SUFFICES ASSUME NEW a \in Attempts
             PROVE  Has(ledger'[a], "boundary_authorized")
                      <=> Has(ledger[a], "boundary_authorized")
  BY DEF CandidatesStay, FiledOrMayFile, MayFile, LeaseActive
<1>1. ledger[a] \in Seq(Fact)
  BY DEF TypeOK
<1>2. CASE ledger'[a] = ledger[a]
  BY <1>2
<1>3. ASSUME NEW fact \in Fact, ledger'[a] = Append(ledger[a], fact),
             fact.kind # "boundary_authorized"
      PROVE  Has(ledger'[a], "boundary_authorized")
               <=> Has(ledger[a], "boundary_authorized")
  BY <1>1, <1>3, HasAppended
<1> QED
  BY <1>2, <1>3

LEMMA AppendStays ==
  ASSUME TypeOK, UNCHANGED <<now, attempt, provider, filed>>,
         NEW a \in Attempts, NEW fact \in Fact,
         AppendFact(a, fact) \/ UNCHANGED ledger,
         fact.kind # "boundary_authorized"
  PROVE  CandidatesStay
<1>1. \A b \in Attempts :
        ledger'[b] = ledger[b] \/ ledger'[b] = Append(ledger[b], fact)
  BY DEF TypeOK, AppendFact
<1> QED
  BY <1>1, RecordingStays

Candidates == [q \in PostingsAppliedTo |-> CandidatesFor(q)]

LEMMA StayingFilings ==
  ASSUME CandidatesStay
  PROVE  FilingsStay /\ UNCHANGED <<Candidates, ReceivedPostings>>
<1>1. FilingsStay
  BY DEF CandidatesStay, FilingsStay, FiledOrMayFile
<1>2. \A q : CandidatesFor(q)' = CandidatesFor(q)
  BY DEF CandidatesStay, CandidatesFor
<1>3. UNCHANGED Candidates
  BY <1>2 DEF Candidates, PostingsAppliedTo
<1>4. UNCHANGED ReceivedPostings
  BY DEF CandidatesStay, ReceivedPostings, FiledOrMayFile, PostingsAppliedTo
<1> QED
  BY <1>1, <1>3, <1>4

-----------------------------------------------------------------------------
(* Steps of the promise *)

\* The receipt of a step's review, if it has one, is of a held application.
RowReceipts ==
  \/ UNCHANGED row
  \/ \E p \in Packets : \E review :
       /\ row' = [row EXCEPT ![p] = review]
       /\ review.receipt => EmployerHolds(p)

PromiseStep == [Promise!PromiseNext]_(Promise!promised)

\* A step that leaves the candidates alone tells, forgets, or changes nothing.
LEMMA QuietPromise ==
  ASSUME TypeOK, CandidatesStay, RowReceipts
  PROVE  PromiseStep
<1>1. UNCHANGED <<Candidates, ReceivedPostings>>
  BY StayingFilings
<1>2. CASE UNCHANGED ShownPostings
  BY <1>1, <1>2 DEF PromiseStep, Promise!promised, Candidates
<1>3. ASSUME NEW p \in Packets, NEW review, row' = [row EXCEPT ![p] = review],
             review.receipt => EmployerHolds(p)
      PROVE  PromiseStep
  <2> DEFINE q == PostingOf[p]
  <2>1. q \in PostingsAppliedTo
    BY DEF PostingsAppliedTo
  <2>2. \A r \in PostingsAppliedTo \ {q} : r \in ShownPostings' <=> r \in ShownPostings
    BY <1>3 DEF ShownPostings, TypeOK, PostingsAppliedTo
  <2>3. ShownPostings \subseteq PostingsAppliedTo
        /\ ShownPostings' \subseteq PostingsAppliedTo
    BY DEF ShownPostings, PostingsAppliedTo
  <2>4. CASE q \in ShownPostings' /\ q \notin ShownPostings
    <3>1. review.receipt
      BY <1>3, <2>1, <2>4 DEF ShownPostings, TypeOK
    <3>2. q \in ReceivedPostings
      BY <1>3, <2>1, <3>1 DEF EmployerHolds, ReceivedPostings
    <3>3. ShownPostings' = ShownPostings \cup {q}
      BY <2>2, <2>3, <2>4
    <3>4. Promise!Tell(q)
      BY <1>1, <3>2, <3>3 DEF Promise!Tell, Candidates
    <3> QED
      BY <2>1, <3>4 DEF PromiseStep, Promise!PromiseNext
  <2>5. CASE q \notin ShownPostings'
    <3>1. ShownPostings' = ShownPostings \ {q}
      BY <2>2, <2>3, <2>5
    <3>2. Promise!Forget(q)
      BY <1>1, <3>1 DEF Promise!Forget, Candidates
    <3> QED
      BY <2>1, <3>2 DEF PromiseStep, Promise!PromiseNext
  <2>6. CASE q \in ShownPostings' /\ q \in ShownPostings
    BY <1>2, <2>2, <2>3, <2>6
  <2> QED
    BY <2>4, <2>5, <2>6
<1>4. CASE UNCHANGED row
  BY <1>2, <1>4 DEF ShownPostings, PostingsAppliedTo
<1> QED
  BY <1>3, <1>4 DEF RowReceipts

\* An authorization lets its attempt out: the duplicate gate found no other.
LEMMA AuthorizePromise ==
  ASSUME TypeOK, FilingInv, NEW w \in Workers, Authorize(w)
  PROVE  PromiseStep /\ FilingsStay
<1>0. TypeOK /\ BindingInv /\ FilersBlock
  BY DEF FilingInv
<1>a. PICK a \in Attempts : a = ClaimOf(w)
  BY <1>0, WorkersAttempts DEF Authorize, At, BoundSteps
<1>p. PICK p \in Packets : p = worker[w].packet
  BY DEF TypeOK, Process
<1>q. PICK q : q = PostingOf[p]
  OBVIOUS
<1>1. /\ attempt[a].packet = p /\ p # None
      /\ BoundaryClear(p, a, worker[w].snap)
  BY <1>0, <1>a, <1>p, WorkersAttempts DEF Authorize, At, BoundSteps
<1>2. /\ ledger' = [ledger EXCEPT ![a] = Append(ledger[a], Authorized)]
      /\ attempt' = [attempt EXCEPT ![a].lease = now + LeaseTTL]
      /\ UNCHANGED <<now, provider, filed, row>>
  BY <1>a DEF Authorize, AppendFact
<1>3. \A b \in Attempts : attempt'[b].packet = attempt[b].packet
  BY <1>2 DEF TypeOK, Binding
<1>4. \A b \in Attempts \ {a} : FiledOrMayFile(b)' <=> FiledOrMayFile(b)
  BY <1>2 DEF FiledOrMayFile, MayFile, LeaseActive, TypeOK
<1>5. ~ FiledOrMayFile(a)
  <2>1. RetrySafety(ledger[a]) = "opened"
    BY <1>1 DEF BoundaryClear
  <2>2. ~ Has(ledger[a], "boundary_authorized")
    BY <2>1 DEF RetrySafety
  <2> QED
    BY <1>0, <1>1, <2>2, FilersAreBound
<1>6. CandidatesFor(q) = {}
  <2>1. ASSUME NEW b \in Attempts \ {a}, FiledOrMayFile(b),
               PostingOf[attempt[b].packet] = q
        PROVE  FALSE
    <3>1. Blocking(ledger[b]) /\ attempt[b].packet # None
      BY <1>0, <2>1, FilersAreBound DEF FilersBlock
    <3> QED
      BY <1>1, <1>q, <2>1, <3>1 DEF BoundaryClear, Clear
  <2> QED
    BY <1>5, <2>1 DEF CandidatesFor
<1>7. \A r : r # q => CandidatesFor(r)' = CandidatesFor(r)
  BY <1>1, <1>q, <1>3, <1>4 DEF CandidatesFor
<1>8. q \in PostingsAppliedTo
  BY <1>q DEF PostingsAppliedTo
<1>9. UNCHANGED <<ReceivedPostings, ShownPostings>>
  BY <1>2, <1>3 DEF ReceivedPostings, ShownPostings, PostingsAppliedTo
<1>10. CASE FiledOrMayFile(a)'
  <2>1. CandidatesFor(q)' = {a}
    BY <1>1, <1>q, <1>3, <1>4, <1>6, <1>10 DEF CandidatesFor
  <2>2. Candidates' = [Candidates EXCEPT ![q] = {a}]
    BY <1>7, <1>8, <2>1 DEF Candidates, PostingsAppliedTo
  <2>3. Candidates[q] = {}
    BY <1>6, <1>8 DEF Candidates
  <2>4. Promise!LetOut(q, a)
    BY <1>9, <2>2, <2>3 DEF Promise!LetOut, Candidates
  <2> QED
    BY <1>1, <1>2, <1>3, <1>8, <2>4
       DEF PromiseStep, Promise!PromiseNext, FilingsStay
<1>11. CASE ~ FiledOrMayFile(a)'
  <2>1. \A r : CandidatesFor(r)' = CandidatesFor(r)
    BY <1>3, <1>4, <1>5, <1>11 DEF CandidatesFor
  <2>2. UNCHANGED Candidates
    BY <2>1 DEF Candidates, PostingsAppliedTo
  <2> QED
    BY <1>2, <1>3, <1>9, <2>2 DEF PromiseStep, Promise!promised, Candidates, FilingsStay
<1> QED
  BY <1>10, <1>11

\* The one candidate of a posting is filed, or pressed in vain.
LEMMA PressPromise ==
  ASSUME TypeOK, FilingInv, ReceiptInv, NEW a \in Attempts, NEW accepted \in BOOLEAN,
         ProviderPress(a, accepted)
  PROVE  PromiseStep /\ FilingsStay
<1>q. PICK q : q = PostingOf[attempt[a].packet]
  OBVIOUS
<1>0. TypeOK /\ BindingInv /\ OneFiler
  BY DEF FilingInv
<1>1. /\ MayFile(a) /\ ~ filed[a] /\ ~ provider[a].pressed
      /\ attempt[a].packet # None
  <2>1. ~ provider[a].pressed
    BY DEF ProviderPress
  <2>2. MayFile(a)
    BY <1>0, <2>1
       DEF ProviderPress, BeforeDeadline, MayFile, LeaseActive, BindingInv, AttemptBound
  <2> QED
    BY <1>0, <2>1, <2>2, FilersAreBound DEF ReceiptInv, FiledOrMayFile
<1>2. attempt[a].packet \in Packets
  BY <1>1 DEF TypeOK, Binding
<1>3. /\ UNCHANGED <<now, ledger, attempt, row>>
      /\ filed' = [filed EXCEPT ![a] = accepted]
      /\ provider'[a].pressed
      /\ \A b \in Attempts \ {a} : provider'[b] = provider[b]
  BY DEF ProviderPress, TypeOK, ProviderRun
<1>4. \A b \in Attempts \ {a} : /\ FiledOrMayFile(b)' <=> FiledOrMayFile(b)
                                 /\ filed'[b] = filed[b]
  BY <1>3 DEF FiledOrMayFile, MayFile, LeaseActive, TypeOK
<1>5. FiledOrMayFile(a) /\ (FiledOrMayFile(a)' <=> accepted) /\ filed'[a] = accepted
  BY <1>1, <1>3 DEF FiledOrMayFile, MayFile, TypeOK
<1>6. \A b \in Attempts \ {a} :
        FiledOrMayFile(b) => PostingOf[attempt[b].packet] # q
  BY <1>q, <1>0, <1>5 DEF OneFiler
<1>7. q \in PostingsAppliedTo
  BY <1>q, <1>2 DEF PostingsAppliedTo
<1>8. UNCHANGED ShownPostings /\ FilingsStay
  BY <1>1, <1>3, <1>4 DEF ShownPostings, PostingsAppliedTo, FilingsStay
<1>9. q \notin ReceivedPostings
  BY <1>q, <1>1, <1>6 DEF ReceivedPostings, FiledOrMayFile
<1>10. \A r : r # q => CandidatesFor(r)' = CandidatesFor(r)
  BY <1>q, <1>3, <1>4 DEF CandidatesFor
<1>11. CandidatesFor(q) = {a}
  BY <1>q, <1>5, <1>6 DEF CandidatesFor
<1>12. CASE accepted
  <2>1. CandidatesFor(q)' = {a}
    BY <1>q, <1>3, <1>4, <1>5, <1>6, <1>12 DEF CandidatesFor
  <2>2. UNCHANGED Candidates
    BY <1>10, <1>11, <2>1 DEF Candidates, PostingsAppliedTo
  <2>3. ReceivedPostings' = ReceivedPostings \cup {q}
    <3>1. \A b \in Attempts : filed'[b] <=> filed[b] \/ b = a
      BY <1>3, <1>12 DEF TypeOK
    <3>2. \A r \in PostingsAppliedTo :
            r \in ReceivedPostings' <=> r \in ReceivedPostings \/ r = q
      BY <1>q, <1>3, <3>1 DEF ReceivedPostings, PostingsAppliedTo
    <3> QED
      BY <1>7, <3>2 DEF ReceivedPostings, PostingsAppliedTo
  <2>4. Candidates[q] # {}
    BY <1>7, <1>11 DEF Candidates
  <2>5. Promise!Receive(q)
    BY <1>8, <1>9, <2>2, <2>3, <2>4 DEF Promise!Receive, Candidates
  <2> QED
    BY <1>7, <1>8, <2>5 DEF PromiseStep, Promise!PromiseNext
<1>13. CASE ~ accepted
  <2>1. CandidatesFor(q)' = {}
    BY <1>q, <1>3, <1>4, <1>5, <1>6, <1>13 DEF CandidatesFor
  <2>2. Candidates' = [r \in PostingsAppliedTo |->
                         IF r \in {q} THEN {} ELSE Candidates[r]]
    BY <1>10, <2>1 DEF Candidates, PostingsAppliedTo
  <2>3. UNCHANGED ReceivedPostings
    BY <1>1, <1>3, <1>4, <1>5, <1>13 DEF ReceivedPostings, PostingsAppliedTo
  <2>4. Promise!GiveUp({q})
    BY <1>8, <1>9, <2>2, <2>3 DEF Promise!GiveUp, Candidates
  <2>5. {q} \in SUBSET PostingsAppliedTo
    BY <1>7
  <2> QED
    BY <1>8, <2>4, <2>5 DEF PromiseStep, Promise!PromiseNext
<1> QED
  BY <1>12, <1>13

\* A lease expires or a run ends: candidates that are not filed are over.
LEMMA FadingPromise ==
  ASSUME TypeOK, FilingInv, UNCHANGED <<attempt, filed, row>>,
         \A b \in Attempts : FiledOrMayFile(b)' => FiledOrMayFile(b)
  PROVE  PromiseStep /\ FilingsStay
<1> DEFINE over == {q \in PostingsAppliedTo : CandidatesFor(q)' # CandidatesFor(q)}
<1>0. TypeOK /\ BindingInv /\ OneFiler
  BY DEF FilingInv
<1>1. UNCHANGED <<attempt, filed, row>>
  OBVIOUS
<1>2. \A b \in Attempts : FiledOrMayFile(b)' => FiledOrMayFile(b)
  OBVIOUS
<1>3. ASSUME NEW q \in PostingsAppliedTo, CandidatesFor(q)' # CandidatesFor(q)
      PROVE  CandidatesFor(q)' = {} /\ q \notin ReceivedPostings
  <2>1. PICK a \in Attempts : a \in CandidatesFor(q) /\ a \notin CandidatesFor(q)'
    BY <1>1, <1>2, <1>3 DEF CandidatesFor
  <2>2. FiledOrMayFile(a) /\ ~ FiledOrMayFile(a)' /\ PostingOf[attempt[a].packet] = q
    BY <1>1, <2>1 DEF CandidatesFor
  <2>3. ~ filed[a]
    BY <1>1, <2>2 DEF FiledOrMayFile
  <2>4. \A b \in Attempts \ {a} :
          FiledOrMayFile(b) => PostingOf[attempt[b].packet] # q
    BY <1>0, <2>2 DEF OneFiler
  <2> QED
    BY <1>1, <1>2, <2>2, <2>3, <2>4 DEF CandidatesFor, ReceivedPostings, FiledOrMayFile
<1>4. Candidates' = [q \in PostingsAppliedTo |->
                       IF q \in over THEN {} ELSE Candidates[q]]
  BY <1>3 DEF Candidates, PostingsAppliedTo
<1>5. UNCHANGED <<ReceivedPostings, ShownPostings>> /\ FilingsStay
  BY <1>1 DEF ReceivedPostings, ShownPostings, PostingsAppliedTo, FilingsStay
<1>6. over \in SUBSET PostingsAppliedTo /\ over \cap ReceivedPostings = {}
  BY <1>3
<1>7. Promise!GiveUp(over)
  BY <1>4, <1>5, <1>6 DEF Promise!GiveUp, Candidates
<1> QED
  BY <1>5, <1>6, <1>7 DEF PromiseStep, Promise!PromiseNext

\* Time passes, and what may be filed only lapses.
LEMMA TickPromise ==
  ASSUME TypeOK, FilingInv, Tick
  PROVE  PromiseStep /\ FilingsStay
<1>1. UNCHANGED <<ledger, attempt, provider, filed, row>> /\ now' = now + 1
  BY DEF Tick
<1>2. \A b \in Attempts : FiledOrMayFile(b)' => FiledOrMayFile(b)
  <2> SUFFICES ASSUME NEW b \in Attempts, LeaseActive(b)' PROVE LeaseActive(b)
    BY <1>1 DEF FiledOrMayFile, MayFile
  <2>1. now \in Nat /\ attempt[b].lease \in Nat
    BY BoundsAssumption DEF TypeOK, Binding
  <2> QED
    BY <1>1, <2>1 DEF LeaseActive
<1> QED
  BY <1>1, <1>2, FadingPromise

-----------------------------------------------------------------------------
(* ReceiptInv is inductive *)

\* The receipt a review carries after the code's writes.
LEMMA ReceiptsOfReviews ==
  ASSUME NEW review \in Review
  PROVE  /\ review.receipt \in BOOLEAN
         /\ \A s : /\ [review EXCEPT !.status = s].receipt = review.receipt
                   /\ [review EXCEPT !.status = s, !.claim = None].receipt
                        = review.receipt
                   /\ PreClickRelease(review, s).receipt = FALSE
         /\ MarkUnverified(review).receipt = review.receipt
         /\ \A u : ReleaseTo(review, u).receipt = review.receipt
         /\ \A a : [review EXCEPT !.claim = a].receipt = review.receipt
         /\ \A cause, neverReached :
              FailureReview(review, cause, neverReached).receipt
                \in {FALSE, review.receipt}
BY DEF Review, PreClickRelease, MarkUnverified, ReleaseTo, FailureReview

\* A process ends, throws, or goes on with a review whose receipt is of a held
\* application, to record a receipt only of what is filed.
Proceeds(w) ==
  \/ Finish(w)
  \/ \E c \in Causes : Throw(w, c)
  \/ \E s \in Steps :
       /\ Goto(w, s)
       /\ s = "confirming" => ClaimOf(w) \in Attempts /\ filed[ClaimOf(w)]
  \/ \E s \in Steps \ {"confirming"} : \E review :
       /\ GotoWith(w, s, review)
       /\ review.receipt => EmployerHolds(worker[w].packet)

LEMMA ProceedingReceipts ==
  ASSUME TypeOK, BindingInv, ReceiptInv, FilingsStay, NEW w \in Workers, Proceeds(w)
  PROVE  \A v \in Workers : WorkerReceipt(v)'
<1>1. ASSUME NEW v \in Workers, worker'[v] = worker[v] PROVE WorkerReceipt(v)'
  <2>1. PICK p \in Packets : p = worker[v].packet
    BY DEF TypeOK, Process
  <2>2. WorkerReceipt(v) /\ (EmployerHolds(p) => EmployerHolds(p)')
    BY HeldStays DEF ReceiptInv
  <2>3. worker[v].pc = "confirming" => worker[v].snap.claim \in Attempts
    BY WorkersAttempts DEF BoundSteps, ClaimOf
  <2>4. worker'[v].snap.receipt => EmployerHolds(p)'
    BY <1>1, <2>1, <2>2 DEF WorkerReceipt
  <2>5. worker'[v].pc = "confirming" => filed'[worker'[v].snap.claim]
    BY <1>1, <2>2, <2>3 DEF WorkerReceipt, FilingsStay
  <2>6. worker'[v].packet = p
    BY <1>1, <2>1
  <2> QED
    BY <2>4, <2>5, <2>6 DEF WorkerReceipt, EmployerHolds
<1>2. \A v \in Workers \ {w} : worker'[v] = worker[v]
  BY DEF TypeOK, Proceeds, Finish, Throw, Goto, GotoWith
<1>3. PICK p \in Packets : p = worker[w].packet
  BY DEF TypeOK, Process
<1>4. /\ worker[w] \in Process
      /\ EmployerHolds(p) => EmployerHolds(p)'
      /\ worker[w].snap.receipt => EmployerHolds(p)
  BY <1>3, HeldStays DEF TypeOK, ReceiptInv, WorkerReceipt
<1>5. ASSUME Finish(w) PROVE WorkerReceipt(w)'
  <2>1. worker'[w] = IdleProcess
    BY <1>5 DEF Finish, TypeOK
  <2>2. ~ worker'[w].snap.receipt /\ worker'[w].pc # "confirming"
    BY <2>1 DEF IdleProcess, FreshReview
  <2> QED
    BY <2>2 DEF WorkerReceipt
<1>6. ASSUME worker'[w].packet = p, worker'[w].snap.receipt => EmployerHolds(p),
             worker'[w].pc = "confirming" => filed'[worker'[w].snap.claim]
      PROVE  WorkerReceipt(w)'
  BY <1>4, <1>6 DEF WorkerReceipt, EmployerHolds
<1>7. ASSUME NEW c \in Causes, Throw(w, c) PROVE WorkerReceipt(w)'
  <2>1. /\ worker'[w].pc = "failing" /\ worker'[w].snap = worker[w].snap
        /\ worker'[w].packet = p
    BY <1>3, <1>4, <1>7 DEF Throw, TypeOK, Process
  <2> QED
    BY <1>4, <1>6, <2>1
<1>8. ASSUME NEW s \in Steps, Goto(w, s),
             s = "confirming" => ClaimOf(w) \in Attempts /\ filed[ClaimOf(w)]
      PROVE  WorkerReceipt(w)'
  <2>1. /\ worker'[w].pc = s /\ worker'[w].snap = worker[w].snap
        /\ worker'[w].packet = p
    BY <1>3, <1>4, <1>8 DEF Goto, TypeOK, Process
  <2>2. worker'[w].pc = "confirming" => filed'[worker'[w].snap.claim]
    BY <1>8, <2>1 DEF ClaimOf, FilingsStay
  <2> QED
    BY <1>4, <1>6, <2>1, <2>2
<1>9. ASSUME NEW s \in Steps \ {"confirming"}, NEW review, GotoWith(w, s, review),
             review.receipt => EmployerHolds(worker[w].packet)
      PROVE  WorkerReceipt(w)'
  <2>1. /\ worker'[w].pc = s /\ worker'[w].snap = review /\ worker'[w].packet = p
    BY <1>3, <1>4, <1>9 DEF GotoWith, TypeOK, Process
  <2> QED
    BY <1>3, <1>6, <1>9, <2>1
<1>10. WorkerReceipt(w)'
  BY <1>5, <1>7, <1>8, <1>9 DEF Proceeds
<1> QED
  BY <1>1, <1>2, <1>10

LEMMA RowsKeepReceipts ==
  ASSUME TypeOK, BindingInv, ReceiptInv, FilingsStay, RowReceipts
  PROVE  \A p \in Packets : row'[p].receipt => EmployerHolds(p)'
<1> SUFFICES ASSUME NEW p \in Packets, row'[p].receipt PROVE EmployerHolds(p)
  BY HeldStays
<1>1. CASE row'[p] = row[p]
  BY <1>1 DEF ReceiptInv
<1>2. ASSUME NEW q \in Packets, NEW review, row' = [row EXCEPT ![q] = review],
             review.receipt => EmployerHolds(q), row'[p] # row[p]
      PROVE  EmployerHolds(p)
  BY <1>2 DEF TypeOK
<1> QED
  BY <1>1, <1>2 DEF RowReceipts

LEMMA RequestsKeepReceipts ==
  ASSUME TypeOK, BindingInv, ReceiptInv, FilingsStay,
         \A r \in Requests :
           \/ request'[r] = request[r]
           \/ request'[r].current.receipt => EmployerHolds(request'[r].packet),
         \A r \in Requests : request'[r].packet \in Packets
  PROVE  \A r \in Requests :
           request'[r].current.receipt => EmployerHolds(request[r].packet)'
<1> SUFFICES ASSUME NEW r \in Requests, request'[r].current.receipt
             PROVE  EmployerHolds(request[r].packet)'
  OBVIOUS
<1>1. PICK p \in Packets : p = request'[r].packet
  OBVIOUS
<1>2. EmployerHolds(p)
  BY <1>1 DEF ReceiptInv
<1>3. EmployerHolds(p)'
  BY <1>2, HeldStays
<1> QED
  BY <1>1, <1>3 DEF EmployerHolds

\* A process's step that neither lets an attempt out nor files one.
LEMMA WorkerKeeps ==
  ASSUME TypeOK, BindingInv, ReceiptInv, NEW w \in Workers, Proceeds(w),
         CandidatesStay, RowReceipts, UNCHANGED request,
         \A a \in Attempts : provider[a].pressed => provider'[a].pressed
  PROVE  ReceiptInv' /\ PromiseStep
<1>1. FilingsStay /\ PromiseStep
  BY StayingFilings, QuietPromise
<1>2. \A r \in Requests : request'[r].packet \in Packets
  BY DEF TypeOK, Call
<1>3. /\ \A p \in Packets : row'[p].receipt => EmployerHolds(p)'
      /\ \A r \in Requests :
           request'[r].current.receipt => EmployerHolds(request[r].packet)'
  BY <1>1, <1>2, RowsKeepReceipts, RequestsKeepReceipts
<1>4. \A v \in Workers : WorkerReceipt(v)'
  BY <1>1, ProceedingReceipts
<1>5. \A a \in Attempts : filed'[a] => provider'[a].pressed
  BY DEF CandidatesStay, ReceiptInv
<1> QED
  BY <1>1, <1>3, <1>4, <1>5 DEF ReceiptInv

LEMMA WorkerPromise ==
  ASSUME Trusted, TypeOK, FilingInv, ReceiptInv, NEW w \in Workers, WorkerStep(w)
  PROVE  ReceiptInv' /\ PromiseStep
<1> DEFINE a == ClaimOf(w)
           p == worker[w].packet
           snap == worker[w].snap
           stop == NotSent("typed_pre_click_stop")
           refused == NotSent("employer_rejected_not_filed")
           Goal == ReceiptInv' /\ PromiseStep
<1>0. TypeOK /\ BindingInv
  BY DEF FilingInv
<1>a. /\ stop \in Fact /\ stop.kind # "boundary_authorized"
      /\ refused \in Fact /\ refused.kind # "boundary_authorized"
      /\ Confirmed \in Fact /\ Confirmed.kind # "boundary_authorized"
      /\ Pressed \in Fact /\ Pressed.kind # "boundary_authorized"
      /\ Opened \in Fact /\ Opened.kind # "boundary_authorized"
  BY FactTypes DEF NotSent, Confirmed, Pressed, Opened
<1>b. /\ p \in Packets /\ snap \in Review /\ row[p] \in Review
      /\ a \in Attempts \cup {None} /\ a = snap.claim
  BY <1>0 DEF TypeOK, Process, Review, ClaimOf
<1>c. (snap.receipt => EmployerHolds(p)) /\ (row[p].receipt => EmployerHolds(p))
  BY <1>b DEF ReceiptInv, WorkerReceipt
<1> HIDE DEF stop, refused
<1>1. ASSUME UNCHANGED <<now, ledger, attempt, provider, filed, request>>,
             Proceeds(w), RowReceipts
      PROVE  Goal
  <2>1. CandidatesStay
    BY <1>0, <1>1, RecordingStays
  <2> QED
    BY <1>0, <1>1, <2>1, WorkerKeeps
<1>2. ASSUME NEW b \in Attempts, NEW fact \in Fact, fact.kind # "boundary_authorized",
             AppendFact(b, fact) \/ UNCHANGED ledger,
             UNCHANGED <<now, attempt, provider, filed, request>>,
             Proceeds(w), RowReceipts
      PROVE  Goal
  <2>1. CandidatesStay
    BY <1>0, <1>2, AppendStays
  <2> QED
    BY <1>0, <1>2, <2>1, WorkerKeeps
<1>3. CASE ClaimPreparation(w)
  <2> DEFINE claimed == [snap EXCEPT !.status = "preparing", !.claim = None]
  <2>1. claimed.receipt => EmployerHolds(p)
    BY <1>b, <1>c, ReceiptsOfReviews
  <2>2. RowReceipts
    BY <1>3, <1>b, <2>1 DEF ClaimPreparation, RowReceipts
  <2>3. Proceeds(w)
    BY <1>3, <2>1 DEF ClaimPreparation, Proceeds, Steps
  <2> QED
    BY <1>1, <1>3, <2>2, <2>3 DEF ClaimPreparation
<1>4. CASE Reload(w)
  <2>1. Proceeds(w)
    BY <1>4, <1>c DEF Reload, Proceeds, Steps
  <2> QED
    BY <1>1, <1>4, <2>1 DEF Reload, RowReceipts
<1>5. ASSUME NEW s, PrepareParks(w, s) \/ HoldBeforeClaim(w, s) PROVE Goal
  <2>1. Proceeds(w)
    BY <1>5 DEF PrepareParks, HoldBeforeClaim, Proceeds, Steps
  <2>2. PICK review \in {[snap EXCEPT !.status = s],
                         [snap EXCEPT !.status = s, !.claim = None]} :
          WriteReview(p, snap, review)
    BY <1>5 DEF PrepareParks, HoldBeforeClaim
  <2>3. review.receipt => EmployerHolds(p)
    <3>1. /\ [snap EXCEPT !.status = s].receipt = snap.receipt
          /\ [snap EXCEPT !.status = s, !.claim = None].receipt = snap.receipt
      BY <1>b, ReceiptsOfReviews
    <3> QED
      BY <1>c, <2>2, <3>1
  <2>4. RowReceipts
    BY <1>b, <2>2, <2>3 DEF WriteReview, RowReceipts
  <2> QED
    BY <1>1, <1>5, <2>1, <2>4 DEF PrepareParks, HoldBeforeClaim
<1>6. ASSUME NEW s, StopBeforeBoundary(w, s) PROVE Goal
  <2>1. a \in Attempts
    BY <1>0, <1>6, WorkersAttempts DEF StopBeforeBoundary, At, BoundSteps
  <2>2. AppendFact(a, stop) \/ UNCHANGED ledger
    BY <1>6 DEF StopBeforeBoundary, stop
  <2>3. Proceeds(w) /\ UNCHANGED <<now, attempt, provider, filed, request>>
    BY <1>6 DEF StopBeforeBoundary, Proceeds
  <2>4. [snap EXCEPT !.status = s, !.claim = None].receipt => EmployerHolds(p)
    BY <1>b, <1>c, ReceiptsOfReviews
  <2>5. RowReceipts
    BY <1>6, <1>b, <2>4 DEF StopBeforeBoundary, RowReceipts
  <2> QED
    BY <1>2, <1>a, <2>1, <2>2, <2>3, <2>5
<1>7. CASE \/ ThrowAfterBoundary(w) \/ ClaimLost(w) \/ AuthorizeRefused(w) \/ CallRefused(w)
           \/ RecoverPending(w) \/ NoSubmitControl(w)
  <2>1. Proceeds(w)
    BY <1>7 DEF ThrowAfterBoundary, ClaimLost, AuthorizeRefused,
                CallRefused, RecoverPending, NoSubmitControl, Proceeds, Steps, Causes
  <2>2. UNCHANGED <<now, row, ledger, attempt, provider, filed, request>>
    BY <1>7 DEF ThrowAfterBoundary, ClaimLost, AuthorizeRefused,
                CallRefused, RecoverPending, NoSubmitControl
  <2> QED
    BY <1>1, <2>1, <2>2 DEF RowReceipts
<1>8. ASSUME NEW b \in Attempts, ClaimSubmission(w, b) PROVE Goal
  <2> DEFINE claimed == [snap EXCEPT !.claim = b]
  <2>1. claimed.receipt => EmployerHolds(p)
    BY <1>b, <1>c, ReceiptsOfReviews
  <2>2. Proceeds(w)
    BY <1>8, <2>1 DEF ClaimSubmission, Proceeds, Steps
  <2>3. RowReceipts
    BY <1>8, <1>b, <2>1 DEF ClaimSubmission, RowReceipts
  <2>4. CandidatesStay
    <3>1. /\ attempt[b].packet = None
          /\ ledger' = [ledger EXCEPT ![b] = Append(ledger[b], Opened)]
          /\ attempt' = [attempt EXCEPT ![b] = [packet |-> p, openedAt |-> now,
                                                lease |-> 0]]
          /\ UNCHANGED <<now, provider, filed>>
      BY <1>8 DEF ClaimSubmission, AppendFact
    <3>2. ~ FiledOrMayFile(b)
      BY <1>0, <3>1, FilersAreBound
    <3>3. ~ Has(ledger'[b], "boundary_authorized")
      <4>1. ledger[b] \in Seq(Fact) /\ ledger'[b] = Append(ledger[b], Opened)
        BY <1>0, <3>1 DEF TypeOK
      <4>2. ~ Has(ledger[b], "boundary_authorized")
        BY <1>0, <3>1, BoundAttempts
      <4> QED
        BY <1>a, <4>1, <4>2, HasAppended
    <3>4. \A d \in Attempts \ {b} : ledger'[d] = ledger[d] /\ attempt'[d] = attempt[d]
      BY <1>0, <3>1 DEF TypeOK
    <3> QED
      BY <3>1, <3>2, <3>3, <3>4 DEF CandidatesStay, FiledOrMayFile, MayFile, LeaseActive
  <2>5. UNCHANGED <<provider, request>>
    BY <1>8 DEF ClaimSubmission
  <2> QED
    BY <1>0, <2>2, <2>3, <2>4, <2>5, WorkerKeeps
<1>9. CASE Authorize(w)
  <2>1. PromiseStep /\ FilingsStay
    BY <1>9, AuthorizePromise
  <2>2. Proceeds(w) /\ UNCHANGED <<row, provider, filed, request>>
    BY <1>9 DEF Authorize, Proceeds, Steps
  <2>3. \A v \in Workers : WorkerReceipt(v)'
    BY <1>0, <2>1, <2>2, ProceedingReceipts
  <2>4. \A q \in Packets : row'[q].receipt => EmployerHolds(q)'
    BY <1>0, <2>1, <2>2, RowsKeepReceipts DEF RowReceipts
  <2>5. \A r \in Requests : request'[r].packet \in Packets /\ request'[r] = request[r]
    BY <2>2 DEF TypeOK, Call
  <2>6. \A r \in Requests :
          request'[r].current.receipt => EmployerHolds(request[r].packet)'
    BY <1>0, <2>1, <2>5, RequestsKeepReceipts
  <2> QED
    BY <2>1, <2>2, <2>3, <2>4, <2>6 DEF ReceiptInv
<1>10. CASE CallProvider(w)
  <2>1. /\ UNCHANGED <<now, row, ledger, attempt, filed, request>>
        /\ \A b \in Attempts : provider'[b].pressed = provider[b].pressed
    BY <1>0, <1>10 DEF CallProvider, TypeOK, ProviderRun
  <2>2. Proceeds(w)
    BY <1>10 DEF CallProvider, Proceeds, Steps
  <2>3. /\ a \in Attempts /\ provider[a].phase = "none" /\ provider'[a].phase = "running"
        /\ \A b \in Attempts \ {a} : provider'[b] = provider[b]
    BY <1>0, <1>10, CallersAttempts
       DEF CallProvider, At, FilingInv, CallersSound, ToBoundary, ClaimOf, TypeOK
  <2>4. CandidatesStay
    BY <2>1, <2>3 DEF CandidatesStay, FiledOrMayFile, MayFile, LeaseActive
  <2> QED
    BY <1>0, <2>1, <2>2, <2>4, WorkerKeeps DEF RowReceipts
<1>11. ASSUME NEW reported \in BOOLEAN,
              NEW s \in {"confirming", "refusing", "unverifying"},
              \/ CallLost(w, reported) \/ RecordPress(w)
              \/ ReceiveAnswer(w, s, reported) \/ RecoverResult(w, s, reported)
       PROVE  Goal
  <2>1. /\ UNCHANGED <<now, row, attempt, provider, filed, request>>
        /\ AppendFact(a, Pressed) \/ UNCHANGED ledger
    BY <1>11 DEF CallLost, RecordPress, ReceiveAnswer, RecoverResult, AppendPressOnce
  <2>2. a \in Attempts
    BY <1>0, <1>11, WorkersAttempts
       DEF CallLost, RecordPress, ReceiveAnswer, RecoverResult, At, BoundSteps
  <2>3. Proceeds(w)
    BY <1>11, <2>2 DEF CallLost, RecordPress, ReceiveAnswer, RecoverResult, Proceeds,
                       Proves, Steps
  <2> QED
    BY <1>2, <1>a, <2>1, <2>2, <2>3 DEF RowReceipts
<1>12. ASSUME NEW accepted \in BOOLEAN, ClickFinalSubmit(w, accepted) PROVE FALSE
  BY <1>12 DEF ClickFinalSubmit, Trusted
<1>13. CASE ReadReceipt(w)
  <2>1. a \in Attempts
    BY <1>0, <1>13, WorkersAttempts DEF ReadReceipt, At, BoundSteps
  <2>2. Proceeds(w)
    BY <1>13, <2>1 DEF ReadReceipt, Proceeds, Steps
  <2> QED
    BY <1>1, <1>13, <2>2 DEF ReadReceipt, RowReceipts
<1>14. ASSUME NEW parked \in BOOLEAN, RecordConfirmed(w, parked) PROVE Goal
  <2>1. a \in Attempts /\ attempt[a].packet = p /\ attempt[a].packet # None
    BY <1>0, <1>14, WorkersAttempts DEF RecordConfirmed, At, BoundSteps
  <2>2. filed[a]
    BY <1>14, <1>b DEF RecordConfirmed, At, ReceiptInv, WorkerReceipt
  <2>3. EmployerHolds(p)
    BY <2>1, <2>2 DEF EmployerHolds
  <2>4. /\ AppendFact(a, Confirmed) \/ UNCHANGED ledger
        /\ Proceeds(w) /\ UNCHANGED <<now, attempt, provider, filed, request>>
    BY <1>14 DEF RecordConfirmed, AppendConfirmationOnce, Proceeds
  <2>5. RowReceipts
    BY <1>14, <1>b, <2>3 DEF RecordConfirmed, RowReceipts
  <2> QED
    BY <1>2, <1>a, <2>1, <2>4, <2>5
<1>15. CASE RecordRefused(w)
  <2>1. a \in Attempts
    BY <1>0, <1>15, WorkersAttempts DEF RecordRefused, At, BoundSteps
  <2>2. /\ AppendFact(a, refused) \/ UNCHANGED ledger
        /\ Proceeds(w) /\ UNCHANGED <<now, attempt, provider, filed, request>>
    BY <1>15 DEF RecordRefused, refused, Proceeds
  <2>3. ReleaseTo(row[p], "none").receipt => EmployerHolds(p)
    <3>1. ReleaseTo(row[p], "none").receipt = row[p].receipt
      BY <1>b, ReceiptsOfReviews
    <3> QED
      BY <1>c, <3>1
  <2>4. RowReceipts
    BY <1>15, <1>b, <2>3 DEF RecordRefused, RowReceipts
  <2> QED
    BY <1>2, <1>a, <2>1, <2>2, <2>4
<1>16. CASE RecordUnverified(w)
  <2>1. MarkUnverified(row[p]).receipt => EmployerHolds(p)
    BY <1>b, <1>c, ReceiptsOfReviews
  <2>2. RowReceipts
    BY <1>16, <1>b, <2>1 DEF RecordUnverified, RowReceipts
  <2> QED
    BY <1>1, <1>16, <2>2 DEF RecordUnverified, Proceeds
<1>17. CASE RecordFailure(w)
  <2> DEFINE proof == ReleasedClaimProof(worker[w].cause,
                                         a # None /\ Has(ledger[a], "boundary_authorized"))
             closed == NotSent(proof)
  <2>a. closed \in Fact /\ closed.kind # "boundary_authorized"
    BY FactTypes DEF NotSent
  <2>1. UNCHANGED ledger \/ (a # None /\ AppendFact(a, closed))
    BY <1>17, <1>b DEF RecordFailure
  <2> HIDE DEF closed
  <2>2. Proceeds(w) /\ UNCHANGED <<now, attempt, provider, filed, request>>
    BY <1>17 DEF RecordFailure, Proceeds
  <2>3. /\ MarkUnverified(row[p]).receipt => EmployerHolds(p)
        /\ \A cause, never : FailureReview(row[p], cause, never).receipt
                               => EmployerHolds(p)
    <3>1. MarkUnverified(row[p]).receipt = row[p].receipt
      BY <1>b, ReceiptsOfReviews
    <3>2. \A cause, never : FailureReview(row[p], cause, never).receipt
                              \in {FALSE, row[p].receipt}
      BY <1>b, ReceiptsOfReviews
    <3> QED
      BY <1>c, <3>1, <3>2
  <2>4. RowReceipts
    BY <1>17, <1>b, <2>3 DEF RecordFailure, RowReceipts
  <2>5. CASE UNCHANGED ledger
    BY <1>1, <2>2, <2>4, <2>5
  <2>6. CASE a # None /\ AppendFact(a, closed)
    BY <1>2, <1>b, <2>a, <2>2, <2>4, <2>6
  <2> QED
    BY <2>1, <2>5, <2>6
<1>18. ASSUME NEW c, EarlyThrow(w, c) PROVE Goal
  <2>1. UNCHANGED <<now, row, ledger, attempt, provider, filed, request>>
    BY <1>18 DEF EarlyThrow, PrepareThrows, ThrowBeforeBoundary, CallStopped
  <2>2. Proceeds(w) /\ RowReceipts
    BY <1>18, <2>1, EarlyCauses DEF Proceeds, RowReceipts
  <2> QED
    BY <1>1, <2>1, <2>2
<1> QED
  BY <1>3, <1>4, <1>5, <1>6, <1>7, <1>8, <1>9, <1>10, <1>11, <1>12, <1>13, <1>14,
     <1>15, <1>16, <1>17, <1>18 DEF WorkerStep, EarlyThrow

LEMMA RunnerPromise ==
  ASSUME Trusted, TypeOK, FilingInv, ReceiptInv, RunnerNext
  PROVE  ReceiptInv' /\ PromiseStep
<1>0. TypeOK /\ BindingInv
  BY DEF FilingInv
<1>a. \A r \in Requests : request[r].packet \in Packets
  BY DEF TypeOK, Call
<1>1. ASSUME UNCHANGED <<now, row, ledger, attempt, provider, filed, request, worker>>
      PROVE  ReceiptInv' /\ PromiseStep
  <2>1. CandidatesStay /\ RowReceipts
    BY <1>0, <1>1, RecordingStays DEF RowReceipts
  <2>2. PromiseStep
    BY <2>1, QuietPromise
  <2> QED
    BY <1>1, <2>2 DEF ReceiptInv, WorkerReceipt, EmployerHolds
<1>2. ASSUME NEW p \in Packets, CronSelects(p) PROVE ReceiptInv' /\ PromiseStep
  BY <1>1, <1>2 DEF CronSelects
<1>3. ASSUME NEW w \in Workers, NEW p \in Packets, LoadPacket(w, p)
      PROVE  ReceiptInv' /\ PromiseStep
  <2>1. UNCHANGED <<now, row, ledger, attempt, provider, filed, request>>
    BY <1>3 DEF LoadPacket
  <2>2. CandidatesStay /\ RowReceipts
    BY <1>0, <2>1, RecordingStays DEF RowReceipts
  <2>3. PromiseStep
    BY <2>2, QuietPromise
  <2>4. ASSUME NEW v \in Workers PROVE WorkerReceipt(v)'
    <3>1. CASE worker'[v] = worker[v]
      BY <2>1, <3>1 DEF ReceiptInv, WorkerReceipt, EmployerHolds
    <3>2. CASE worker'[v] # worker[v]
      <4>1. /\ worker'[v].pc # "confirming" /\ worker'[v].snap = row[p]
            /\ worker'[v].packet = p
        BY <1>3, <3>2 DEF LoadPacket, FirstStep, TypeOK
      <4> QED
        BY <2>1, <4>1 DEF ReceiptInv, WorkerReceipt, EmployerHolds
    <3> QED
      BY <3>1, <3>2
  <2> QED
    BY <2>1, <2>3, <2>4 DEF ReceiptInv, EmployerHolds
<1>4. ASSUME NEW w \in Workers, WorkerCrash(w) PROVE ReceiptInv' /\ PromiseStep
  <2>1. UNCHANGED <<now, row, ledger, attempt, provider, filed, request>> /\ Proceeds(w)
    BY <1>4 DEF WorkerCrash, Proceeds
  <2>2. CandidatesStay
    BY <1>0, <2>1, RecordingStays
  <2> QED
    BY <1>0, <2>1, <2>2, WorkerKeeps DEF RowReceipts
<1>5. ASSUME NEW a \in Attempts, NEW accepted \in BOOLEAN, ProviderPress(a, accepted)
      PROVE  ReceiptInv' /\ PromiseStep
  <2>1. PromiseStep /\ FilingsStay
    BY <1>5, PressPromise
  <2>2. UNCHANGED <<row, worker, request>>
    BY <1>5 DEF ProviderPress
  <2>3. \A w \in Workers : WorkerReceipt(w)'
    <3> SUFFICES ASSUME NEW w \in Workers PROVE WorkerReceipt(w)'
      OBVIOUS
    <3>1. PICK p \in Packets : p = worker[w].packet
      BY DEF TypeOK, Process
    <3>2. worker[w].snap.receipt => EmployerHolds(p)'
      BY <1>0, <2>1, <3>1, HeldStays DEF ReceiptInv, WorkerReceipt
    <3>3. worker[w].pc = "confirming" => filed'[worker[w].snap.claim]
      BY <1>0, <2>1, WorkersAttempts
         DEF ReceiptInv, WorkerReceipt, BoundSteps, ClaimOf, FilingsStay
    <3> QED
      BY <2>2, <3>1, <3>2, <3>3 DEF WorkerReceipt, EmployerHolds
  <2>4. \A p \in Packets : row'[p].receipt => EmployerHolds(p)'
    BY <1>0, <2>1, <2>2, RowsKeepReceipts DEF RowReceipts
  <2>5. \A r \in Requests :
          request'[r].current.receipt => EmployerHolds(request[r].packet)'
    BY <1>0, <1>a, <2>1, <2>2, RequestsKeepReceipts
  <2>6. \A b \in Attempts : filed'[b] => provider'[b].pressed
    BY <1>5 DEF ProviderPress, ReceiptInv, TypeOK, ProviderRun
  <2> QED
    BY <2>1, <2>3, <2>4, <2>5, <2>6 DEF ReceiptInv
<1>6. ASSUME NEW a \in Attempts, ProviderEnds(a) PROVE ReceiptInv' /\ PromiseStep
  <2>1. /\ UNCHANGED <<now, row, ledger, attempt, worker, filed, request>>
        /\ \A b \in Attempts : provider'[b].pressed = provider[b].pressed
    BY <1>0, <1>6 DEF ProviderEnds, TypeOK, ProviderRun
  <2>2. \A b \in Attempts : FiledOrMayFile(b)' => FiledOrMayFile(b)
    <3>1. \A b \in Attempts :
            provider'[b].phase = provider[b].phase \/ provider'[b].phase = "ended"
      BY <1>0, <1>6 DEF ProviderEnds, TypeOK, ProviderRun
    <3> QED
      BY <2>1, <3>1 DEF FiledOrMayFile, MayFile, LeaseActive
  <2>3. PromiseStep
    BY <2>1, <2>2, FadingPromise
  <2> QED
    BY <2>1, <2>3 DEF ReceiptInv, WorkerReceipt, EmployerHolds
<1> QED
  BY <1>2, <1>3, <1>4, <1>5, <1>6, WorkerPromise DEF RunnerNext, ProviderStep

LEMMA ApplicantPromise ==
  ASSUME Trusted, TypeOK, FilingInv, ReceiptInv, ApplicantNext
  PROVE  ReceiptInv' /\ PromiseStep
<1> DEFINE checked == NotSent("applicant_checked_not_sent")
           stop == NotSent("typed_pre_click_stop")
<1>0. TypeOK /\ BindingInv
  BY DEF FilingInv
<1>a. UNCHANGED <<now, attempt, provider, filed, worker>>
  BY DEF ApplicantNext, RequestRead, RequestVerdict, RequestRefused, SubmitRequest,
         Approve, AnswerNotThere, AnswerFound, AnswerPacketNotThere,
         AnswerPacketFound, RepairOnLoad, RepairParked, CloseAbandoned
<1>b. /\ checked \in Fact /\ checked.kind # "boundary_authorized"
      /\ stop \in Fact /\ stop.kind # "boundary_authorized"
      /\ Confirmed \in Fact /\ Confirmed.kind # "boundary_authorized"
  BY FactTypes DEF NotSent, Confirmed
<1> HIDE DEF checked, stop
<1>c. \A p \in Packets : row[p] \in Review /\ (row[p].receipt => EmployerHolds(p))
  BY DEF TypeOK, ReceiptInv
<1>1. ASSUME CandidatesStay, RowReceipts,
             \A r \in Requests :
               /\ request'[r].packet \in Packets
               /\ \/ request'[r] = request[r]
                  \/ request'[r].current.receipt => EmployerHolds(request'[r].packet)
      PROVE  ReceiptInv' /\ PromiseStep
  <2>1. FilingsStay /\ PromiseStep
    BY <1>0, <1>1, StayingFilings, QuietPromise
  <2>2. /\ \A p \in Packets : row'[p].receipt => EmployerHolds(p)'
        /\ \A r \in Requests :
             request'[r].current.receipt => EmployerHolds(request[r].packet)'
    BY <1>0, <1>1, <2>1, RowsKeepReceipts, RequestsKeepReceipts
  <2>3. /\ \A w \in Workers : WorkerReceipt(w)'
        /\ \A a \in Attempts : filed'[a] => provider'[a].pressed
    BY <1>a DEF ReceiptInv, WorkerReceipt, EmployerHolds
  <2> QED
    BY <2>1, <2>2, <2>3 DEF ReceiptInv
<1>2. ASSUME NEW a \in Attempts, NEW fact \in Fact, fact.kind # "boundary_authorized",
             AppendFact(a, fact) \/ UNCHANGED ledger, UNCHANGED request, RowReceipts
      PROVE  ReceiptInv' /\ PromiseStep
  <2>1. CandidatesStay
    BY <1>0, <1>a, <1>2, AppendStays
  <2>2. \A r \in Requests : request'[r].packet \in Packets /\ request'[r] = request[r]
    BY <1>2 DEF TypeOK, Call
  <2> QED
    BY <1>1, <1>2, <2>1, <2>2
<1>3. ASSUME NEW r \in Requests,
             \/ \E p \in Packets : \E kind \in {"submit", "approve"} :
                  RequestRead(r, p, kind)
             \/ RequestVerdict(r) \/ RequestRefused(r) \/ SubmitRequest(r) \/ Approve(r)
      PROVE  ReceiptInv' /\ PromiseStep
  <2> DEFINE p == request[r].packet
             current == request[r].current
  <2>1. CandidatesStay
    <3>1. UNCHANGED ledger
      BY <1>3 DEF RequestRead, RequestVerdict, RequestRefused, SubmitRequest, Approve
    <3> QED
      BY <1>0, <1>a, <3>1, RecordingStays
  <2>2. /\ p \in Packets /\ current \in Review
        /\ current.receipt => EmployerHolds(p)
    BY DEF TypeOK, Call, ReceiptInv
  <2>3. RowReceipts
    <3>1. CASE \/ \E q \in Packets : \E kind \in {"submit", "approve"} :
                    RequestRead(r, q, kind)
               \/ RequestVerdict(r)
      BY <3>1 DEF RequestRead, RequestVerdict, RowReceipts
    <3>2. CASE RequestRefused(r) \/ Approve(r)
      <4>1. /\ [current EXCEPT !.status = "needs_attention"].receipt = current.receipt
            /\ [current EXCEPT !.status = "submitting", !.claim = None].receipt
                 = current.receipt
        BY <2>2, ReceiptsOfReviews
      <4> QED
        BY <3>2, <2>2, <4>1 DEF RequestRefused, Approve, RowReceipts
    <3>3. CASE SubmitRequest(r)
      BY <3>3, <2>2 DEF SubmitRequest, RowReceipts
    <3> QED
      BY <1>3, <3>1, <3>2, <3>3
  <2>4. \A v \in Requests \ {r} : request'[v] = request[v]
    BY <1>3 DEF RequestRead, RequestVerdict, RequestRefused, SubmitRequest, Approve, TypeOK
  <2>5. request'[r].packet \in Packets
        /\ (request'[r].current.receipt => EmployerHolds(request'[r].packet))
    <3>1. ASSUME NEW q \in Packets, NEW kind \in {"submit", "approve"},
                 RequestRead(r, q, kind)
          PROVE  request'[r].packet = q /\ request'[r].current = row[q]
      BY <3>1 DEF RequestRead, TypeOK
    <3>2. CASE RequestVerdict(r)
      <4>1. request'[r].packet = p /\ request'[r].current = current
        BY <3>2 DEF RequestVerdict, TypeOK, Call
      <4> QED
        BY <2>2, <4>1
    <3>3. CASE RequestRefused(r) \/ SubmitRequest(r) \/ Approve(r)
      <4>1. request'[r] = IdleCall
        BY <3>3 DEF RequestRefused, SubmitRequest, Approve, TypeOK
      <4>2. IdleCall.packet \in Packets /\ ~ IdleCall.current.receipt
        BY IdleTypes DEF Call, IdleCall, FreshReview
      <4> QED
        BY <4>1, <4>2
    <3> QED
      BY <1>3, <1>c, <3>1, <3>2, <3>3
  <2>6. \A v \in Requests : request[v].packet \in Packets
    BY DEF TypeOK, Call
  <2> QED
    BY <1>1, <2>1, <2>3, <2>4, <2>5, <2>6
<1>4. ASSUME NEW p \in Packets, AnswerNotThere(p) \/ RepairOnLoad(p)
      PROVE  ReceiptInv' /\ PromiseStep
  <2>1. row[p].claim \in Attempts
    BY <1>0, <1>4, ClaimedAttempts DEF AnswerNotThere, RepairOnLoad, AsksAboutClaim
  <2>2. \E fact \in {checked, stop} : AppendFact(row[p].claim, fact)
    BY <1>4 DEF AnswerNotThere, RepairOnLoad, checked, stop
  <2>3. PICK u : row' = [row EXCEPT ![p] = ReleaseTo(row[p], u)]
    BY <1>4 DEF AnswerNotThere, RepairOnLoad
  <2>4. ReleaseTo(row[p], u).receipt = row[p].receipt
    BY <1>c, ReceiptsOfReviews
  <2>5. RowReceipts
    BY <1>c, <2>3, <2>4 DEF RowReceipts
  <2>6. UNCHANGED request
    BY <1>4 DEF AnswerNotThere, RepairOnLoad
  <2> QED
    BY <1>2, <1>b, <2>1, <2>2, <2>5, <2>6
<1>5. ASSUME NEW p \in Packets, AnswerFound(p) \/ AnswerPacketFound(p)
      PROVE  ReceiptInv' /\ PromiseStep
  <2>1. EmployerHolds(p)
    BY <1>5 DEF AnswerFound, AnswerPacketFound, SaysFound, Trusted
  <2>2. \E a \in Attempts : AppendFact(a, Confirmed)
    BY <1>0, <1>5, ClaimedAttempts
       DEF AnswerFound, AsksAboutClaim, AnswerPacketFound, AttemptsOf
  <2>3. RowReceipts
    BY <1>5, <2>1 DEF AnswerFound, AnswerPacketFound, RowReceipts
  <2>4. UNCHANGED request
    BY <1>5 DEF AnswerFound, AnswerPacketFound
  <2> QED
    BY <1>2, <1>b, <2>2, <2>3, <2>4
<1>6. ASSUME NEW p \in Packets, AnswerPacketNotThere(p)
      PROVE  ReceiptInv' /\ PromiseStep
  <2>1. \A a \in Attempts :
          ledger'[a] = ledger[a] \/ ledger'[a] = Append(ledger[a], checked)
    BY <1>6 DEF AnswerPacketNotThere, checked
  <2>2. CandidatesStay
    BY <1>0, <1>a, <1>b, <2>1, RecordingStays
  <2>3. ReleaseTo(row[p], "not_sent").receipt = row[p].receipt
    BY <1>c, ReceiptsOfReviews
  <2>4. RowReceipts
    BY <1>6, <1>c, <2>3 DEF AnswerPacketNotThere, RowReceipts
  <2>5. \A r \in Requests : request'[r].packet \in Packets /\ request'[r] = request[r]
    BY <1>6 DEF AnswerPacketNotThere, TypeOK, Call
  <2> QED
    BY <1>1, <2>2, <2>4, <2>5
<1>7. ASSUME NEW p \in Packets, RepairParked(p) PROVE ReceiptInv' /\ PromiseStep
  <2>1. EmployerHolds(p)
    BY <1>7, <1>c DEF RepairParked
  <2>2. RowReceipts
    BY <1>7, <2>1 DEF RepairParked, RowReceipts
  <2>3. CandidatesStay
    BY <1>0, <1>7, RecordingStays DEF RepairParked
  <2>4. \A r \in Requests : request'[r].packet \in Packets /\ request'[r] = request[r]
    BY <1>7 DEF RepairParked, TypeOK, Call
  <2> QED
    BY <1>1, <2>2, <2>3, <2>4
<1>8. ASSUME NEW a \in Attempts, CloseAbandoned(a) PROVE ReceiptInv' /\ PromiseStep
  <2>1. AppendFact(a, stop) /\ UNCHANGED <<row, request>>
    BY <1>8 DEF CloseAbandoned, stop
  <2> QED
    BY <1>2, <1>b, <2>1 DEF RowReceipts
<1> QED
  BY <1>3, <1>4, <1>5, <1>6, <1>7, <1>8 DEF ApplicantNext

\* A confirmation puts a receipt on a row whose employer holds the application.
LEMMA EvidencePromise ==
  ASSUME TypeOK, FilingInv, ReceiptInv, EvidenceNext
  PROVE  ReceiptInv' /\ PromiseStep
<1>0. TypeOK /\ BindingInv
  BY DEF FilingInv
<1>1. PICK p \in Packets : MailConfirms(p) \/ StoredResponseConfirms(p)
  BY DEF EvidenceNext
<1>2. UNCHANGED <<now, attempt, provider, filed, worker, request>>
  BY <1>1 DEF MailConfirms, StoredResponseConfirms
<1>3. PICK a \in Attempts : AppendFact(a, Confirmed)
  BY <1>0, <1>1, ClaimedAttempts DEF MailConfirms, StoredResponseConfirms
<1>4. Confirmed \in Fact /\ Confirmed.kind # "boundary_authorized"
  BY FactTypes DEF Confirmed
<1>5. EmployerHolds(p)
  <2>1. p # None
    BY NoneAssumption
  <2>2. PICK b \in Attempts : attempt[b].packet = p /\ filed[b]
    <3>1. CASE MailConfirms(p)
      BY <3>1 DEF MailConfirms, EmployerWrote, AttemptsOf
    <3>2. CASE StoredResponseConfirms(p)
      <4>1. row[p].claim \in Attempts /\ attempt[row[p].claim].packet = p
        BY <1>0, <3>2, ClaimedAttempts
           DEF StoredResponseConfirms, BindingInv, RowBound
      <4> QED
        BY <3>2, <4>1 DEF StoredResponseConfirms
    <3> QED
      BY <1>1, <3>1, <3>2
  <2> QED
    BY <2>1, <2>2 DEF EmployerHolds
<1>6. RowReceipts
  BY <1>1, <1>5 DEF MailConfirms, StoredResponseConfirms, RowReceipts
<1>7. CandidatesStay
  BY <1>0, <1>2, <1>3, <1>4, AppendStays
<1>8. FilingsStay /\ PromiseStep
  BY <1>0, <1>6, <1>7, StayingFilings, QuietPromise
<1>9. /\ \A q \in Packets : row'[q].receipt => EmployerHolds(q)'
      /\ \A r \in Requests :
           request'[r].current.receipt => EmployerHolds(request[r].packet)'
  <2>1. \A r \in Requests : request'[r].packet \in Packets /\ request'[r] = request[r]
    BY <1>2 DEF TypeOK, Call
  <2> QED
    BY <1>0, <1>2, <1>6, <1>8, <2>1, RowsKeepReceipts, RequestsKeepReceipts
<1>10. /\ \A w \in Workers : WorkerReceipt(w)'
       /\ \A b \in Attempts : filed'[b] => provider'[b].pressed
  BY <1>2 DEF ReceiptInv, WorkerReceipt, EmployerHolds
<1> QED
  BY <1>2, <1>8, <1>9, <1>10 DEF ReceiptInv

-----------------------------------------------------------------------------
(* The theorem *)

LEMMA InitPromise == Init => ReceiptInv /\ Promise!PromiseInit
<1> SUFFICES ASSUME Init PROVE ReceiptInv /\ Promise!PromiseInit
  OBVIOUS
<1>1. ReceiptInv
  BY DEF Init, ReceiptInv, WorkerReceipt, FreshReview, IdleProcess, IdleCall
<1>2. \A q : CandidatesFor(q) = {}
  BY DEF Init, CandidatesFor, FiledOrMayFile, MayFile, LeaseActive, Has
<1>3. ReceivedPostings = {} /\ ShownPostings = {}
  BY DEF Init, ReceivedPostings, ShownPostings, FreshReview
<1> QED
  BY <1>1, <1>2, <1>3 DEF Promise!PromiseInit

LEMMA NextPromise ==
  ASSUME Trusted, TypeOK, FilingInv, ReceiptInv, [Next]_vars
  PROVE  ReceiptInv' /\ PromiseStep
<1>0. BindingInv
  BY DEF FilingInv
<1>1. CASE ApplicantNext
  BY <1>1, ApplicantPromise
<1>2. CASE RunnerNext
  BY <1>2, RunnerPromise
<1>3. CASE Tick
  <2>1. PromiseStep
    BY <1>3, TickPromise
  <2>2. UNCHANGED <<row, attempt, worker, provider, filed, request>>
    BY <1>3 DEF Tick
  <2> QED
    BY <2>1, <2>2 DEF ReceiptInv, WorkerReceipt, EmployerHolds
<1>4. CASE UNCHANGED vars
  <2>1. CandidatesStay /\ RowReceipts
    BY <1>4, RecordingStays DEF vars, RowReceipts
  <2>2. PromiseStep
    BY <2>1, QuietPromise
  <2> QED
    BY <1>4, <2>2 DEF vars, ReceiptInv, WorkerReceipt, EmployerHolds
<1>5. CASE EvidenceNext
  BY <1>5, EvidencePromise
<1> QED
  BY <1>1, <1>2, <1>3, <1>4, <1>5 DEF Next

\* The system keeps the promise of OneApplication for every posting.
THEOREM PromiseKept ==
  ASSUME Trusted
  PROVE  Spec => KeepsPromise
<1>1. Init => ReceiptInv /\ Promise!PromiseInit
  BY InitPromise
<1>2. TypeOK /\ FilingInv /\ ReceiptInv /\ [Next]_vars => ReceiptInv' /\ PromiseStep
  BY NextPromise
<1>3. Spec => [](TypeOK /\ FilingInv)
  BY FilingHolds
<1> QED
  BY <1>1, <1>2, <1>3, PTL DEF Spec, KeepsPromise, Promise!PromiseSpec, PromiseStep

-----------------------------------------------------------------------------
(* A receipt stays on its row: the inductive invariant *)

\* An attempt that was begun: it blocks, and has not got as far as the employer.
Begun(a) ==
  /\ Blocking(ledger[a]) /\ NeverCrossedBoundary(a)
  /\ ~ Has(ledger[a], "submission_confirmed")

\* Nothing is begun beside an attempt of its posting that has filed or still may.
BegunApart ==
  \A a, b \in Attempts :
    a # b /\ Begun(a) /\ FiledOrMayFile(b)
      => PostingOf[attempt[a].packet] # PostingOf[attempt[b].packet]

\* A process that claimed its packet, or stops with the claim it may release unasked.
Begins(w) == At(w, "claimed") \/ (At(w, "failing") /\ worker[w].cause \in ReleasingStops)

BeginnersApart ==
  /\ \A w \in Workers : Begins(w) => ClaimOf(w) # None /\ NeverCrossedBoundary(ClaimOf(w))
  /\ \A v, w \in Workers : Begins(v) /\ Begins(w) /\ ClaimOf(v) = ClaimOf(w) => v = w

BeginningInv == BegunApart /\ BeginnersApart

\* What a step that neither opens nor authorizes may record: a confirmation, a press of an
\* authorized attempt, or that an attempt which blocks was not sent.
MayRecord(a, fact) ==
  \/ fact.kind = "submission_confirmed"
  \/ fact.kind = "press_observed" /\ Has(ledger[a], "boundary_authorized")
  \/ fact.kind = "not_sent_proven" /\ Blocking(ledger[a])

RecordsOutcomes ==
  \A a \in Attempts :
    \/ ledger'[a] = ledger[a]
    \/ \E fact \in Fact : ledger'[a] = Append(ledger[a], fact) /\ MayRecord(a, fact)

\* No process claims a packet in the step.
NoneBegins ==
  \A w \in Workers : Begins(w)' => Begins(w) /\ worker'[w].snap.claim = ClaimOf(w)

LEMMA OutcomeRecorded ==
  ASSUME TypeOK, NEW b \in Attempts, NEW fact \in Fact,
         AppendFact(b, fact) \/ UNCHANGED ledger, MayRecord(b, fact)
  PROVE  RecordsOutcomes
<1>1. \A a \in Attempts : ledger'[a] = ledger[a] \/ (a = b /\ ledger'[a] = Append(ledger[a], fact))
  BY DEF TypeOK, AppendFact
<1> QED
  BY <1>1 DEF RecordsOutcomes

\* Outcomes begin nothing, and move no attempt over its boundary that was not authorized.
LEMMA OutcomesBeginNothing ==
  ASSUME TypeOK, RecordsOutcomes, NEW a \in Attempts
  PROVE  /\ Begun(a)' => Begun(a)
         /\ NeverCrossedBoundary(a) => NeverCrossedBoundary(a)'
<1>1. ledger[a] \in Seq(Fact)
  BY DEF TypeOK
<1>2. CASE ledger'[a] = ledger[a]
  BY <1>2 DEF Begun, NeverCrossedBoundary
<1>3. ASSUME NEW fact \in Fact, ledger'[a] = Append(ledger[a], fact), MayRecord(a, fact)
      PROVE  /\ Begun(a)' => Begun(a)
             /\ NeverCrossedBoundary(a) => NeverCrossedBoundary(a)'
  <2>1. \A kind : Has(ledger'[a], kind) <=> Has(ledger[a], kind) \/ fact.kind = kind
    BY <1>1, <1>3, HasAppended
  <2> QED
    BY <1>3, <2>1 DEF MayRecord, Begun, NeverCrossedBoundary
<1> QED
  BY <1>2, <1>3 DEF RecordsOutcomes

LEMMA BegunStayApart ==
  ASSUME TypeOK, BindingInv, BegunApart, BindingsStay,
         \A a \in Attempts : Begun(a)' => Begun(a),
         \A a \in Attempts : FiledOrMayFile(a)' => FiledOrMayFile(a)
  PROVE  BegunApart'
<1> SUFFICES ASSUME NEW a \in Attempts, NEW b \in Attempts, a # b,
                    Begun(a)', FiledOrMayFile(b)'
             PROVE  PostingOf[attempt'[a].packet] # PostingOf[attempt'[b].packet]
  BY DEF BegunApart
<1>1. Begun(a) /\ FiledOrMayFile(b)
  OBVIOUS
<1>2. ledger[a] # << >>
  BY <1>1 DEF Begun, Blocking, RetrySafety
<1>3. attempt[a].packet # None /\ attempt[b].packet # None
  BY <1>1, <1>2, BoundAttempts, FilersAreBound
<1> QED
  BY <1>1, <1>3 DEF BegunApart, BindingsStay

LEMMA BeginnersStayApart ==
  ASSUME BeginnersApart, NoneBegins, TypeOK,
         \A w \in Workers :
           Begins(w) /\ Begins(w)' /\ NeverCrossedBoundary(ClaimOf(w))
             => NeverCrossedBoundary(ClaimOf(w))'
  PROVE  BeginnersApart'
<1>1. \A w \in Workers : ClaimOf(w)' = worker'[w].snap.claim
  BY DEF ClaimOf
<1>2. ASSUME NEW w \in Workers, Begins(w)'
      PROVE  ClaimOf(w)' # None /\ NeverCrossedBoundary(ClaimOf(w))'
  BY <1>1, <1>2 DEF BeginnersApart, NoneBegins, NeverCrossedBoundary
<1>3. ASSUME NEW v \in Workers, NEW w \in Workers, Begins(v)', Begins(w)',
             ClaimOf(v)' = ClaimOf(w)'
      PROVE  v = w
  BY <1>1, <1>3 DEF BeginnersApart, NoneBegins
<1> QED
  BY <1>2, <1>3 DEF BeginnersApart

\* A step that records outcomes, and in which no process claims a packet.
LEMMA RecordingBegins ==
  ASSUME TypeOK, BindingInv, BeginningInv, RecordsOutcomes, NoneBegins, BindingsStay,
         \A a \in Attempts : FiledOrMayFile(a)' => FiledOrMayFile(a)
  PROVE  BeginningInv'
<1>1. BegunApart'
  BY OutcomesBeginNothing, BegunStayApart DEF BeginningInv
<1>2. ASSUME NEW w \in Workers, Begins(w), Begins(w)', NeverCrossedBoundary(ClaimOf(w))
      PROVE  NeverCrossedBoundary(ClaimOf(w))'
  <2>1. PICK a \in Attempts : a = ClaimOf(w)
    BY <1>2 DEF BeginningInv, BeginnersApart, ClaimOf, TypeOK, Process, Review
  <2>2. NeverCrossedBoundary(a)'
    BY <1>2, <2>1, OutcomesBeginNothing
  <2>3. ClaimOf(w)' = a
    BY <1>2, <2>1 DEF NoneBegins, ClaimOf
  <2> QED
    BY <2>2, <2>3 DEF NeverCrossedBoundary
<1>3. BeginnersApart'
  BY <1>2, BeginnersStayApart DEF BeginningInv
<1> QED
  BY <1>1, <1>3 DEF BeginningInv

\* And in which the clock, the leases, the provider and the employer rest.
LEMMA OutcomeBegins ==
  ASSUME TypeOK, BindingInv, BeginningInv, RecordsOutcomes, NoneBegins,
         UNCHANGED <<now, attempt, provider, filed>>
  PROVE  BeginningInv'
<1>1. \A a \in Attempts :
        \/ ledger'[a] = ledger[a]
        \/ \E fact \in Fact : /\ ledger'[a] = Append(ledger[a], fact)
                              /\ fact.kind # "boundary_authorized"
  BY DEF RecordsOutcomes, MayRecord
<1>2. CandidatesStay
  BY <1>1, RecordingStays
<1> QED
  BY <1>2, RecordingBegins DEF CandidatesStay, BindingsStay

\* A process that ends, throws nothing that releases its claim unasked, or goes on.
Moves(w) ==
  \/ Finish(w)
  \/ \E c \in Causes \ ReleasingStops : Throw(w, c)
  \/ \E s \in Steps \ {"claimed", "failing"} :
       Goto(w, s) \/ \E review : GotoWith(w, s, review)

LEMMA MovingBeginsNone ==
  ASSUME TypeOK, NEW w \in Workers, Moves(w)
  PROVE  NoneBegins /\ ~ Begins(w)'
<1>1. \A v \in Workers \ {w} : worker'[v] = worker[v]
  BY DEF Moves, Finish, Throw, Goto, GotoWith, TypeOK
<1>2. ~ Begins(w)'
  <2>1. worker[w] \in Process
    BY DEF TypeOK
  <2>2. CASE Finish(w)
    BY <2>2 DEF Finish, TypeOK, Begins, At, IdleProcess
  <2>3. ASSUME NEW c \in Causes \ ReleasingStops, Throw(w, c) PROVE ~ Begins(w)'
    <3>1. worker'[w].pc = "failing" /\ worker'[w].cause = c
      BY <2>1, <2>3 DEF Throw, TypeOK, Process
    <3> QED
      BY <2>3, <3>1 DEF Begins, At
  <2>4. ASSUME NEW s \in Steps \ {"claimed", "failing"},
               Goto(w, s) \/ \E review : GotoWith(w, s, review)
        PROVE  ~ Begins(w)'
    <3>1. worker'[w].pc = s
      BY <2>1, <2>4 DEF Goto, GotoWith, TypeOK, Process
    <3> QED
      BY <2>4, <3>1 DEF Begins, At
  <2> QED
    BY <2>2, <2>3, <2>4 DEF Moves
<1>3. ASSUME NEW v \in Workers \ {w}, Begins(v)'
      PROVE  Begins(v) /\ worker'[v].snap.claim = ClaimOf(v)
  BY <1>1, <1>3 DEF Begins, At, ClaimOf
<1> QED
  BY <1>2, <1>3 DEF NoneBegins

-----------------------------------------------------------------------------
(* A receipt stays on its row: the steps *)

ReceiptsKept == \A p \in Packets : row[p].receipt => row'[p].receipt

LEMMA WrittenKeeps ==
  ASSUME TypeOK, NEW p \in Packets, NEW review,
         row' = [row EXCEPT ![p] = review] \/ UNCHANGED row,
         row[p].receipt => review.receipt
  PROVE  ReceiptsKept
BY DEF TypeOK, ReceiptsKept

\* Where a receipt is shown the employer holds an application, and nothing is begun.
LEMMA NothingBegunBesideReceipt ==
  ASSUME TypeOK, BindingInv, BegunApart, ReceiptInv, NEW p \in Packets, row[p].receipt,
         NEW a \in Attempts, attempt[a].packet = p
  PROVE  ~ Begun(a)
<1>1. PICK c \in Attempts : PostingOf[attempt[c].packet] = PostingOf[p] /\ filed[c]
  BY DEF ReceiptInv, EmployerHolds
<1>2. FiledOrMayFile(c) /\ Has(ledger[c], "boundary_authorized")
  BY <1>1 DEF FiledOrMayFile, BindingInv, AttemptBound
<1>3. CASE a = c
  BY <1>2, <1>3 DEF Begun, NeverCrossedBoundary
<1>4. CASE a # c
  BY <1>1, <1>2, <1>4 DEF BegunApart
<1> QED
  BY <1>3, <1>4

\* A review is written only over a row whose packet nobody has confirmed.
LEMMA UnconfirmedKeeps ==
  ASSUME TypeOK, RowsInv, NEW p \in Packets, NEW snap, NEW review, WriteReview(p, snap, review)
  PROVE  ReceiptsKept
<1>1. row[p].receipt => PacketConfirmed(p)
  BY DEF RowsInv, ReviewSound, Shown
<1>2. CASE PacketConfirmed(p)
  BY <1>2 DEF WriteReview, MayWriteReview, ReceiptsKept
<1>3. CASE ~ PacketConfirmed(p)
  BY <1>1, <1>3, WrittenKeeps DEF WriteReview
<1> QED
  BY <1>2, <1>3

LEMMA UnsentBlocks ==
  /\ \A events : NeverReachedEmployer(events) => Blocking(events)
  /\ \A events : BlockedUnverified(events) => Blocking(events)
  /\ \A a : MayHavePressed(a) => Blocking(ledger[a])
<1>1. ASSUME NEW events, NeverReachedEmployer(events) PROVE Blocking(events)
  <2>1. Has(events, "attempt_opened") /\ ~ Has(events, "not_sent_proven")
    BY <1>1 DEF NeverReachedEmployer
  <2>2. events # << >>
    BY <2>1 DEF Has
  <2> QED
    BY <2>1, <2>2 DEF Blocking, RetrySafety
<1> QED
  BY <1>1 DEF BlockedUnverified, Blocking, MayHavePressed

\* An attempt that may be sent is let out when no other of its posting blocks.
LEMMA AuthorizeBegins ==
  ASSUME TypeOK, BindingInv, BeginningInv, NEW w \in Workers, Authorize(w)
  PROVE  BeginningInv'
<1> DEFINE a == ClaimOf(w)
           p == worker[w].packet
<1>1. /\ a \in Attempts /\ attempt[a].packet = p /\ p \in Packets
      /\ BoundaryClear(p, a, worker[w].snap) /\ At(w, "claimed")
  BY WorkersAttempts DEF Authorize, At, BoundSteps, TypeOK, Process
<1>2. /\ ledger' = [ledger EXCEPT ![a] = Append(ledger[a], Authorized)]
      /\ attempt' = [attempt EXCEPT ![a].lease = now + LeaseTTL]
      /\ UNCHANGED <<now, provider, filed>>
      /\ Goto(w, "authorized")
  BY DEF Authorize, AppendFact
<1>3. \A b \in Attempts \ {a} : ledger'[b] = ledger[b] /\ attempt'[b] = attempt[b]
  BY <1>2 DEF TypeOK
<1>4. \A b \in Attempts : attempt'[b].packet = attempt[b].packet
  BY <1>2 DEF TypeOK, Binding
<1>5. Has(ledger'[a], "boundary_authorized")
  <2>1. ledger[a] \in Seq(Fact) /\ ledger'[a] = Append(ledger[a], Authorized)
    BY <1>1, <1>2 DEF TypeOK
  <2> QED
    BY <2>1, FactTypes, HasAppended DEF Authorized
<1>6. BegunApart'
  <2> SUFFICES ASSUME NEW b \in Attempts, NEW c \in Attempts, b # c,
                      Begun(b)', FiledOrMayFile(c)'
               PROVE  PostingOf[attempt'[b].packet] # PostingOf[attempt'[c].packet]
    BY DEF BegunApart
  <2>1. b # a
    BY <1>5 DEF Begun, NeverCrossedBoundary
  <2>2. Begun(b)
    BY <1>3, <2>1 DEF Begun, NeverCrossedBoundary
  <2>3. CASE c = a
    <3>1. ledger[b] # << >> /\ Blocking(ledger[b])
      BY <2>2 DEF Begun, Blocking, RetrySafety
    <3>2. attempt[b].packet # None
      BY <3>1, BoundAttempts
    <3>3. PostingOf[attempt[b].packet] # PostingOf[p]
      BY <1>1, <2>1, <3>1, <3>2 DEF BoundaryClear, Clear
    <3> QED
      BY <1>1, <1>4, <2>3, <3>3
  <2>4. CASE c # a
    <3>1. FiledOrMayFile(c)
      BY <1>2, <1>3, <2>4 DEF FiledOrMayFile, MayFile, LeaseActive
    <3> QED
      BY <1>4, <2>2, <3>1 DEF BeginningInv, BegunApart
  <2> QED
    BY <2>3, <2>4
<1>7. Moves(w)
  BY <1>2 DEF Moves, Steps
<1>8. NoneBegins /\ ~ Begins(w)'
  BY <1>7, MovingBeginsNone
<1>9. ASSUME NEW v \in Workers, Begins(v), Begins(v)', NeverCrossedBoundary(ClaimOf(v))
      PROVE  NeverCrossedBoundary(ClaimOf(v))'
  <2>1. v # w
    BY <1>8, <1>9
  <2>2. Begins(w)
    BY <1>1 DEF Begins
  <2>3. ClaimOf(v) # a /\ ClaimOf(v) \in Attempts
    BY <1>9, <2>1, <2>2 DEF BeginningInv, BeginnersApart, ClaimOf, TypeOK, Process, Review
  <2>4. worker'[v] = worker[v]
    BY <1>2, <2>1 DEF Goto, TypeOK
  <2> QED
    BY <1>3, <1>9, <2>3, <2>4 DEF ClaimOf, NeverCrossedBoundary
<1>10. BeginnersApart'
  BY <1>8, <1>9, BeginnersStayApart DEF BeginningInv
<1> QED
  BY <1>6, <1>10 DEF BeginningInv

\* A packet is claimed when no attempt of its posting blocks, for an attempt nobody had.
LEMMA ClaimBegins ==
  ASSUME TypeOK, BindingInv, FilersBlock, BeginningInv, NEW w \in Workers,
         NEW a \in Attempts, ClaimSubmission(w, a)
  PROVE  BeginningInv'
<1> DEFINE p == worker[w].packet
<1>1. /\ attempt[a].packet = None /\ Clear(p, {}) /\ p \in Packets
      /\ ledger' = [ledger EXCEPT ![a] = Append(ledger[a], Opened)]
      /\ attempt' = [attempt EXCEPT ![a] = [packet |-> p, openedAt |-> now, lease |-> 0]]
      /\ UNCHANGED <<now, provider, filed>>
  BY DEF ClaimSubmission, MayClaim, AppendFact, TypeOK, Process
<1>2. \A b \in Attempts \ {a} : ledger'[b] = ledger[b] /\ attempt'[b] = attempt[b]
  BY <1>1 DEF TypeOK
<1>3. \A b \in Attempts \ {a} : FiledOrMayFile(b)' <=> FiledOrMayFile(b)
  BY <1>1, <1>2 DEF FiledOrMayFile, MayFile, LeaseActive
<1>4. /\ attempt'[a].packet = p
      /\ ~ Has(ledger'[a], "boundary_authorized") /\ ~ Has(ledger'[a], "press_observed")
  <2>1. ledger[a] = << >> /\ ledger[a] \in Seq(Fact)
    BY <1>1 DEF BindingInv, AttemptBound, TypeOK
  <2>2. ledger'[a] = Append(ledger[a], Opened)
    BY <1>1, <2>1 DEF TypeOK
  <2>3. \A kind : Has(ledger'[a], kind) => kind = "attempt_opened"
    <3> SUFFICES ASSUME NEW kind, Has(ledger'[a], kind) PROVE kind = "attempt_opened"
      OBVIOUS
    <3>1. ~ Has(ledger[a], kind)
      BY <2>1 DEF Has
    <3>2. Opened \in Fact /\ Opened.kind = "attempt_opened"
      BY FactTypes DEF Opened
    <3>3. Opened.kind = kind
      BY <2>1, <2>2, <3>1, <3>2, HasAppended
    <3> QED
      BY <3>2, <3>3
  <2> QED
    BY <1>1, <2>3 DEF TypeOK
<1>5. ~ FiledOrMayFile(a)'
  <2>1. ~ FiledOrMayFile(a)
    BY <1>1, FilersAreBound
  <2> QED
    BY <1>1, <1>4, <2>1 DEF FiledOrMayFile, MayFile, LeaseActive
<1>6. BegunApart'
  <2> SUFFICES ASSUME NEW b \in Attempts, NEW c \in Attempts, b # c,
                      Begun(b)', FiledOrMayFile(c)'
               PROVE  PostingOf[attempt'[b].packet] # PostingOf[attempt'[c].packet]
    BY DEF BegunApart
  <2>1. c # a /\ FiledOrMayFile(c) /\ attempt'[c] = attempt[c]
    BY <1>2, <1>3, <1>5
  <2>2. attempt[c].packet # None /\ Blocking(ledger[c])
    BY <2>1, FilersAreBound DEF FilersBlock
  <2>3. CASE b = a
    BY <1>1, <1>4, <2>1, <2>2, <2>3 DEF Clear
  <2>4. CASE b # a
    <3>1. Begun(b) /\ attempt'[b] = attempt[b]
      BY <1>2, <2>4 DEF Begun, NeverCrossedBoundary
    <3> QED
      BY <2>1, <3>1 DEF BeginningInv, BegunApart
  <2> QED
    BY <2>3, <2>4
<1>7. /\ worker'[w].snap.claim = a
      /\ \A v \in Workers \ {w} : worker'[v] = worker[v]
  <2>1. PICK claimed : /\ claimed = [worker[w].snap EXCEPT !.claim = a]
                       /\ GotoWith(w, "claimed", claimed)
    BY DEF ClaimSubmission
  <2>2. claimed.claim = a
    BY <2>1 DEF TypeOK, Process, Review
  <2> QED
    BY <2>1, <2>2 DEF GotoWith, TypeOK, Process
<1>8. ASSUME NEW v \in Workers \ {w}, Begins(v)'
      PROVE  /\ Begins(v) /\ ClaimOf(v)' = ClaimOf(v) /\ ClaimOf(v) # a /\ ClaimOf(v) # None
             /\ NeverCrossedBoundary(ClaimOf(v))'
  <2>1. Begins(v) /\ ClaimOf(v)' = ClaimOf(v)
    BY <1>7, <1>8 DEF Begins, At, ClaimOf
  <2>2. ClaimOf(v) # None /\ NeverCrossedBoundary(ClaimOf(v))
    BY <2>1 DEF BeginningInv, BeginnersApart
  <2>3. ClaimOf(v) # a
    <3>1. attempt[ClaimOf(v)].packet = worker[v].packet /\ worker[v].packet \in Packets
      BY <2>2 DEF BindingInv, WorkerBound, ClaimOf, TypeOK, Process
    <3> QED
      BY <1>1, <3>1, NoneAssumption
  <2>4. ClaimOf(v) \in Attempts
    BY <2>2 DEF ClaimOf, TypeOK, Process, Review
  <2> QED
    BY <1>2, <2>1, <2>2, <2>3, <2>4 DEF NeverCrossedBoundary
<1>9. ClaimOf(w)' = a /\ a # None /\ NeverCrossedBoundary(a)'
  BY <1>4, <1>7, NoneAssumption DEF ClaimOf, NeverCrossedBoundary
<1>10. BeginnersApart'
  <2>1. ASSUME NEW v \in Workers, Begins(v)'
        PROVE  ClaimOf(v)' # None /\ NeverCrossedBoundary(ClaimOf(v))'
    BY <1>8, <1>9, <2>1 DEF NeverCrossedBoundary
  <2>2. ASSUME NEW u \in Workers, NEW v \in Workers, Begins(u)', Begins(v)',
               ClaimOf(u)' = ClaimOf(v)'
        PROVE  u = v
    <3>1. CASE u = w \/ v = w
      BY <1>8, <1>9, <2>2, <3>1
    <3>2. CASE u # w /\ v # w
      BY <1>8, <2>2, <3>2 DEF BeginningInv, BeginnersApart
    <3> QED
      BY <3>1, <3>2
  <2> QED
    BY <2>1, <2>2 DEF BeginnersApart
<1> QED
  BY <1>6, <1>10 DEF BeginningInv

LEMMA WorkerKeepsReceipts ==
  ASSUME Trusted, Outages = FALSE, TypeOK, FilingInv, RowsInv, ReceiptInv, BeginningInv,
         NEW w \in Workers, WorkerStep(w)
  PROVE  BeginningInv' /\ ReceiptsKept
<1> DEFINE a == ClaimOf(w)
           p == worker[w].packet
           snap == worker[w].snap
           stop == NotSent("typed_pre_click_stop")
           refused == NotSent("employer_rejected_not_filed")
           Goal == BeginningInv' /\ ReceiptsKept
<1>0. TypeOK /\ BindingInv /\ FilersBlock /\ BegunApart /\ BeginnersApart
  BY DEF FilingInv, BeginningInv
<1>a. /\ stop \in Fact /\ stop.kind = "not_sent_proven"
      /\ refused \in Fact /\ refused.kind = "not_sent_proven"
      /\ Confirmed \in Fact /\ Confirmed.kind = "submission_confirmed"
      /\ Pressed \in Fact /\ Pressed.kind = "press_observed"
  BY FactTypes DEF NotSent, Confirmed, Pressed
<1>b. /\ p \in Packets /\ snap \in Review /\ row[p] \in Review
      /\ a \in Attempts \cup {None} /\ a = snap.claim
  BY <1>0 DEF TypeOK, Process, Review, ClaimOf
<1>c. row[p].claim # None => /\ attempt[row[p].claim].packet = p /\ row[p].claim \in Attempts
                             /\ Blocking(ledger[row[p].claim])
  BY <1>b DEF RowsInv, ClaimIsOpen, Review
<1>d. /\ [row[p] EXCEPT !.status = "preparing", !.claim = None].receipt = row[p].receipt
      /\ \A b : [row[p] EXCEPT !.claim = b].receipt = row[p].receipt
      /\ \A u : ReleaseTo(row[p], u).receipt = row[p].receipt
      /\ MarkUnverified(row[p]).receipt = row[p].receipt
  BY <1>b, ReceiptsOfReviews
<1> HIDE DEF stop, refused
<1>1. ASSUME UNCHANGED <<now, ledger, attempt, provider, filed>>, Moves(w), ReceiptsKept
      PROVE  Goal
  <2>1. RecordsOutcomes
    BY <1>1 DEF RecordsOutcomes
  <2> QED
    BY <1>0, <1>1, <2>1, MovingBeginsNone, OutcomeBegins
<1>2. ASSUME NEW b \in Attempts, NEW fact \in Fact, MayRecord(b, fact),
             AppendFact(b, fact) \/ UNCHANGED ledger,
             UNCHANGED <<now, attempt, provider, filed>>, Moves(w), ReceiptsKept
      PROVE  Goal
  <2>1. RecordsOutcomes
    BY <1>0, <1>2, OutcomeRecorded
  <2> QED
    BY <1>0, <1>2, <2>1, MovingBeginsNone, OutcomeBegins
<1>3. CASE ClaimPreparation(w)
  <2>1. Moves(w)
    BY <1>3 DEF ClaimPreparation, Moves, Steps
  <2>2. ReceiptsKept
    BY <1>0, <1>3, <1>b, <1>d, WrittenKeeps DEF ClaimPreparation
  <2> QED
    BY <1>1, <1>3, <2>1, <2>2 DEF ClaimPreparation
<1>4. CASE Reload(w)
  <2>1. Moves(w) /\ ReceiptsKept
    BY <1>4 DEF Reload, Moves, Steps, ReceiptsKept
  <2> QED
    BY <1>1, <1>4, <2>1 DEF Reload
<1>5. ASSUME NEW s, PrepareParks(w, s) \/ HoldBeforeClaim(w, s) PROVE Goal
  <2>1. Moves(w)
    BY <1>5 DEF PrepareParks, HoldBeforeClaim, Moves, Steps
  <2>2. \E review : WriteReview(p, snap, review)
    BY <1>5 DEF PrepareParks, HoldBeforeClaim
  <2>3. ReceiptsKept
    BY <1>0, <1>b, <2>2, UnconfirmedKeeps
  <2> QED
    BY <1>1, <1>5, <2>1, <2>3 DEF PrepareParks, HoldBeforeClaim
<1>6. ASSUME NEW s, StopBeforeBoundary(w, s) PROVE Goal
  <2>1. a \in Attempts /\ attempt[a].packet = p
    BY <1>0, <1>6, WorkersAttempts DEF StopBeforeBoundary, At, BoundSteps
  <2>2. Moves(w) /\ UNCHANGED <<now, attempt, provider, filed>>
    BY <1>6 DEF StopBeforeBoundary, Moves
  <2>3. CASE UNCHANGED <<ledger, row>>
    BY <1>1, <2>2, <2>3 DEF ReceiptsKept
  <2>4. ASSUME row[p].claim = a, NeverCrossedBoundary(a),
               ~ Has(ledger[a], "submission_confirmed"),
               AppendFact(a, stop),
               row' = [row EXCEPT ![p] = [snap EXCEPT !.status = s, !.claim = None]]
        PROVE  Goal
    <3>1. Begun(a)
      BY <1>c, <2>1, <2>4, NoneAssumption DEF Begun
    <3>2. ~ row[p].receipt
      BY <1>0, <1>b, <2>1, <3>1, NothingBegunBesideReceipt
    <3>3. ReceiptsKept
      BY <1>0, <1>b, <2>4, <3>2, WrittenKeeps
    <3>4. MayRecord(a, stop)
      BY <1>a, <3>1 DEF MayRecord, Begun
    <3> QED
      BY <1>2, <1>a, <2>1, <2>2, <2>4, <3>3, <3>4
  <2> QED
    BY <1>6, <1>b, <2>3, <2>4 DEF StopBeforeBoundary, SameRunAndClaim, stop
<1>7. CASE \/ ThrowAfterBoundary(w) \/ ClaimLost(w) \/ CallRefused(w)
           \/ RecoverPending(w) \/ ReadReceipt(w)
  <2>1. Moves(w)
    BY <1>7 DEF ThrowAfterBoundary, ClaimLost, CallRefused, RecoverPending,
                ReadReceipt, Moves, Steps, Causes, ReleasingStops
  <2>2. UNCHANGED <<now, row, ledger, attempt, provider, filed>>
    BY <1>7 DEF ThrowAfterBoundary, ClaimLost, CallRefused, RecoverPending, ReadReceipt
  <2> QED
    BY <1>1, <2>1, <2>2 DEF ReceiptsKept
<1>8. CASE AuthorizeRefused(w)
  <2>1. UNCHANGED <<now, row, ledger, attempt, provider, filed>>
        /\ At(w, "claimed") /\ \E c : Throw(w, c)
    BY <1>8 DEF AuthorizeRefused
  <2>2. /\ worker'[w].snap = snap
        /\ \A v \in Workers \ {w} : worker'[v] = worker[v]
    BY <2>1 DEF Throw, TypeOK, Process
  <2>3. NoneBegins
    BY <1>b, <2>1, <2>2 DEF NoneBegins, Begins, At, ClaimOf
  <2>4. RecordsOutcomes
    BY <2>1 DEF RecordsOutcomes
  <2> QED
    BY <1>0, <2>1, <2>3, <2>4, OutcomeBegins DEF ReceiptsKept
<1>9. CASE NoSubmitControl(w) \/ \E accepted \in BOOLEAN : ClickFinalSubmit(w, accepted)
  BY <1>9 DEF NoSubmitControl, ClickFinalSubmit, Trusted
<1>10. ASSUME NEW b \in Attempts, ClaimSubmission(w, b) PROVE Goal
  <2>1. BeginningInv'
    BY <1>0, <1>10, ClaimBegins
  <2>2. row' = [row EXCEPT ![p] = [row[p] EXCEPT !.claim = b]]
    BY <1>10 DEF ClaimSubmission, MayClaim
  <2> QED
    BY <1>0, <1>b, <1>d, <2>1, <2>2, WrittenKeeps
<1>11. CASE Authorize(w)
  BY <1>0, <1>11, AuthorizeBegins DEF Authorize, ReceiptsKept
<1>12. CASE CallProvider(w)
  <2>1. /\ UNCHANGED <<now, row, ledger, attempt, filed>>
        /\ \A b \in Attempts : provider'[b].pressed = provider[b].pressed
    BY <1>0, <1>12 DEF CallProvider, TypeOK, ProviderRun
  <2>2. Moves(w)
    BY <1>12 DEF CallProvider, Moves, Steps
  <2>3. RecordsOutcomes /\ BindingsStay
    BY <2>1 DEF RecordsOutcomes, BindingsStay
  <2>a. /\ a \in Attempts /\ provider[a].phase = "none"
        /\ \A b \in Attempts \ {a} : provider'[b] = provider[b]
    BY <1>0, <1>12, CallersAttempts
       DEF CallProvider, At, FilingInv, CallersSound, ToBoundary, ClaimOf, TypeOK
  <2>4. \A b \in Attempts : FiledOrMayFile(b)' => FiledOrMayFile(b)
    BY <2>1, <2>a DEF FiledOrMayFile, MayFile, LeaseActive
  <2> QED
    BY <1>0, <2>1, <2>2, <2>3, <2>4, MovingBeginsNone, RecordingBegins DEF ReceiptsKept
<1>13. ASSUME NEW reported \in BOOLEAN,
              NEW s \in {"confirming", "refusing", "unverifying"},
              \/ CallLost(w, reported) \/ RecordPress(w)
              \/ ReceiveAnswer(w, s, reported) \/ RecoverResult(w, s, reported)
       PROVE  Goal
  <2>1. /\ UNCHANGED <<now, row, attempt, provider, filed>>
        /\ AppendFact(a, Pressed) \/ UNCHANGED ledger
    BY <1>13 DEF CallLost, RecordPress, ReceiveAnswer, RecoverResult, AppendPressOnce
  <2>2. a \in Attempts /\ Has(ledger[a], "boundary_authorized")
    BY <1>0, <1>13, WorkersAttempts
       DEF CallLost, RecordPress, ReceiveAnswer, RecoverResult, At, BoundSteps
  <2>3. Moves(w)
    BY <1>13 DEF CallLost, RecordPress, ReceiveAnswer, RecoverResult, Moves, Steps
  <2>4. MayRecord(a, Pressed)
    BY <1>a, <2>2 DEF MayRecord
  <2> QED
    BY <1>2, <1>a, <2>1, <2>2, <2>3, <2>4 DEF ReceiptsKept
<1>14. ASSUME NEW parked \in BOOLEAN, RecordConfirmed(w, parked) PROVE Goal
  <2>1. a \in Attempts
    BY <1>0, <1>14, WorkersAttempts DEF RecordConfirmed, At, BoundSteps
  <2>2. /\ AppendFact(a, Confirmed) \/ UNCHANGED ledger
        /\ Moves(w) /\ UNCHANGED <<now, attempt, provider, filed>>
    BY <1>14 DEF RecordConfirmed, AppendConfirmationOnce, Moves
  <2>3. ReceiptsKept
    <3>1. \E review : row' = [row EXCEPT ![p] = review] /\ review.receipt
      <4>1. \A u : MarkSubmitted(row[p], u).receipt
        BY <1>b DEF MarkSubmitted, Review
      <4>2. [row[p] EXCEPT !.status = "needs_attention", !.unv = "open", !.receipt = TRUE].receipt
        BY <1>b DEF Review
      <4> QED
        BY <1>14, <4>1, <4>2 DEF RecordConfirmed
    <3> QED
      BY <1>0, <1>b, <3>1, WrittenKeeps
  <2>4. MayRecord(a, Confirmed)
    BY <1>a DEF MayRecord
  <2> QED
    BY <1>2, <1>a, <2>1, <2>2, <2>3, <2>4
<1>15. CASE RecordRefused(w)
  <2>1. a \in Attempts
    BY <1>0, <1>15, WorkersAttempts DEF RecordRefused, At, BoundSteps
  <2>2. Moves(w) /\ UNCHANGED <<now, attempt, provider, filed>>
    BY <1>15 DEF RecordRefused, Moves
  <2>3. CASE UNCHANGED <<ledger, row>>
    BY <1>1, <2>2, <2>3 DEF ReceiptsKept
  <2>4. ASSUME row[p].claim = a, AppendFact(a, refused),
               row' = [row EXCEPT ![p] = ReleaseTo(row[p], "none")]
        PROVE  Goal
    <3>1. MayRecord(a, refused)
      BY <1>a, <1>c, <2>1, <2>4, NoneAssumption DEF MayRecord
    <3>2. ReceiptsKept
      BY <1>0, <1>b, <1>d, <2>4, WrittenKeeps
    <3> QED
      BY <1>2, <1>a, <2>1, <2>2, <2>4, <3>1, <3>2
  <2> QED
    BY <1>15, <1>b, <2>3, <2>4 DEF RecordRefused, StillOwns, SameRunAndClaim, refused
<1>16. CASE RecordUnverified(w)
  <2>1. row' = [row EXCEPT ![p] = MarkUnverified(row[p])] \/ UNCHANGED row
    BY <1>16 DEF RecordUnverified
  <2>2. ReceiptsKept
    BY <1>0, <1>b, <1>d, <2>1, WrittenKeeps
  <2> QED
    BY <1>1, <1>16, <2>2 DEF RecordUnverified, Moves
<1>17. CASE RecordFailure(w)
  <2> DEFINE cause == worker[w].cause
             review == FailureReview(row[p], cause, a # None /\ NeverCrossedBoundary(a))
             marked == MarkUnverified(row[p])
             proof == ReleasedClaimProof(cause,
                                         a # None /\ Has(ledger[a], "boundary_authorized"))
             closed == NotSent(proof)
  <2>a. closed \in Fact /\ closed.kind = "not_sent_proven"
    BY FactTypes DEF NotSent
  <2>1. Moves(w) /\ UNCHANGED <<now, attempt, provider, filed>> /\ At(w, "failing")
    BY <1>17 DEF RecordFailure, Moves
  <2>2. CASE UNCHANGED <<ledger, row>>
    BY <1>1, <2>1, <2>2 DEF ReceiptsKept
  <2>3. ASSUME MayRecordFailure(p, snap),
               \/ row' = [row EXCEPT ![p] = marked] \/ row' = [row EXCEPT ![p] = review],
               (a # None /\ AppendFact(a, closed)) \/ UNCHANGED ledger
        PROVE  Goal
    <3> HIDE DEF closed
    <3>1. a # None => /\ row[p].claim = a /\ a \in Attempts /\ attempt[a].packet = p
                      /\ Blocking(ledger[a]) /\ ~ Has(ledger[a], "submission_confirmed")
      BY <1>b, <1>c, <2>3 DEF MayRecordFailure, Unsettled
    <3>2. row[p].receipt => review.receipt
      <4>1. CASE cause \in ReleasingStops
        <5>1. a # None /\ NeverCrossedBoundary(a)
          BY <1>0, <2>1, <4>1 DEF BeginnersApart, Begins
        <5>2. Begun(a)
          BY <3>1, <5>1 DEF Begun
        <5> QED
          BY <1>0, <1>b, <3>1, <5>1, <5>2, NothingBegunBesideReceipt
      <4>2. CASE cause \notin ReleasingStops
        BY <1>b, <4>2 DEF FailureReview, Review
      <4> QED
        BY <4>1, <4>2
    <3>3. ReceiptsKept
      <4>1. row[p].receipt => marked.receipt
        BY <1>d
      <4> HIDE DEF review, marked
      <4> QED
        BY <1>0, <1>b, <2>3, <3>2, <4>1, WrittenKeeps
    <3>4. CASE UNCHANGED ledger
      BY <1>1, <2>1, <3>3, <3>4
    <3>5. CASE a # None /\ AppendFact(a, closed)
      <4>1. MayRecord(a, closed)
        BY <2>a, <3>1, <3>5 DEF MayRecord
      <4> QED
        BY <1>2, <2>a, <2>1, <3>1, <3>3, <3>5, <4>1
    <3> QED
      BY <2>3, <3>4, <3>5
  <2> QED
    BY <1>17, <1>b, <2>2, <2>3 DEF RecordFailure
<1>18. ASSUME NEW c, EarlyThrow(w, c) PROVE Goal
  <2>1. UNCHANGED <<now, row, ledger, attempt, provider, filed>>
    BY <1>18 DEF EarlyThrow, PrepareThrows, ThrowBeforeBoundary, CallStopped
  <2>2. c \notin ReleasingStops
    BY <1>18 DEF EarlyThrow, ReleasingStops, ProvenStops
  <2>3. Moves(w) /\ ReceiptsKept
    BY <1>18, <2>1, <2>2, EarlyCauses DEF Moves, ReceiptsKept
  <2> QED
    BY <1>1, <2>1, <2>3
<1> QED
  BY <1>3, <1>4, <1>5, <1>6, <1>7, <1>8, <1>9, <1>10, <1>11, <1>12, <1>13, <1>14,
     <1>15, <1>16, <1>17, <1>18 DEF WorkerStep, EarlyThrow

\* A submit-request or approve call about the packet ends in the step.
CallEnds(p) ==
  \E r \in Requests : /\ request[r].phase # "idle" /\ request[r].packet = p
                      /\ request'[r] = IdleCall

ReceiptsHeld == \A p \in Packets : row[p].receipt => row'[p].receipt \/ CallEnds(p)

LEMMA RestingBeginsNone == UNCHANGED worker => NoneBegins
BY DEF NoneBegins, Begins, At, ClaimOf

\* A step in which attempts, leases and the provider rest and a packet may be read.
LEMMA ReadingBegins ==
  ASSUME TypeOK, BindingInv, BeginningInv, NoneBegins,
         UNCHANGED <<now, ledger, attempt, provider, filed>>
  PROVE  BeginningInv'
<1>1. RecordsOutcomes
  BY DEF RecordsOutcomes
<1> QED
  BY <1>1, OutcomeBegins

LEMMA ProviderBegins ==
  ASSUME TypeOK, BindingInv, BeginningInv, ProviderStep
  PROVE  BeginningInv'
<1>1. PICK a \in Attempts :
        (\E accepted \in BOOLEAN : ProviderPress(a, accepted)) \/ ProviderEnds(a)
  BY DEF ProviderStep
<1>2. UNCHANGED <<now, row, ledger, attempt, worker>>
  BY <1>1 DEF ProviderPress, ProviderEnds
<1>3. \A b \in Attempts : FiledOrMayFile(b)' => FiledOrMayFile(b)
  <2>1. ASSUME NEW accepted \in BOOLEAN, ProviderPress(a, accepted)
        PROVE  \A b \in Attempts : FiledOrMayFile(b)' => FiledOrMayFile(b)
    <3>1. FiledOrMayFile(a)
      BY <2>1 DEF ProviderPress, BeforeDeadline, BindingInv, AttemptBound, FiledOrMayFile,
                  MayFile, LeaseActive
    <3>2. \A b \in Attempts \ {a} : provider'[b] = provider[b] /\ filed'[b] = filed[b]
      BY <2>1 DEF ProviderPress, TypeOK
    <3> QED
      BY <1>2, <3>1, <3>2 DEF FiledOrMayFile, MayFile, LeaseActive
  <2>2. CASE ProviderEnds(a)
    <3>1. /\ UNCHANGED filed
          /\ \A b \in Attempts :
               /\ provider'[b].pressed = provider[b].pressed
               /\ provider'[b].phase = provider[b].phase \/ provider'[b].phase = "ended"
      BY <2>2 DEF ProviderEnds, TypeOK, ProviderRun
    <3> QED
      BY <1>2, <3>1 DEF FiledOrMayFile, MayFile, LeaseActive
  <2> QED
    BY <1>1, <2>1, <2>2
<1>4. RecordsOutcomes /\ BindingsStay /\ NoneBegins
  BY <1>2, RestingBeginsNone DEF RecordsOutcomes, BindingsStay
<1> QED
  BY <1>3, <1>4, RecordingBegins

LEMMA RunnerKeepsReceipts ==
  ASSUME Trusted, Outages = FALSE, TypeOK, FilingInv, RowsInv, ReceiptInv, BeginningInv, RunnerNext
  PROVE  BeginningInv' /\ ReceiptsKept
<1>0. BindingInv
  BY DEF FilingInv
<1>1. ASSUME NEW p \in Packets, CronSelects(p) PROVE BeginningInv' /\ ReceiptsKept
  BY <1>0, <1>1, RestingBeginsNone, ReadingBegins DEF CronSelects, ReceiptsKept
<1>2. ASSUME NEW w \in Workers, NEW p \in Packets, LoadPacket(w, p)
      PROVE  BeginningInv' /\ ReceiptsKept
  <2>1. \A v \in Workers :
          worker'[v] = worker[v] \/ worker'[v].pc \in {"recovering", "loaded"}
    BY <1>2 DEF LoadPacket, FirstStep, TypeOK
  <2>2. NoneBegins
    BY <2>1 DEF NoneBegins, Begins, At, ClaimOf
  <2> QED
    BY <1>0, <1>2, <2>2, ReadingBegins DEF LoadPacket, ReceiptsKept
<1>3. ASSUME NEW w \in Workers, WorkerCrash(w) PROVE BeginningInv' /\ ReceiptsKept
  <2>1. NoneBegins
    BY <1>3, MovingBeginsNone DEF WorkerCrash, Moves
  <2> QED
    BY <1>0, <1>3, <2>1, ReadingBegins DEF WorkerCrash, ReceiptsKept
<1>4. CASE ProviderStep
  BY <1>0, <1>4, ProviderBegins
     DEF ProviderStep, ProviderPress, ProviderEnds, ReceiptsKept
<1> QED
  BY <1>1, <1>2, <1>3, <1>4, WorkerKeepsReceipts DEF RunnerNext

LEMMA ApplicantKeepsReceipts ==
  ASSUME TypeOK, BindingInv, BeginningInv, ApplicantNext
  PROVE  BeginningInv' /\ ReceiptsHeld
<1> DEFINE checked == NotSent("applicant_checked_not_sent")
           stop == NotSent("typed_pre_click_stop")
<1>a. UNCHANGED <<now, attempt, provider, filed>> /\ NoneBegins
  BY RestingBeginsNone
     DEF ApplicantNext, RequestRead, RequestVerdict, RequestRefused, SubmitRequest,
         Approve, AnswerNotThere, AnswerFound, AnswerPacketNotThere,
         AnswerPacketFound, RepairOnLoad, RepairParked, CloseAbandoned
<1>b. /\ checked \in Fact /\ checked.kind = "not_sent_proven"
      /\ stop \in Fact /\ stop.kind = "not_sent_proven"
      /\ Confirmed \in Fact /\ Confirmed.kind = "submission_confirmed"
  BY FactTypes DEF NotSent, Confirmed
<1>c. \A p \in Packets : row[p] \in Review
  BY DEF TypeOK
<1> HIDE DEF checked, stop
<1>1. ASSUME NEW a \in Attempts, NEW fact \in Fact, MayRecord(a, fact),
             AppendFact(a, fact) \/ UNCHANGED ledger, ReceiptsKept
      PROVE  BeginningInv' /\ ReceiptsHeld
  <2>1. RecordsOutcomes
    BY <1>1, OutcomeRecorded
  <2> QED
    BY <1>1, <1>a, <2>1, OutcomeBegins DEF ReceiptsKept, ReceiptsHeld
<1>2. ASSUME NEW r \in Requests,
             \/ \E p \in Packets : \E kind \in {"submit", "approve"} :
                  RequestRead(r, p, kind)
             \/ RequestVerdict(r) \/ RequestRefused(r) \/ SubmitRequest(r) \/ Approve(r)
      PROVE  BeginningInv' /\ ReceiptsHeld
  <2>1. BeginningInv'
    BY <1>2, <1>a, ReadingBegins
       DEF RequestRead, RequestVerdict, RequestRefused, SubmitRequest, Approve
  <2>2. CASE UNCHANGED row
    BY <2>1, <2>2 DEF ReceiptsHeld
  <2>3. CASE RequestRefused(r) \/ SubmitRequest(r) \/ Approve(r)
    <3>1. /\ request[r].phase # "idle" /\ request'[r] = IdleCall
          /\ \A p \in Packets \ {request[r].packet} : row'[p] = row[p]
      BY <2>3 DEF RequestRefused, SubmitRequest, Approve, TypeOK
    <3> QED
      BY <2>1, <3>1 DEF ReceiptsHeld, CallEnds
  <2> QED
    BY <1>2, <2>2, <2>3 DEF RequestRead, RequestVerdict
<1>3. ASSUME NEW p \in Packets, AnswerNotThere(p) \/ RepairOnLoad(p)
      PROVE  BeginningInv' /\ ReceiptsHeld
  <2>1. row[p].claim \in Attempts /\ Blocking(ledger[row[p].claim])
    BY <1>3, ClaimedAttempts, UnsentBlocks
       DEF AnswerNotThere, RepairOnLoad, AsksAboutClaim
  <2>2. \E fact \in {checked, stop} : AppendFact(row[p].claim, fact)
    BY <1>3 DEF AnswerNotThere, RepairOnLoad, checked, stop
  <2>3. PICK u : row' = [row EXCEPT ![p] = ReleaseTo(row[p], u)]
    BY <1>3 DEF AnswerNotThere, RepairOnLoad
  <2>4. ReceiptsKept
    BY <1>c, <2>3, ReceiptsOfReviews, WrittenKeeps
  <2> QED
    BY <1>1, <1>b, <2>1, <2>2, <2>4 DEF MayRecord
<1>4. ASSUME NEW p \in Packets,
             AnswerFound(p) \/ AnswerPacketFound(p) \/ RepairParked(p)
      PROVE  BeginningInv' /\ ReceiptsHeld
  <2>1. row' = [row EXCEPT ![p] = MarkSubmitted(row[p], "sent")]
    BY <1>4 DEF AnswerFound, AnswerPacketFound, RepairParked
  <2>2. MarkSubmitted(row[p], "sent").receipt
    BY <1>c DEF MarkSubmitted, Review
  <2>3. ReceiptsKept
    BY <2>1, <2>2, WrittenKeeps
  <2>4. \E a \in Attempts : AppendFact(a, Confirmed) \/ UNCHANGED ledger
    BY <1>4, ClaimedAttempts
       DEF AnswerFound, AsksAboutClaim, AnswerPacketFound, AttemptsOf, RepairParked
  <2> QED
    BY <1>1, <1>b, <2>3, <2>4 DEF MayRecord
<1>5. ASSUME NEW p \in Packets, AnswerPacketNotThere(p)
      PROVE  BeginningInv' /\ ReceiptsHeld
  <2>1. \A a \in Attempts :
          \/ ledger'[a] = ledger[a]
          \/ ledger'[a] = Append(ledger[a], checked) /\ Blocking(ledger[a])
    BY <1>5, UnsentBlocks DEF AnswerPacketNotThere, checked
  <2>2. RecordsOutcomes
    BY <1>b, <2>1 DEF RecordsOutcomes, MayRecord
  <2>3. row' = [row EXCEPT ![p] = ReleaseTo(row[p], "not_sent")]
    BY <1>5 DEF AnswerPacketNotThere
  <2>4. ReceiptsKept
    BY <1>c, <2>3, ReceiptsOfReviews, WrittenKeeps
  <2> QED
    BY <1>a, <2>2, <2>4, OutcomeBegins DEF ReceiptsKept, ReceiptsHeld
<1>6. ASSUME NEW a \in Attempts, CloseAbandoned(a) PROVE BeginningInv' /\ ReceiptsHeld
  <2>1. AppendFact(a, stop) /\ UNCHANGED row /\ Blocking(ledger[a])
    BY <1>6, UnsentBlocks DEF CloseAbandoned, stop
  <2> QED
    BY <1>1, <1>b, <2>1 DEF MayRecord, ReceiptsKept
<1> QED
  BY <1>2, <1>3, <1>4, <1>5, <1>6 DEF ApplicantNext

LEMMA EvidenceKeepsReceipts ==
  ASSUME TypeOK, BindingInv, BeginningInv, EvidenceNext
  PROVE  BeginningInv' /\ ReceiptsKept
<1>1. PICK p \in Packets : MailConfirms(p) \/ StoredResponseConfirms(p)
  BY DEF EvidenceNext
<1>2. UNCHANGED <<now, attempt, provider, filed>> /\ NoneBegins
  BY <1>1, RestingBeginsNone DEF MailConfirms, StoredResponseConfirms
<1>3. PICK a \in Attempts : AppendFact(a, Confirmed)
  BY <1>1, ClaimedAttempts DEF MailConfirms, StoredResponseConfirms
<1>4. RecordsOutcomes
  BY <1>3, FactTypes, OutcomeRecorded DEF Confirmed, MayRecord
<1>5. PICK u : row' = [row EXCEPT ![p] = MarkSubmitted(row[p], u)]
  BY <1>1 DEF MailConfirms, StoredResponseConfirms
<1>6. MarkSubmitted(row[p], u).receipt
  BY DEF MarkSubmitted, Review, TypeOK
<1> QED
  BY <1>2, <1>4, <1>5, <1>6, OutcomeBegins, WrittenKeeps

LEMMA NextKeepsReceipts ==
  ASSUME Trusted, Outages = FALSE, TypeOK, FilingInv, RowsInv, ReceiptInv, BeginningInv, [Next]_vars
  PROVE  BeginningInv' /\ ReceiptsHeld
<1>0. BindingInv
  BY DEF FilingInv
<1>1. ReceiptsKept => ReceiptsHeld
  BY DEF ReceiptsKept, ReceiptsHeld
<1>2. CASE ApplicantNext
  BY <1>0, <1>2, ApplicantKeepsReceipts
<1>3. CASE EvidenceNext
  BY <1>0, <1>1, <1>3, EvidenceKeepsReceipts
<1>4. CASE RunnerNext
  BY <1>1, <1>4, RunnerKeepsReceipts
<1>5. CASE Tick
  <2>1. /\ UNCHANGED <<row, ledger, attempt, worker, provider, filed>>
        /\ now \in Nat /\ now' = now + 1
    BY <1>5, BoundsAssumption DEF Tick, TypeOK
  <2>2. ASSUME NEW a \in Attempts, FiledOrMayFile(a)' PROVE FiledOrMayFile(a)
    <3>1. attempt[a].lease \in Nat
      BY DEF TypeOK, Binding
    <3> QED
      BY <2>1, <2>2, <3>1 DEF FiledOrMayFile, MayFile, LeaseActive
  <2>3. RecordsOutcomes /\ BindingsStay /\ NoneBegins
    BY <2>1, RestingBeginsNone DEF RecordsOutcomes, BindingsStay
  <2> QED
    BY <1>0, <2>1, <2>2, <2>3, RecordingBegins DEF ReceiptsHeld
<1>6. CASE UNCHANGED vars
  BY <1>0, <1>6, RestingBeginsNone, ReadingBegins DEF vars, ReceiptsHeld
<1> QED
  BY <1>2, <1>3, <1>4, <1>5, <1>6 DEF Next

-----------------------------------------------------------------------------
(* A receipt stays on its row: the theorems *)

LEMMA InitBeginning == Init => BeginningInv
<1> SUFFICES ASSUME Init PROVE BeginningInv
  OBVIOUS
<1>1. \A a \in Attempts : ~ Begun(a)
  BY DEF Init, Begun, Blocking, RetrySafety
<1>2. \A w \in Workers : ~ Begins(w)
  BY DEF Init, Begins, At, IdleProcess
<1> QED
  BY <1>1, <1>2 DEF BeginningInv, BegunApart, BeginnersApart

ReceiptsLeaveByCalls == [][ReceiptsHeld]_vars

\* Only a submit-request or an approve call ends the showing of a receipt, by writing
\* over the row the review it read before the confirmation (refuseDuplicateApplication,
\* freshSubmitRequestReview): no failure, stop, hold, repair or answer of the runner, the
\* applicant or the employer does, as long as the provider's configuration is there.
THEOREM ReceiptsLeaveOnlyByCalls ==
  ASSUME Trusted, Outages = FALSE
  PROVE  Spec => ReceiptsLeaveByCalls
<1>1. Init => ReceiptInv /\ BeginningInv
  BY InitPromise, InitBeginning
<1>2. TypeOK /\ FilingInv /\ RowsInv /\ ReceiptInv /\ BeginningInv /\ [Next]_vars
        => ReceiptInv' /\ BeginningInv' /\ [ReceiptsHeld]_vars
  BY NextPromise, NextKeepsReceipts
<1>3. Spec => [](TypeOK /\ FilingInv) /\ []RowsInv
  BY FilingHolds, RowsHold, PTL
<1> QED
  BY <1>1, <1>2, <1>3, PTL DEF Spec, ReceiptsLeaveByCalls

\* A receipt, once shown, stays shown while no such call is made.
THEOREM ReceiptsStay ==
  ASSUME Trusted, Outages = FALSE, Requests = {}
  PROVE  Spec => ConfirmedStaysShown
<1>1. ReceiptsHeld => \A p \in Packets : row[p].receipt => row'[p].receipt
  BY DEF ReceiptsHeld, CallEnds
<1>2. Spec => [][ReceiptsHeld]_vars
  BY ReceiptsLeaveOnlyByCalls DEF ReceiptsLeaveByCalls
<1> QED
  BY <1>1, <1>2, PTL DEF ConfirmedStaysShown

=============================================================================
