-------------------------- MODULE PayoutMoneyProofs --------------------------
(***************************************************************************)
(* Proofs about the money of payouts: the books of the source account, the *)
(* daily limit, what really left, and the contract of PayoutContract.      *)
(***************************************************************************)
EXTENDS PayoutOutcomeProofs, SumLemmas

USE DEF Idle

-----------------------------------------------------------------------------
(* The books.                                                              *)

\* Requesting reserves, and nothing else does.  What was imported is reserved.
ReservedOK(p) == "reserve" \in journal[p] <=> ticket[p].approval # "NONE"

ReservedInv == \A p \in NewPayouts : ReservedOK(p)

\* A reservation that is open ends with an outcome.
EndsReservation(p, outcome) ==
  /\ p \in Held
  /\ account.reserved >= Amount[p]
  /\ journal' = [journal EXCEPT ![p] = journal[p] \union Posted(outcome)]
  /\ account' = AccountAfter(outcome, Amount[p])

\* What a step can do to the ledger and the projection.
LedgerStep ==
  \/ UNCHANGED <<journal, account>>
  \/ \E p \in Payouts : Request(p)
  \/ \E p \in Payouts, outcome \in Terminal : EndsReservation(p, outcome)

LEMMA PostOutcomeLedger ==
  ASSUME TypeOK, NEW p \in Payouts, NEW outcome, PostOutcome(p, outcome),
         "reserve" \in journal[p],
         outcome \in Terminal =>
           journal[p] \intersect {"paid", "release"} \subseteq Posted(outcome)
  PROVE  \/ UNCHANGED <<journal, account>>
         \/ \E o \in Terminal : EndsReservation(p, o)
<1>1. CASE UNCHANGED <<journal, account>>
  BY <1>1
<1>2. CASE ~UNCHANGED <<journal, account>>
  <2>1. /\ outcome \in Terminal
        /\ (IF outcome = "PAID" THEN "paid" ELSE "release") \notin journal[p]
    BY <1>2 DEF PostOutcome
  <2>2. journal[p] \intersect {"paid", "release"} = {}
    BY <2>1 DEF Posted, Terminal
  <2>3. p \in Held
    BY <2>2 DEF Held
  <2> QED
    BY <1>2, <2>1, <2>3 DEF PostOutcome, EndsReservation, Posted, Terminal
<1> QED
  BY <1>1, <1>2

\* An outcome PayOS agrees with ends an imported reservation at most once.
LEMMA ImportedLedger ==
  ASSUME TypeOK, NEW p \in Payouts, ImportedOK(p), NEW outcome, PostOutcome(p, outcome),
         outcome = "PAID" => payos[p] = "SUCCEEDED",
         outcome = "FAILED" => payos[p] \in {"ABSENT", "FAILED"}
  PROVE  LedgerStep
<1>1. /\ "reserve" \in journal[p]
      /\ outcome \in Terminal =>
           journal[p] \intersect {"paid", "release"} \subseteq Posted(outcome)
  BY DEF ImportedOK, Terminal, Posted
<1> QED
  BY <1>1, PostOutcomeLedger DEF LedgerStep

LEMMA FinalizeLedger ==
  ASSUME TypeOK, NEW p \in Payouts, OutcomeOK(p), ReservedOK(p),
         NEW outcome, NEW actor, Finalize(p, outcome, actor), ticket[p].approval = "APPROVED"
  PROVE  LedgerStep
<1>1. CASE Settled(p)
  BY <1>1 DEF Finalize, tables, LedgerStep
<1>2. CASE ~Settled(p)
  <2>1. /\ "reserve" \in journal[p]
        /\ journal[p] \intersect {"paid", "release"} \subseteq Posted(outcome)
    BY <1>2 DEF OutcomeOK, ReservedOK, Settled, Terminal
  <2> QED
    BY <1>2, <2>1, PostOutcomeLedger DEF Finalize, LedgerStep
<1> QED
  BY <1>1, <1>2

LEMMA LedgerSteps ==
  ASSUME TypeOK, ImportedInv, OutcomeInv, ReservedInv, [Next]_vars
  PROVE  LedgerStep
<1>1. ASSUME UNCHANGED <<journal, account>>
      PROVE  LedgerStep
  BY <1>1 DEF LedgerStep
<1>2. CASE UNCHANGED vars
  BY <1>1, <1>2 DEF vars, tables
<1>3. ASSUME NEW p \in Payouts, DecideNext(p)
      PROVE  LedgerStep
  <2>1. ASSUME NEW d, Withdraw(p, d)
        PROVE  LedgerStep
    <3>1. OutcomeOK(p) /\ ReservedOK(p)
      BY <2>1 DEF Withdraw, ImportedInv, ImportedOK, NewPayouts, OutcomeInv, ReservedInv
    <3>2. "reserve" \in journal[p] /\ journal[p] \intersect {"paid", "release"} = {}
      BY <2>1, <3>1 DEF Withdraw, OutcomeOK, ReservedOK
    <3> QED
      BY <2>1, <3>2, PostOutcomeLedger DEF Withdraw, LedgerStep
  <2>2. ASSUME NEW d \in LegacyDecisions, NEW r \in BOOLEAN, ResolveLegacy(p, d, r)
        PROVE  LedgerStep
    <3>1. ImportedOK(p)
      BY <2>2 DEF ResolveLegacy, ImportedInv, NewPayouts, OutcomeInv, OutcomeOK
    <3>2. /\ LegacyOutcome(d) = "PAID" => payos[p] = "SUCCEEDED"
          /\ LegacyOutcome(d) = "FAILED" => payos[p] \in {"ABSENT", "FAILED"}
      BY <2>2 DEF ResolveLegacy, TruthfulDecision, LegacyOutcome, LegacySettlement
    <3> QED
      BY <2>2, <3>1, <3>2, ImportedLedger DEF ResolveLegacy
  <2>3. ASSUME NEW a \in Actors, NEW m \in Methods, Approve(a, p, m)
        PROVE  LedgerStep
    BY <1>1, <2>3 DEF Approve
  <2> QED
    BY <1>3, <2>1, <2>2, <2>3 DEF DecideNext, Reject, Cancel, LedgerStep
<1>4. ASSUME NEW p \in Payouts, ExecuteNext(p)
      PROVE  LedgerStep
  <2>1. CASE FinalizeSubmit(p) \/ FinalizeUncertain(p)
    <3>1. OutcomeOK(p) /\ ReservedOK(p)
      BY <1>4, ImportedIsNotExecuted DEF OutcomeInv, ReservedInv
    <3>2. ticket[p].approval = "APPROVED"
      BY <2>1, <3>1 DEF FinalizeSubmit, FinalizeUncertain, OutcomeOK, Busy
    <3> QED
      BY <2>1, <3>1, <3>2, FinalizeLedger DEF FinalizeSubmit, FinalizeUncertain
  <2> QED
    BY <1>1, <1>4, <2>1
    DEF ExecuteNext, ClaimExecution, SendSubmit, ReceiveAnswer, FailSubmit, ScheduleFirst,
        ExecutorStops, tables
<1>5. ASSUME NEW w \in Reconcilers, ReconcileNext(w)
      PROVE  LedgerStep
  <2>1. CASE FinalizeReconcile(w)
    <3>1. PICK p \in Payouts : p = reconciler[w].payout
      <4>1. reconciler[w] \in ReconcilerStates
        BY DEF TypeOK
      <4> QED
        BY <2>1, <4>1 DEF FinalizeReconcile, ReconcilerStates
    <3>2. Finalize(p, reconciler[w].answer, NoActor) /\ JobOn(w, p)
      BY <2>1, <3>1 DEF FinalizeReconcile, JobOn
    <3>3. CASE p \in Legacy
      <4>1. ImportedOK(p) /\ Told(p, reconciler[w].answer)
        BY <2>1, <3>2, <3>3 DEF ImportedInv, ImportedOK, FinalizeReconcile
      <4> QED
        BY <1>1, <3>2, <4>1, ImportedLedger DEF Finalize, tables, Told
    <3>4. CASE p \in NewPayouts
      <4>1. OutcomeOK(p) /\ ReservedOK(p)
        BY <3>4 DEF OutcomeInv, ReservedInv
      <4>2. ticket[p].approval = "APPROVED"
        BY <3>2, <4>1 DEF OutcomeOK, Busy, JobOn
      <4> QED
        BY <3>2, <4>1, <4>2, FinalizeLedger
    <3> QED
      BY <3>3, <3>4 DEF NewPayouts
  <2> QED
    BY <1>1, <1>5, <2>1
    DEF ReconcileNext, RequestReconciliation, DeliverJob, Prepare, QueryPayos, ScheduleNext,
        ReconcilerStops, tables
<1>6. ASSUME NEW a \in Actors, DeskNext(a)
      PROVE  LedgerStep
  <2>1. CASE DeskFinalize(a)
    <3>1. PICK p \in NewPayouts : p = desk[a].payout
      BY <2>1, ImportedIsNotOnADesk DEF DeskFinalize
    <3>2. p \in Payouts /\ OutcomeOK(p) /\ ReservedOK(p)
      BY DEF NewPayouts, OutcomeInv, ReservedInv
    <3>3. ticket[p].approval = "APPROVED"
      BY <2>1, <3>1, <3>2 DEF DeskFinalize, OutcomeOK, Busy
    <3> QED
      BY <2>1, <3>1, <3>2, <3>3, FinalizeLedger DEF DeskFinalize
  <2> QED
    BY <1>1, <1>6, <2>1 DEF DeskNext, DeskRead, DeskStart, DeskStops, tables
<1>7. ASSUME \/ SweepNext
             \/ \E p \in Payouts : OutsideNext(p)
             \/ \E p \in Payouts, n \in Sequences : DropMessage(p, n)
      PROVE  LedgerStep
  BY <1>1, <1>7
  DEF SweepNext, SweepRead, SweepFlag, SweepSchedule, SweepStops, OutsideNext, PayosAccepts,
      RequestLost, PayosMoves, TransferByHand, DropMessage, tables
<1> QED
  BY <1>2, <1>3, <1>4, <1>5, <1>6, <1>7 DEF Next

LEMMA ReservedStep ==
  ASSUME TypeOK, ImportedInv, OutcomeInv, ReservedInv, [Next]_vars
  PROVE  ReservedInv'
<1> SUFFICES ASSUME NEW q \in NewPayouts PROVE ReservedOK(q)'
  BY DEF ReservedInv
<1>1. /\ ticket \in [Payouts -> Ticket] /\ ticket[q] \in Ticket
      /\ journal \in [Payouts -> SUBSET Entries]
      /\ q \in Payouts /\ OutcomeOK(q) /\ ReservedOK(q)
  BY DEF TypeOK, Entries, NewPayouts, OutcomeInv, ReservedInv
<1>2. CASE \E p \in Payouts : Request(p)
  <2>1. PICK p \in Payouts : Request(p)
    BY <1>2
  <2>2. CASE q = p
    <3>1. ticket'[p].approval = "PENDING" /\ "reserve" \in journal'[p]
      BY <1>1, <2>1, <2>2 DEF Request, Ticket
    <3> QED
      BY <2>2, <3>1 DEF ReservedOK
  <2>3. CASE q # p
    BY <1>1, <2>1, <2>3 DEF Request, ReservedOK
  <2> QED
    BY <2>2, <2>3
<1>3. CASE ~\E p \in Payouts : Request(p)
  <2>1. "reserve" \in journal'[q] <=> "reserve" \in journal[q]
    <3>1. LedgerStep
      BY LedgerSteps
    <3>2. ASSUME NEW p \in Payouts, NEW o \in Terminal, EndsReservation(p, o)
          PROVE  "reserve" \in journal'[q] <=> "reserve" \in journal[q]
      BY <1>1, <3>2 DEF EndsReservation, Posted
    <3> QED
      BY <1>3, <3>1, <3>2 DEF LedgerStep
  <2>2. ticket'[q].approval = "NONE" <=> ticket[q].approval = "NONE"
    <3>1. CASE UNCHANGED vars
      BY <3>1 DEF vars, tables
    <3>2. ASSUME NEW p \in Payouts, DecideNext(p)
          PROVE  ticket'[q].approval = "NONE" <=> ticket[q].approval = "NONE"
      <4>1. CASE q # p
        BY <1>1, <3>2, <4>1, DecideOthers
      <4>2. ASSUME NEW a \in Actors, NEW m \in Methods, Approve(a, p, m), q = p
            PROVE  ticket'[q].approval # "NONE" /\ ticket[q].approval # "NONE"
        <5>1. ticket[p].approval # "NONE"
          BY <4>2 DEF Approve, CanTransitionApproval, ApprovalTransitions
        <5> QED
          BY <1>1, <4>2, <5>1 DEF Approve, Ticket
      <4>3. ASSUME NEW d \in {"REJECTED", "CANCELLED"}, Withdraw(p, d), q = p
            PROVE  ticket'[q].approval # "NONE" /\ ticket[q].approval # "NONE"
        BY <1>1, <4>3 DEF Withdraw, Ticket
      <4>4. q = p => ~\E d \in LegacyDecisions, r \in BOOLEAN : ResolveLegacy(p, d, r)
        BY <1>1 DEF OutcomeOK, ResolveLegacy
      <4> QED
        BY <1>3, <3>2, <4>1, <4>2, <4>3, <4>4 DEF DecideNext, Reject, Cancel
    <3>3. CASE Next /\ ~\E p \in Payouts : DecideNext(p)
      BY <3>3, OtherwiseSteady DEF Steady
    <3> QED
      BY <3>1, <3>2, <3>3
  <2> QED
    BY <1>1, <2>1, <2>2 DEF ReservedOK
<1> QED
  BY <1>2, <1>3

LEMMA ReservedInvariant == Spec => []ReservedInv
<1>1. Init => ReservedInv
  <2> SUFFICES ASSUME Init, NEW p \in NewPayouts PROVE ReservedOK(p)
    BY DEF ReservedInv
  <2>1. ticket[p] = NoTicket /\ journal[p] = {}
    BY DEF Init, NewPayouts
  <2> QED
    BY <2>1 DEF ReservedOK, NoTicket
<1>2. TypeOK /\ ImportedInv /\ OutcomeInv /\ ReservedInv /\ [Next]_vars => ReservedInv'
  BY ReservedStep
<1> QED
  BY <1>1, <1>2, TypeCorrect, ImportedInvariant, OutcomesInvariant, PTL DEF Spec

LEMMA AmountsInt ==
  ASSUME NEW S \in SUBSET Payouts
  PROVE  SumAmounts(S) \in Int
<1>1. IsFiniteSet(S) /\ \A x \in S : Amount[x] \in Int
  BY PayoutsAssumption, LimitsAssumption, FS_Subset
<1>2. SumAmounts(S) = Total(Amount, S)
  BY DEF SumAmounts, Total
<1> QED
  BY <1>1, <1>2, TotalInt

LEMMA AmountsRemove ==
  ASSUME NEW S \in SUBSET Payouts, NEW p \in S
  PROVE  SumAmounts(S) = Amount[p] + SumAmounts(S \ {p})
<1>1. IsFiniteSet(S) /\ \A x \in S : Amount[x] \in Int
  BY PayoutsAssumption, LimitsAssumption, FS_Subset
<1>2. \A T : SumAmounts(T) = Total(Amount, T)
  BY DEF SumAmounts, Total
<1> QED
  BY <1>1, <1>2, TotalRemove

LEMMA AmountsAdd ==
  ASSUME NEW S \in SUBSET Payouts, NEW p \in Payouts \ S
  PROVE  SumAmounts(S \union {p}) = Amount[p] + SumAmounts(S)
<1>1. PICK T \in SUBSET Payouts : T = S \union {p} /\ T \ {p} = S
  OBVIOUS
<1> QED
  BY <1>1, AmountsRemove

\* Nothing was posted for what is requested.
LEMMA RequestIsNew ==
  ASSUME TypeOK, ImportedInv, OutcomeInv, ReservedInv, NEW p \in Payouts, Request(p)
  PROVE  p \in NewPayouts /\ journal[p] = {}
<1>1. p \in NewPayouts
  BY DEF Request, ImportedInv, ImportedOK, NewPayouts
<1>2. OutcomeOK(p) /\ ReservedOK(p) /\ ticket[p].approval = "NONE"
  BY <1>1 DEF Request, OutcomeInv, ReservedInv
<1>3. "reserve" \notin journal[p] /\ "paid" \notin journal[p] /\ "release" \notin journal[p]
  BY <1>2 DEF OutcomeOK, ReservedOK
<1> QED
  BY <1>1, <1>3 DEF TypeOK

\* What requesting and ending a reservation do to the two sets of payouts.
LEMMA RequestSets ==
  ASSUME TypeOK, ImportedInv, OutcomeInv, ReservedInv, NEW p \in Payouts, Request(p)
  PROVE  p \notin Held /\ p \notin Spent /\ Held' = Held \union {p} /\ Spent' = Spent
<1>1. journal \in [Payouts -> SUBSET Entries] /\ journal[p] = {}
  BY RequestIsNew DEF TypeOK, Entries
<1>2. journal' = [journal EXCEPT ![p] = journal[p] \union {"reserve"}]
  BY <1>1 DEF Request
<1> QED
  BY <1>1, <1>2 DEF Held, Spent

LEMMA EndSets ==
  ASSUME TypeOK, NEW p \in Payouts, NEW o \in Terminal, EndsReservation(p, o)
  PROVE  /\ p \in Held /\ p \notin Spent
         /\ Held' = Held \ {p}
         /\ Spent' = IF o = "PAID" THEN Spent \union {p} ELSE Spent
<1>1. journal \in [Payouts -> SUBSET Entries]
  BY DEF TypeOK, Entries
<1>2. journal' = [journal EXCEPT ![p] = journal[p] \union Posted(o)]
  BY DEF EndsReservation
<1>3. p \in Held /\ p \notin Spent
  BY DEF EndsReservation, Held, Spent
<1>4. CASE o = "PAID"
  BY <1>1, <1>2, <1>3, <1>4 DEF Held, Spent, Posted
<1>5. CASE o = "FAILED"
  BY <1>1, <1>2, <1>3, <1>5 DEF Held, Spent, Posted
<1> QED
  BY <1>4, <1>5 DEF Terminal

LEMMA BooksStep ==
  ASSUME TypeOK, ImportedInv, OutcomeInv, ReservedInv, BooksAgree, [Next]_vars
  PROVE  BooksAgree'
<1>1. LedgerStep
  BY LedgerSteps
<1>2. /\ Held \in SUBSET Payouts /\ Spent \in SUBSET Payouts
      /\ \A S \in SUBSET Payouts : SumAmounts(S) \in Int
      /\ InitialBalance \in Int /\ \A p \in Payouts : Amount[p] \in Int
  BY AmountsInt, LimitsAssumption DEF Held, Spent
<1> DEFINE a == InitialBalance  h == SumAmounts(Held)  s == SumAmounts(Spent)
<1>3. account = [available |-> a - h - s, reserved |-> h, paid |-> s]
  BY DEF BooksAgree, Books
<1>4. CASE UNCHANGED <<journal, account>>
  BY <1>4 DEF BooksAgree, Books, Held, Spent
<1>5. ASSUME NEW p \in Payouts, Request(p)
      PROVE  BooksAgree'
  <2>1. account' = [available |-> a - h - s - Amount[p], reserved |-> h + Amount[p], paid |-> s]
    BY <1>3, <1>5 DEF Request
  <2>2. Held' = Held \union {p} /\ Spent' = Spent /\ p \notin Held
    BY <1>5, RequestSets
  <2>3. SumAmounts(Held') = Amount[p] + h /\ SumAmounts(Spent') = s
    BY <1>2, <2>2, AmountsAdd
  <2>4. Books' = [available |-> a - SumAmounts(Held') - SumAmounts(Spent'),
                  reserved |-> SumAmounts(Held'), paid |-> SumAmounts(Spent')]
    BY DEF Books
  <2> HIDE DEF a, h, s
  <2>5. a \in Int /\ h \in Int /\ s \in Int /\ Amount[p] \in Int
    BY <1>2 DEF a, h, s
  <2> QED
    BY <2>1, <2>3, <2>4, <2>5 DEF BooksAgree
<1>6. ASSUME NEW p \in Payouts, NEW o \in Terminal, EndsReservation(p, o)
      PROVE  BooksAgree'
  <2>1. account' = IF o = "PAID"
                   THEN [available |-> a - h - s, reserved |-> h - Amount[p],
                         paid |-> s + Amount[p]]
                   ELSE [available |-> a - h - s + Amount[p], reserved |-> h - Amount[p],
                         paid |-> s]
    <3>1. account' = AccountAfter(o, Amount[p])
      BY <1>6 DEF EndsReservation
    <3>2. CASE o = "PAID"
      <4>1. account' = [account EXCEPT !.reserved = account.reserved - Amount[p],
                                       !.paid = account.paid + Amount[p]]
        BY <3>1, <3>2 DEF AccountAfter
      <4>2. account' = [available |-> a - h - s, reserved |-> h - Amount[p],
                        paid |-> s + Amount[p]]
        BY <1>3, <4>1
      <4> QED
        BY <3>2, <4>2
    <3>3. CASE o # "PAID"
      <4>1. account' = [account EXCEPT !.reserved = account.reserved - Amount[p],
                                       !.available = account.available + Amount[p]]
        BY <3>1, <3>3 DEF AccountAfter
      <4>2. account' = [available |-> a - h - s + Amount[p], reserved |-> h - Amount[p],
                        paid |-> s]
        BY <1>3, <4>1
      <4> QED
        BY <3>3, <4>2
    <3> QED
      BY <3>2, <3>3
  <2>2. /\ Held' = Held \ {p} /\ p \in Held /\ p \notin Spent
        /\ Spent' = IF o = "PAID" THEN Spent \union {p} ELSE Spent
    BY <1>6, EndSets
  <2>3. h = Amount[p] + SumAmounts(Held')
    BY <1>2, <2>2, AmountsRemove
  <2>4. SumAmounts(Spent') = IF o = "PAID" THEN Amount[p] + s ELSE s
    BY <1>2, <2>2, AmountsAdd
  <2>5. Books' = [available |-> a - SumAmounts(Held') - SumAmounts(Spent'),
                  reserved |-> SumAmounts(Held'), paid |-> SumAmounts(Spent')]
    BY DEF Books
  <2>6. Held' \in SUBSET Payouts
    BY <1>2, <2>2
  <2>7. a \in Int /\ h \in Int /\ s \in Int /\ Amount[p] \in Int /\ SumAmounts(Held') \in Int
    BY <1>2, <2>6
  <2> HIDE DEF a, h, s
  <2> QED
    BY <2>1, <2>3, <2>4, <2>5, <2>7 DEF BooksAgree
<1> QED
  BY <1>1, <1>4, <1>5, <1>6 DEF LedgerStep

\* BooksAgree: the balances that requests are checked against are what the ledger
\* adds up to, for any number of payouts and amounts, imported ones included.
THEOREM BooksAlwaysAgree == Spec => []BooksAgree
<1>1. Init => BooksAgree
  BY DEF Init, BooksAgree
<1>2. TypeOK /\ ImportedInv /\ OutcomeInv /\ ReservedInv /\ BooksAgree /\ [Next]_vars
        => BooksAgree'
  BY BooksStep
<1> QED
  BY <1>1, <1>2, TypeCorrect, ImportedInvariant, OutcomesInvariant, ReservedInvariant, PTL
  DEF Spec

-----------------------------------------------------------------------------
(* The daily limit.                                                        *)

\* The payouts of today whose money the ledger holds or has paid.
HeldOrSpentToday == (Held \union Spent) \ Legacy

\* They are what the limit counts before a request.
LEMMA CountedIsHeldOrSpent ==
  ASSUME TypeOK, OutcomeInv, ReservedInv
  PROVE  CountedToday = HeldOrSpentToday
<1>1. ASSUME NEW p \in NewPayouts
      PROVE  p \in CountedToday <=> p \in Held \union Spent
  <2>1. OutcomeOK(p) /\ ReservedOK(p)
    BY DEF OutcomeInv, ReservedInv
  <2> QED
    BY <2>1 DEF CountedToday, Held, Spent, OutcomeOK, ReservedOK, NewPayouts
<1>2. CountedToday \subseteq NewPayouts /\ Held \union Spent \subseteq Payouts
  BY DEF CountedToday, Held, Spent, NewPayouts
<1> QED
  BY <1>1, <1>2 DEF HeldOrSpentToday, NewPayouts

LEMMA LimitStep ==
  ASSUME TypeOK, ImportedInv, OutcomeInv, ReservedInv, WithinDailyLimit, [Next]_vars
  PROVE  WithinDailyLimit'
<1>1. LedgerStep
  BY LedgerSteps
<1>2. HeldOrSpentToday \in SUBSET Payouts
  BY DEF HeldOrSpentToday, Held, Spent
<1>3. SumAmounts(HeldOrSpentToday) <= DailyLimit
  BY DEF WithinDailyLimit, HeldOrSpentToday
<1>4. WithinDailyLimit' <=> SumAmounts(HeldOrSpentToday') <= DailyLimit
  BY DEF WithinDailyLimit, HeldOrSpentToday
<1>5. CASE HeldOrSpentToday' = HeldOrSpentToday
  BY <1>3, <1>4, <1>5
<1>6. ASSUME NEW p \in Payouts, Request(p)
      PROVE  WithinDailyLimit'
  <2>1. SumAmounts(HeldOrSpentToday) + Amount[p] <= DailyLimit
    BY <1>6, CountedIsHeldOrSpent DEF Request
  <2>2. HeldOrSpentToday' = HeldOrSpentToday \union {p} /\ p \notin HeldOrSpentToday
    <3>1. p \notin Legacy
      BY <1>6, RequestIsNew DEF NewPayouts
    <3> QED
      BY <1>6, <3>1, RequestSets DEF HeldOrSpentToday
  <2>3. SumAmounts(HeldOrSpentToday') = Amount[p] + SumAmounts(HeldOrSpentToday)
    BY <1>2, <2>2, AmountsAdd
  <2>4. SumAmounts(HeldOrSpentToday) \in Int /\ Amount[p] \in Int
    BY <1>2, AmountsInt, LimitsAssumption
  <2> QED
    BY <1>4, <2>1, <2>3, <2>4
<1>7. ASSUME NEW p \in Payouts, NEW o \in Terminal, EndsReservation(p, o)
      PROVE  WithinDailyLimit'
  <2>1. /\ p \in Held /\ p \notin Spent
        /\ Held' = Held \ {p}
        /\ Spent' = IF o = "PAID" THEN Spent \union {p} ELSE Spent
    BY <1>7, EndSets
  <2>2. CASE o = "PAID" \/ p \in Legacy
    <3>1. HeldOrSpentToday' = HeldOrSpentToday
      BY <2>1, <2>2 DEF HeldOrSpentToday
    <3> QED
      BY <1>5, <3>1
  <2>3. CASE o # "PAID" /\ p \notin Legacy
    <3>1. HeldOrSpentToday' = HeldOrSpentToday \ {p} /\ p \in HeldOrSpentToday
      BY <2>1, <2>3 DEF HeldOrSpentToday
    <3>2. SumAmounts(HeldOrSpentToday) = Amount[p] + SumAmounts(HeldOrSpentToday')
      BY <1>2, <3>1, AmountsRemove
    <3>3. SumAmounts(HeldOrSpentToday') \in Int /\ Amount[p] \in Nat /\ DailyLimit \in Int
      BY <1>2, <3>1, AmountsInt, LimitsAssumption
    <3> QED
      BY <1>3, <1>4, <3>2, <3>3
  <2> QED
    BY <2>2, <2>3
<1>8. UNCHANGED <<journal, account>> => HeldOrSpentToday' = HeldOrSpentToday
  BY DEF HeldOrSpentToday, Held, Spent
<1> QED
  BY <1>1, <1>5, <1>6, <1>7, <1>8 DEF LedgerStep

\* WithinDailyLimit: whatever is requested, withdrawn, paid and failed in whatever
\* order, a day's payouts stay within the limit.
THEOREM DailyLimitHolds == Spec => []WithinDailyLimit
<1>1. Init => WithinDailyLimit
  <2> SUFFICES ASSUME Init PROVE WithinDailyLimit
    OBVIOUS
  <2>1. (Held \union Spent) \ Legacy = {}
    BY DEF Init, Held, Spent
  <2>2. SumAmounts({}) = 0
    <3>1. SumAmounts({}) = Total(Amount, {})
      BY DEF SumAmounts, Total
    <3> QED
      BY <3>1, TotalEmpty
  <2> QED
    BY <2>1, <2>2, LimitsAssumption DEF WithinDailyLimit
<1>2. TypeOK /\ ImportedInv /\ OutcomeInv /\ ReservedInv /\ WithinDailyLimit /\ [Next]_vars
        => WithinDailyLimit'
  BY LimitStep
<1> QED
  BY <1>1, <1>2, TypeCorrect, ImportedInvariant, OutcomesInvariant, ReservedInvariant, PTL
  DEF Spec

-----------------------------------------------------------------------------
(* What really left, when nobody approves a payout a second time on a      *)
(* stale page.                                                             *)

\* Before its approval nothing has happened to a payout, and then it has a method.
Fresh(p) ==
  /\ ticket[p].approval # "APPROVED" =>
       /\ ticket[p].method = "NONE" /\ ticket[p].starter = NoActor
       /\ bank[p] = 0 /\ wire[p].sent = 0
  /\ ticket[p].approval = "APPROVED" =>
       ticket[p].method \in {"PAYOS", "MANUAL_BANK_TRANSFER"}

\* PayOS knows a payout only of the one request, and every answer still being
\* worked on is still true.
Asked(p) ==
  /\ wire[p].sent = 0 => payos[p] = "ABSENT" /\ ~wire[p].inFlight
  /\ wire[p].inFlight => payos[p] = "ABSENT"
  /\ executor[p].pc = "ANSWERED" => Told(p, executor[p].answer)
  /\ \A w \in Reconcilers :
       JobOn(w, p) /\ reconciler[w].pc = "FINALIZE" => Told(p, reconciler[w].answer)

ByPayos(p) ==
  ticket[p].method = "PAYOS" =>
    /\ Told(p, ticket[p].settlement)
    /\ ticket[p].starter = NoActor
    /\ bank[p] = 0
    /\ \A a \in Actors : ~DeskOn(a, p)

\* What an operator read stays true of a payout until it is written.
ReadOK(a, p) ==
  /\ desk[a].op # "START" => ticket[p].settlement # "NOT_STARTED"
  /\ desk[a].op \in {"COMPLETE", "CONFIRMED_PAID"} => bank[p] = 1
  /\ desk[a].op = "CONFIRMED_NOT_SENT" =>
       /\ bank[p] = 0
       /\ ticket[p].settlement \in {"UNKNOWN", "PAID", "FAILED"}
       /\ ticket[p].starter = a => Amount[p] <= NoSendSelfLimit

ByHand(p) ==
  ticket[p].method = "MANUAL_BANK_TRANSFER" =>
    /\ exec[p].intent = "NONE" /\ executor[p] = Idle /\ wire[p].sent = 0
    /\ \A w \in Reconcilers : ~JobOn(w, p)
    /\ bank[p] \in {0, 1}
    /\ ticket[p].settlement \in {"NOT_STARTED", "FAILED"} => bank[p] = 0
    /\ ticket[p].settlement = "PAID" => bank[p] = 1
    /\ ticket[p].settlement = "FAILED" /\ Amount[p] > NoSendSelfLimit =>
         ticket[p].starter = NoActor \/ ticket[p].resolver # ticket[p].starter
    /\ \A a \in Actors : DeskOn(a, p) => ReadOK(a, p)

Sound(p) == Fresh(p) /\ Asked(p) /\ ByPayos(p) /\ ByHand(p)

SoundInv == \A p \in NewPayouts : Sound(p)

\* A step that leaves what Sound says of a payout alone, or only forgets.
Calm(q) ==
  /\ ticket'[q].approval = ticket[q].approval
  /\ ticket'[q].settlement = ticket[q].settlement
  /\ ticket'[q].method = ticket[q].method
  /\ ticket'[q].starter = ticket[q].starter
  /\ ticket'[q].resolver = ticket[q].resolver
  /\ exec[q].intent = "NONE" => exec'[q].intent = "NONE"
  /\ payos'[q] = payos[q] /\ wire'[q] = wire[q] /\ bank'[q] = bank[q]
  /\ \/ executor'[q] = executor[q]
     \/ executor'[q] = Idle
     \/ executor[q] # Idle /\ executor'[q].pc # "ANSWERED"
  /\ \A a \in Actors : DeskOn(a, q)' => DeskOn(a, q) /\ desk'[a] = desk[a]
  /\ \A w \in Reconcilers :
       JobOn(w, q)' => /\ JobOn(w, q)
                       /\ reconciler'[w].pc = "FINALIZE" => reconciler'[w] = reconciler[w]

LEMMA CalmKeeps ==
  ASSUME NEW q \in Payouts, Sound(q), Calm(q)
  PROVE  Sound(q)'
<1>1. \A o : Told(q, o) => Told(q, o)'
  BY DEF Calm, Told
<1>2. Fresh(q)'
  BY DEF Calm, Sound, Fresh
<1>3. Asked(q)'
  <2>1. /\ wire'[q].sent = 0 => payos'[q] = "ABSENT" /\ ~wire'[q].inFlight
        /\ wire'[q].inFlight => payos'[q] = "ABSENT"
    BY DEF Calm, Sound, Asked
  <2>2. executor'[q].pc = "ANSWERED" => Told(q, executor[q].answer)' /\ executor'[q] = executor[q]
    BY <1>1 DEF Calm, Sound, Asked, Told
  <2>3. \A w \in Reconcilers :
          JobOn(w, q)' /\ reconciler'[w].pc = "FINALIZE" => Told(q, reconciler[w].answer)'
    BY DEF Calm, Sound, Asked, Told
  <2> QED
    BY <2>1, <2>2, <2>3 DEF Asked
<1>4. ByPayos(q)'
  BY DEF Calm, Sound, ByPayos, Told
<1>5. ByHand(q)'
  BY DEF Calm, Sound, ByHand, ReadOK
<1> QED
  BY <1>2, <1>3, <1>4, <1>5 DEF Sound

\* Requests, approvals and withdrawals.
LEMMA DecideSound ==
  ASSUME ~StaleApprovals, TypeOK, NEW p \in Payouts, DecideNext(p),
         NEW q \in Payouts, OutcomeOK(q), Sound(q)
  PROVE  Sound(q)'
<1>1. /\ ticket \in [Payouts -> Ticket] /\ ticket[p] \in Ticket
      /\ exec \in [Payouts -> Execution] /\ exec[p] \in Execution
  BY DEF TypeOK
<1>2. UNCHANGED <<executor, desk, reconciler, payos, wire, bank>>
  BY DEF DecideNext, Request, Approve, Reject, Cancel, Withdraw, ResolveLegacy, outside
<1>3. /\ ticket'[q].settlement = ticket[q].settlement
      /\ ticket'[q].starter = ticket[q].starter
      /\ ticket'[q].resolver = ticket[q].resolver
  BY DecideOthers, DecideEffect
<1>4. CASE q # p
  <2>1. exec'[q] = exec[q] /\ ticket'[q] = ticket[q]
    BY <1>4, DecideOthers
  <2> QED
    BY <1>2, <2>1, CalmKeeps DEF Calm, DeskOn, JobOn
<1>5. ASSUME NEW v \in {"PENDING", "REJECTED", "CANCELLED"},
             ticket[p].approval \in {"NONE", "PENDING"}, ticket'[p].approval = v,
             ticket'[p].method = ticket[p].method, exec' = exec, q = p
      PROVE  Sound(q)'
  BY <1>1, <1>2, <1>3, <1>5
  DEF Sound, Fresh, Asked, ByPayos, ByHand, ReadOK, Told, DeskOn, JobOn
<1>6. CASE Request(p) /\ q = p
  <2>1. /\ ticket[p].approval = "NONE" /\ ticket'[p].approval = "PENDING"
        /\ ticket'[p].method = ticket[p].method /\ exec' = exec
    BY <1>1, <1>6 DEF Request, Ticket
  <2> QED
    BY <1>5, <1>6, <2>1
<1>7. ASSUME NEW d \in {"REJECTED", "CANCELLED"}, Withdraw(p, d), q = p
      PROVE  Sound(q)'
  <2>1. /\ ticket[p].approval = "PENDING" /\ ticket'[p].approval = d
        /\ ticket'[p].method = ticket[p].method /\ exec' = exec
    BY <1>1, <1>7 DEF Withdraw, Ticket
  <2> QED
    BY <1>5, <1>7, <2>1
<1>8. ASSUME NEW a \in Actors, NEW m \in Methods, Approve(a, p, m), q = p
      PROVE  Sound(q)'
  <2>1. ticket[p].approval # "APPROVED"
    BY <1>8 DEF Approve
  <2>2. /\ ticket'[p].approval = "APPROVED"
        /\ ticket'[p].method = m
        /\ m = "MANUAL_BANK_TRANSFER" => exec' = exec
    BY <1>1, <1>8 DEF Approve, Ticket
  <2>3. /\ ticket[p].settlement = "NOT_STARTED" /\ exec[p].intent = "NONE"
        /\ executor[p] = Idle
        /\ \A b \in Actors : ~DeskOn(b, p)
        /\ \A w \in Reconcilers : ~JobOn(w, p)
    BY <1>8, <2>1 DEF OutcomeOK, Busy, DeskOn, JobOn
  <2>4. m \in {"PAYOS", "MANUAL_BANK_TRANSFER"}
    BY MethodsAssumption
  <2>5. /\ ticket[p].starter = NoActor /\ bank[p] = 0 /\ wire[p].sent = 0
        /\ payos[p] = "ABSENT" /\ ~wire[p].inFlight
    BY <1>1, <1>8, <2>1 DEF Sound, Fresh, Asked
  <2>6. Fresh(p)'
    BY <2>2, <2>4 DEF Fresh
  <2>7. Asked(p)'
    BY <1>2, <2>3, <2>5 DEF Asked, JobOn
  <2>8. ByPayos(p)'
    BY <1>2, <1>3, <1>8, <2>3, <2>5 DEF ByPayos, Told, DeskOn
  <2>9. ByHand(p)'
    BY <1>2, <1>3, <1>8, <2>2, <2>3, <2>5 DEF ByHand, DeskOn, JobOn
  <2> QED
    BY <1>8, <2>6, <2>7, <2>8, <2>9 DEF Sound
<1>9. q = p => ~\E d \in LegacyDecisions, r \in BOOLEAN : ResolveLegacy(p, d, r)
  BY DEF OutcomeOK, ResolveLegacy
<1> QED
  BY <1>4, <1>6, <1>7, <1>8, <1>9 DEF DecideNext, Reject, Cancel

\* An outcome that PayOS told settles a payout of the PayOS channel soundly.
LEMMA FinalizeTold ==
  ASSUME TypeOK, NEW p \in Payouts, NEW outcome \in Settlements,
         Finalize(p, outcome, NoActor), NEW q \in Payouts, Sound(q),
         q = p => Told(p, outcome) /\ ticket[p].method = "PAYOS",
         UNCHANGED <<payos, wire, bank>>,
         \/ executor'[q] = executor[q]
         \/ executor'[q] = Idle
         \/ executor[q] # Idle /\ executor'[q].pc # "ANSWERED",
         \A a \in Actors : DeskOn(a, q)' => DeskOn(a, q) /\ desk'[a] = desk[a],
         \A w \in Reconcilers :
           JobOn(w, q)' => /\ JobOn(w, q)
                           /\ reconciler'[w].pc = "FINALIZE" => reconciler'[w] = reconciler[w]
  PROVE  Sound(q)'
<1>1. /\ ticket'[q].approval = ticket[q].approval
      /\ ticket'[q].method = ticket[q].method
      /\ ticket'[q].starter = ticket[q].starter
      /\ exec[q].intent = "NONE" => exec'[q].intent = "NONE"
      /\ \/ /\ ticket'[q].settlement = ticket[q].settlement
            /\ ticket'[q].resolver = ticket[q].resolver
         \/ /\ q = p /\ ticket'[p].settlement = outcome
  BY FinalizeColumns
<1>2. CASE /\ ticket'[q].settlement = ticket[q].settlement
           /\ ticket'[q].resolver = ticket[q].resolver
  <2>1. Calm(q)
    BY <1>1, <1>2 DEF Calm
  <2> QED
    BY <2>1, CalmKeeps
<1>3. CASE q = p /\ ticket'[p].settlement = outcome
  <2>1. Fresh(q)'
    BY <1>1 DEF Sound, Fresh
  <2>2. Asked(q)'
    <3>1. executor'[q].pc = "ANSWERED" =>
            executor'[q] = executor[q] /\ Told(q, executor[q].answer)
      BY DEF Sound, Asked
    <3>2. \A w \in Reconcilers : JobOn(w, q)' /\ reconciler'[w].pc = "FINALIZE" =>
            reconciler'[w] = reconciler[w] /\ Told(q, reconciler[w].answer)
      BY DEF Sound, Asked
    <3> QED
      BY <3>1, <3>2 DEF Sound, Asked, Told
  <2>3. ByPayos(q)'
    BY <1>1, <1>3 DEF Sound, ByPayos, Told
  <2>4. ByHand(q)'
    BY <1>1, <1>3 DEF ByHand
  <2> QED
    BY <2>1, <2>2, <2>3, <2>4 DEF Sound
<1> QED
  BY <1>1, <1>2, <1>3

\* The inline executor.
LEMMA ExecuteSound ==
  ASSUME TypeOK, SubmitInv, NEW p \in Payouts, ExecuteNext(p), OutcomeOK(p), Sound(p),
         NEW q \in Payouts, Sound(q)
  PROVE  Sound(q)'
<1>1. /\ ticket \in [Payouts -> Ticket] /\ ticket[p] \in Ticket
      /\ exec \in [Payouts -> Execution] /\ exec[p] \in Execution
      /\ executor \in [Payouts -> ExecutorStates]
      /\ wire \in [Payouts -> [sent: Nat, inFlight: BOOLEAN]]
      /\ SubmitOnce(p)
  BY DEF TypeOK, SubmitInv
<1>2. UNCHANGED <<desk, reconciler, payos, bank>>
  BY DEF ExecuteNext, ClaimExecution, SendSubmit, ReceiveAnswer, FailSubmit, FinalizeSubmit,
         FinalizeUncertain, ScheduleFirst, ExecutorStops, outside
<1>3. ticket[p].method = "PAYOS"
  <2>1. executor[p] # Idle \/ exec[p].intent # "NONE"
    BY DEF ExecuteNext, ClaimExecution, SendSubmit, ReceiveAnswer, FailSubmit,
           FinalizeSubmit, FinalizeUncertain, ScheduleFirst, ExecutorStops
  <2>2. ticket[p].approval = "APPROVED"
    BY <2>1 DEF OutcomeOK, Busy
  <2> QED
    BY <1>1, <2>1, <2>2 DEF Sound, Fresh, ByHand
<1>4. executor' = [executor EXCEPT ![p] = executor'[p]]
  BY <1>1 DEF ExecuteNext, ClaimExecution, SendSubmit, ReceiveAnswer, FailSubmit,
         FinalizeSubmit, FinalizeUncertain, ScheduleFirst, ExecutorStops
<1>5. q # p => executor'[q] = executor[q]
  BY <1>1, <1>4
<1>6. ASSUME ticket'[q].approval = ticket[q].approval,
             ticket'[q].settlement = ticket[q].settlement,
             ticket'[q].method = ticket[q].method,
             ticket'[q].starter = ticket[q].starter,
             ticket'[q].resolver = ticket[q].resolver,
             exec'[q] = exec[q], wire'[q] = wire[q],
             q = p => \/ executor'[q] = executor[q]
                      \/ executor'[q] = Idle
                      \/ executor[q] # Idle /\ executor'[q].pc # "ANSWERED"
      PROVE  Sound(q)'
  BY <1>1, <1>2, <1>5, <1>6, CalmKeeps DEF Calm, DeskOn, JobOn
<1>7. CASE ClaimExecution(p)
  <2>1. CASE q # p
    BY <1>1, <1>6, <1>7, <2>1 DEF ClaimExecution, outside
  <2>2. CASE q = p
    <3>1. /\ ticket'[p].settlement = "PROCESSING"
          /\ ticket'[p].approval = ticket[p].approval
          /\ ticket'[p].method = ticket[p].method
          /\ ticket'[p].starter = ticket[p].starter
      <4>1. ticket' = [ticket EXCEPT ![p] = [ticket[p] EXCEPT !.settlement = "PROCESSING"]]
        BY <1>1, <1>7 DEF ClaimExecution
      <4> QED
        BY <1>1, <4>1 DEF Ticket
    <3>2. executor'[p].pc = "CLAIMED" /\ wire' = wire
      BY <1>1, <1>7 DEF ClaimExecution, outside
    <3>3. Fresh(p)'
      BY <1>1, <1>2, <3>1, <3>2 DEF Sound, Fresh
    <3>4. Asked(p)'
      BY <1>1, <1>2, <3>2 DEF Sound, Asked, Told, JobOn
    <3>5. ByPayos(p)'
      BY <1>1, <1>2, <3>1 DEF Sound, ByPayos, Told, DeskOn
    <3>6. ByHand(p)'
      BY <1>3, <3>1 DEF ByHand
    <3> QED
      BY <2>2, <3>3, <3>4, <3>5, <3>6 DEF Sound
  <2> QED
    BY <2>1, <2>2
<1>8. CASE SendSubmit(p)
  <2>1. CASE q # p
    BY <1>1, <1>6, <1>8, <2>1 DEF SendSubmit, tables
  <2>2. CASE q = p
    <3>1. /\ wire[p].sent = 0 /\ wire'[p].sent = 1 /\ wire'[p].inFlight
          /\ executor'[p].pc = "CALLING" /\ ticket' = ticket /\ executor[p] # Idle
      BY <1>1, <1>8 DEF SendSubmit, SubmitOnce, tables
    <3>2. ticket[p].approval = "APPROVED"
      BY <3>1 DEF OutcomeOK, Busy
    <3>3. Fresh(p)'
      BY <1>1, <3>1, <3>2 DEF Sound, Fresh
    <3>4. Asked(p)'
      BY <1>1, <1>2, <3>1 DEF Sound, Asked, Told, JobOn
    <3>5. ByPayos(p)'
      BY <1>1, <1>2, <3>1 DEF Sound, ByPayos, Told, DeskOn
    <3>6. ByHand(p)'
      BY <1>3, <3>1 DEF ByHand
    <3> QED
      BY <2>2, <3>3, <3>4, <3>5, <3>6 DEF Sound
  <2> QED
    BY <2>1, <2>2
<1>9. CASE ReceiveAnswer(p)
  <2>1. CASE q # p
    BY <1>6, <1>9, <2>1 DEF ReceiveAnswer, tables, outside
  <2>2. CASE q = p
    <3>1. /\ executor'[p].answer = Observation(payos[p])
          /\ UNCHANGED <<ticket, wire>>
      BY <1>1, <1>9 DEF ReceiveAnswer, tables, outside
    <3>2. Told(p, Observation(payos[p]))
      BY DEF Told, Observation
    <3>3. Fresh(p)'
      BY <1>1, <1>2, <3>1 DEF Sound, Fresh
    <3>4. Asked(p)'
      BY <1>1, <1>2, <3>1, <3>2 DEF Sound, Asked, Told, JobOn
    <3>5. ByPayos(p)'
      BY <1>1, <1>2, <3>1 DEF Sound, ByPayos, Told, DeskOn
    <3>6. ByHand(p)'
      BY <1>3, <3>1 DEF ByHand
    <3> QED
      BY <2>2, <3>3, <3>4, <3>5, <3>6 DEF Sound
  <2> QED
    BY <2>1, <2>2
<1>10. CASE FailSubmit(p) \/ ExecutorStops(p)
  <2>1. q = p => executor'[q] = Idle \/ (executor[q] # Idle /\ executor'[q].pc # "ANSWERED")
    BY <1>1, <1>10 DEF FailSubmit, ExecutorStops
  <2> QED
    BY <1>6, <1>10, <2>1 DEF FailSubmit, ExecutorStops, tables, outside
<1>11. CASE FinalizeSubmit(p) \/ FinalizeUncertain(p)
  <2>1. q = p => executor'[q] = Idle \/ (executor[q] # Idle /\ executor'[q].pc # "ANSWERED")
    BY <1>1, <1>11 DEF FinalizeSubmit, FinalizeUncertain
  <2>2. UNCHANGED <<payos, wire, bank>>
    BY <1>11 DEF FinalizeSubmit, FinalizeUncertain, outside
  <2>3. PICK o \in Settlements : Finalize(p, o, NoActor) /\ Told(p, o)
    BY <1>1, <1>11, TaskTypes
    DEF FinalizeSubmit, FinalizeUncertain, Settlements, Sound, Asked, Told
  <2> QED
    BY <1>1, <1>2, <1>3, <1>5, <2>1, <2>2, <2>3, FinalizeTold DEF DeskOn, JobOn
<1>12. CASE ScheduleFirst(p)
  <2>1. q = p => executor'[q] = Idle
    BY <1>1, <1>12 DEF ScheduleFirst
  <2> QED
    BY <1>6, <1>12, <2>1, ScheduleColumns DEF ScheduleFirst, outside
<1> QED
  BY <1>7, <1>8, <1>9, <1>10, <1>11, <1>12 DEF ExecuteNext

\* The reconcilers.
LEMMA ReconcileSound ==
  ASSUME TypeOK, NEW w \in Reconcilers, ReconcileNext(w),
         NEW q \in Payouts, OutcomeOK(q), Sound(q)
  PROVE  Sound(q)'
<1>1. /\ exec \in [Payouts -> Execution]
      /\ reconciler \in [Reconcilers -> ReconcilerStates]
  BY DEF TypeOK
<1>2. UNCHANGED <<executor, desk, payos, wire, bank>>
  BY DEF ReconcileNext, RequestReconciliation, DeliverJob, Prepare, QueryPayos,
         FinalizeReconcile, ScheduleNext, ReconcilerStops, outside
<1>3. \A v \in Reconcilers \ {w} : reconciler'[v] = reconciler[v]
  BY <1>1 DEF ReconcileNext, RequestReconciliation, DeliverJob, Prepare, QueryPayos,
         FinalizeReconcile, ScheduleNext, ReconcilerStops
<1>4. ASSUME JobOn(w, q)
      PROVE  ticket[q].method = "PAYOS"
  <2>1. ticket[q].approval = "APPROVED"
    BY <1>4 DEF OutcomeOK, Busy, JobOn
  <2> QED
    BY <1>4, <2>1 DEF Sound, Fresh, ByHand
<1>5. ASSUME NEW p \in Payouts, NEW n \in Sequences, NEW b, Prepare(w, p, n, b)
      PROVE  Sound(q)'
  <2>1. ticket' = ticket /\ reconciler'[w] = [pc |-> "QUERY", payout |-> p, seq |-> n, job |-> b]
    BY <1>1, <1>5 DEF Prepare
  <2>2. CASE q # p
    <3>1. exec'[q] = exec[q]
      BY <1>1, <1>5, <2>2 DEF Prepare
    <3>2. \A v \in Reconcilers : JobOn(v, q)' => JobOn(v, q) /\ reconciler'[v] = reconciler[v]
      BY <1>3, <2>1, <2>2 DEF JobOn
    <3>3. Calm(q)
      BY <1>2, <2>1, <3>1, <3>2 DEF Calm, DeskOn
    <3> QED
      BY <1>1, <3>3, CalmKeeps
  <2>3. CASE q = p
    <3>1. ticket[p].method = "PAYOS"
      <4>1. ticket[p].approval = "APPROVED" /\ exec[p].intent # "NONE"
        BY <1>5, <2>3 DEF Prepare, OutcomeOK, Busy
      <4> QED
        BY <1>1, <2>3, <4>1 DEF Sound, Fresh, ByHand
    <3>2. Fresh(p)'
      BY <1>1, <1>2, <2>1, <2>3 DEF Sound, Fresh
    <3>3. Asked(p)'
      <4>1. \A v \in Reconcilers : JobOn(v, p)' /\ reconciler'[v].pc = "FINALIZE" =>
              JobOn(v, p) /\ reconciler'[v] = reconciler[v]
        BY <1>3, <2>1 DEF JobOn
      <4> QED
        BY <1>1, <1>2, <2>3, <4>1 DEF Sound, Asked, Told
    <3>4. ByPayos(p)'
      BY <1>1, <1>2, <2>1, <2>3 DEF Sound, ByPayos, Told, DeskOn
    <3>5. ByHand(p)'
      BY <2>1, <3>1 DEF ByHand
    <3> QED
      BY <2>3, <3>2, <3>3, <3>4, <3>5 DEF Sound
  <2> QED
    BY <2>2, <2>3
<1>6. CASE QueryPayos(w)
  <2>1. PICK p \in Payouts, answer \in Settlements :
          /\ JobOn(w, p)
          /\ answer \in {Observation(payos[p]), "UNKNOWN"}
          /\ reconciler'[w] = [pc |-> "FINALIZE", payout |-> p, seq |-> reconciler[w].seq,
                               job |-> reconciler[w].job, answer |-> answer]
    <3>1. \A state : Observation(state) \in Settlements
      BY DEF Observation, Settlements
    <3>2. "UNKNOWN" \in Settlements
      BY DEF Settlements
    <3>3. PICK p \in Payouts : JobOn(w, p)
      BY <1>1, <1>6, TaskTypes DEF QueryPayos, JobOn
    <3> QED
      BY <1>1, <1>6, <3>1, <3>2, <3>3, TaskTypes DEF QueryPayos, JobOn
  <2>2. UNCHANGED <<ticket, exec>>
    BY <1>6 DEF QueryPayos, tables
  <2>3. CASE q # p
    <3>1. \A v \in Reconcilers : JobOn(v, q)' => JobOn(v, q) /\ reconciler'[v] = reconciler[v]
      BY <1>3, <2>1, <2>3 DEF JobOn
    <3>2. Calm(q)
      BY <1>2, <2>2, <3>1 DEF Calm, DeskOn
    <3> QED
      BY <1>1, <3>2, CalmKeeps
  <2>4. CASE q = p
    <3>1. ticket[p].method = "PAYOS"
      BY <1>4, <2>1, <2>4
    <3>2. Told(p, answer)
      BY <2>1 DEF Told, Observation
    <3>3. Fresh(p)'
      BY <1>1, <1>2, <2>2, <2>4 DEF Sound, Fresh
    <3>4. Asked(p)'
      <4>1. \A v \in Reconcilers : JobOn(v, p)' /\ reconciler'[v].pc = "FINALIZE" =>
              \/ JobOn(v, p) /\ reconciler'[v] = reconciler[v]
              \/ reconciler'[v].answer = answer
        BY <1>3, <2>1 DEF JobOn
      <4> QED
        BY <1>1, <1>2, <2>4, <3>2, <4>1 DEF Sound, Asked, Told
    <3>5. ByPayos(p)'
      BY <1>1, <1>2, <2>2, <2>4 DEF Sound, ByPayos, Told, DeskOn
    <3>6. ByHand(p)'
      BY <2>2, <3>1 DEF ByHand
    <3> QED
      BY <2>4, <3>3, <3>4, <3>5, <3>6 DEF Sound
  <2> QED
    BY <2>3, <2>4
<1>7. ASSUME reconciler'[w] # Idle =>
               /\ reconciler[w] # Idle /\ reconciler'[w].payout = reconciler[w].payout
               /\ reconciler'[w].pc # "FINALIZE"
      PROVE  \A v \in Reconcilers :
               JobOn(v, q)' => /\ JobOn(v, q)
                               /\ reconciler'[v].pc = "FINALIZE" => reconciler'[v] = reconciler[v]
  BY <1>3, <1>7 DEF JobOn
<1>8. CASE FinalizeReconcile(w)
  <2>1. PICK p \in Payouts, o \in Settlements :
          /\ p = reconciler[w].payout /\ o = reconciler[w].answer /\ JobOn(w, p)
          /\ reconciler[w].pc = "FINALIZE"
    BY <1>8, TaskTypes DEF FinalizeReconcile, JobOn
  <2>2. Finalize(p, o, NoActor) /\ (q = p => Told(p, o))
    BY <1>8, <2>1 DEF FinalizeReconcile, Sound, Asked
  <2>3. reconciler'[w] # Idle =>
          /\ reconciler[w] # Idle /\ reconciler'[w].payout = reconciler[w].payout
          /\ reconciler'[w].pc # "FINALIZE"
    BY <1>1, <1>8, <2>1 DEF FinalizeReconcile, JobOn
  <2>4. q = p => ticket[p].method = "PAYOS"
    BY <1>4, <2>1
  <2> QED
    BY <1>1, <1>2, <1>7, <2>2, <2>3, <2>4, FinalizeTold DEF DeskOn
<1>9. CASE ScheduleNext(w) \/ ReconcilerStops(w)
  <2>1. reconciler'[w] = Idle
    BY <1>1, <1>9 DEF ScheduleNext, ReconcilerStops
  <2>2. exec' = exec
    BY <1>9 DEF ScheduleNext, ReconcilerStops, tables
  <2>3. /\ ticket'[q].approval = ticket[q].approval
        /\ ticket'[q].settlement = ticket[q].settlement
        /\ ticket'[q].method = ticket[q].method
        /\ ticket'[q].starter = ticket[q].starter
        /\ ticket'[q].resolver = ticket[q].resolver
    <3>1. CASE ReconcilerStops(w)
      BY <3>1 DEF ReconcilerStops, tables
    <3>2. CASE ScheduleNext(w)
      <4>1. PICK p \in Payouts : p = reconciler[w].payout
        BY <3>2, TaskTypes DEF ScheduleNext
      <4>2. ScheduleReconciliation(p, reconciler[w].seq + 1)
        BY <3>2, <4>1 DEF ScheduleNext
      <4> QED
        BY <4>2, ScheduleColumns
    <3> QED
      BY <1>9, <3>1, <3>2
  <2>4. Calm(q)
    BY <1>2, <1>7, <2>1, <2>2, <2>3 DEF Calm, DeskOn
  <2> QED
    BY <1>1, <2>4, CalmKeeps
<1>10. 1 \in Sequences
  BY LimitsAssumption DEF Sequences
<1> QED
  BY <1>5, <1>6, <1>8, <1>9, <1>10 DEF ReconcileNext, RequestReconciliation, DeliverJob

\* The operators' desks.
LEMMA DeskSound ==
  ASSUME TypeOK, NEW a \in Actors, DeskNext(a), NEW q \in Payouts, OutcomeOK(q), Sound(q)
  PROVE  Sound(q)'
<1> DEFINE DeskStates == {Idle} \union [pc: {"READ"}, payout: Payouts, op: DeskOperations]
<1>1. /\ ticket \in [Payouts -> Ticket] /\ exec \in [Payouts -> Execution]
      /\ desk \in [Actors -> DeskStates]
      /\ bank \in [Payouts -> Nat]
  BY DEF TypeOK
<1> HIDE DEF DeskStates
<1>2. UNCHANGED <<executor, reconciler, payos, wire, bank>>
  BY DEF DeskNext, DeskRead, DeskStart, DeskFinalize, DeskStops, outside
<1>3. \A b \in Actors \ {a} : desk'[b] = desk[b]
  BY <1>1 DEF DeskNext, DeskRead, DeskStart, DeskFinalize, DeskStops
<1>4. ASSUME DeskOn(a, q)
      PROVE  /\ ticket[q].approval = "APPROVED"
             /\ ticket[q].method = "MANUAL_BANK_TRANSFER"
             /\ ReadOK(a, q)
             /\ \A b \in Actors : DeskOn(b, q) => ReadOK(b, q)
  <2>1. ticket[q].approval = "APPROVED"
    BY <1>4 DEF OutcomeOK, Busy, DeskOn
  <2>2. ticket[q].method = "MANUAL_BANK_TRANSFER"
    BY <1>4, <2>1 DEF Sound, Fresh, ByPayos
  <2> QED
    BY <1>4, <2>1, <2>2 DEF Sound, ByHand
<1>5. ASSUME NEW p \in Payouts, NEW op \in DeskOperations, DeskRead(a, p, op)
      PROVE  Sound(q)'
  <2>1. /\ UNCHANGED <<ticket, exec>>
        /\ desk'[a] = [pc |-> "READ", payout |-> p, op |-> op]
    BY <1>1, <1>5 DEF DeskRead, tables
  <2>2. CASE q # p
    <3>1. \A b \in Actors : DeskOn(b, q)' => DeskOn(b, q) /\ desk'[b] = desk[b]
      BY <1>3, <2>1, <2>2 DEF DeskOn
    <3>2. Calm(q)
      BY <1>2, <2>1, <3>1 DEF Calm, JobOn
    <3> QED
      BY <1>1, <3>2, CalmKeeps
  <2>3. CASE q = p
    <3>1. ticket[p].method = "MANUAL_BANK_TRANSFER"
      BY <1>5 DEF DeskRead, ReadyForDesk
    <3>2. Fresh(p)' /\ Asked(p)'
      BY <1>1, <1>2, <2>1, <2>3 DEF Sound, Fresh, Asked, Told, JobOn
    <3>3. ByPayos(p)'
      BY <2>1, <3>1 DEF ByPayos
    <3>4. ReadOK(a, p)'
      <4>1. desk'[a].op = op
        BY <2>1
      <4>2. op # "START" => ticket[p].settlement # "NOT_STARTED"
        BY <1>5 DEF DeskRead, ReadyForDesk, DeskOperations
      <4>3. op \in {"COMPLETE", "CONFIRMED_PAID"} => bank[p] = 1
        <5>1. bank[p] \in {0, 1}
          BY <1>1, <2>3, <3>1 DEF Sound, ByHand
        <5> QED
          BY <1>5, <5>1 DEF DeskRead, Truthful
      <4>4. op = "CONFIRMED_NOT_SENT" =>
              /\ bank[p] = 0 /\ ticket[p].settlement = "UNKNOWN"
              /\ ticket[p].starter = a => Amount[p] <= NoSendSelfLimit
        BY <1>5 DEF DeskRead, ReadyForDesk, Truthful, TwoEyePolicy
      <4> QED
        BY <1>2, <2>1, <4>1, <4>2, <4>3, <4>4 DEF ReadOK
    <3>5. \A b \in Actors \ {a} : DeskOn(b, p)' => ReadOK(b, p)'
      BY <1>1, <1>2, <1>3, <2>1, <2>3, <3>1 DEF Sound, ByHand, ReadOK, DeskOn
    <3>6. ByHand(p)'
      BY <1>1, <1>2, <2>1, <2>3, <3>1, <3>4, <3>5 DEF Sound, ByHand, JobOn
    <3> QED
      BY <2>3, <3>2, <3>3, <3>6 DEF Sound
  <2> QED
    BY <2>2, <2>3
<1>6. ASSUME desk'[a] = Idle
      PROVE  \A b \in Actors : DeskOn(b, q)' => b # a /\ DeskOn(b, q) /\ desk'[b] = desk[b]
  BY <1>3, <1>6 DEF DeskOn
<1>7. CASE DeskStart(a)
  <2>1. PICK p \in Payouts : p = desk[a].payout /\ DeskOn(a, p)
    BY <1>7, TaskTypes DEF DeskStart, DeskOn
  <2>2. /\ ticket[p].settlement = "NOT_STARTED"
        /\ ticket' = [ticket EXCEPT ![p] =
             [ticket[p] EXCEPT !.settlement = "PROCESSING", !.starter = a]]
        /\ exec' = exec /\ desk'[a] = Idle
    BY <1>1, <1>7, <2>1 DEF DeskStart
  <2>3. CASE q # p
    <3>1. Calm(q)
      BY <1>1, <1>2, <1>6, <2>2, <2>3 DEF Calm, JobOn
    <3> QED
      BY <1>1, <3>1, CalmKeeps
  <2>4. CASE q = p
    <3>1. /\ ticket'[p].settlement = "PROCESSING"
          /\ ticket'[p].approval = ticket[p].approval
          /\ ticket'[p].method = ticket[p].method
      <4>1. ticket[p] \in Ticket
        BY <1>1
      <4>2. ticket'[p] = [ticket[p] EXCEPT !.settlement = "PROCESSING", !.starter = a]
        BY <1>1, <2>2
      <4> QED
        BY <4>1, <4>2 DEF Ticket
    <3>2. /\ ticket[p].approval = "APPROVED"
          /\ ticket[p].method = "MANUAL_BANK_TRANSFER"
          /\ \A b \in Actors : DeskOn(b, p) => ReadOK(b, p)
      BY <1>4, <2>1, <2>4
    <3>3. Fresh(p)'
      BY <1>1, <2>4, <3>1, <3>2 DEF Sound, Fresh
    <3>4. Asked(p)'
      BY <1>1, <1>2, <2>4 DEF Sound, Asked, Told, JobOn
    <3>5. ByPayos(p)'
      BY <3>1, <3>2 DEF ByPayos
    <3>6. ByHand(p)'
      <4>1. \A b \in Actors : DeskOn(b, p)' => ReadOK(b, p)'
        BY <1>2, <1>6, <2>2, <2>4, <3>1, <3>2 DEF ReadOK
      <4> QED
        BY <1>1, <1>2, <2>2, <2>4, <3>1, <3>2, <4>1 DEF Sound, ByHand, JobOn
    <3> QED
      BY <2>4, <3>3, <3>4, <3>5, <3>6 DEF Sound
  <2> QED
    BY <2>3, <2>4
<1>8. CASE DeskFinalize(a)
  <2>1. PICK p \in Payouts, op \in DeskOperations :
          /\ p = desk[a].payout /\ op = desk[a].op /\ DeskOn(a, p) /\ op # "START"
    <3>1. desk[a] # Idle
      BY <1>8 DEF DeskFinalize
    <3> QED
      BY <1>8, <3>1, TaskTypes DEF DeskFinalize, DeskOn
  <2>2. PICK o \in {"PAID", "FAILED", "UNKNOWN"} : o = DeskOutcome(op)
    BY DEF DeskOutcome
  <2>3. /\ Finalize(p, o, a) /\ o \in Settlements
        /\ desk'[a] = Idle
    BY <1>1, <1>8, <2>1, <2>2 DEF DeskFinalize, Settlements
  <2>4. /\ ticket'[q].approval = ticket[q].approval
        /\ ticket'[q].method = ticket[q].method
        /\ ticket'[q].starter = ticket[q].starter
        /\ exec[q].intent = "NONE" => exec'[q].intent = "NONE"
        /\ \/ /\ ticket'[q].settlement = ticket[q].settlement
              /\ ticket'[q].resolver = ticket[q].resolver
           \/ /\ q = p /\ ~Settled(p)
              /\ ticket'[p].settlement = o
              /\ ticket'[p].resolver = a
    BY <2>3, FinalizeColumns, ActorsAssumption
  <2>5. CASE /\ ticket'[q].settlement = ticket[q].settlement
             /\ ticket'[q].resolver = ticket[q].resolver
    <3>1. Calm(q)
      BY <1>2, <1>6, <2>3, <2>4, <2>5 DEF Calm, JobOn
    <3> QED
      BY <1>1, <3>1, CalmKeeps
  <2>6. CASE q = p /\ ticket'[p].settlement = o /\ ticket'[p].resolver = a
    <3>1. /\ ticket[p].method = "MANUAL_BANK_TRANSFER"
          /\ ReadOK(a, p)
          /\ \A b \in Actors : DeskOn(b, p) => ReadOK(b, p)
      BY <1>4, <2>1, <2>6
    <3>2. /\ o = "PAID" => bank[p] = 1
          /\ o = "FAILED" => /\ bank[p] = 0
                             /\ ticket[p].starter = a => Amount[p] <= NoSendSelfLimit
      BY <2>1, <2>2, <3>1 DEF DeskOutcome, ReadOK
    <3>3. Fresh(p)'
      BY <1>1, <1>2, <2>4, <2>6 DEF Sound, Fresh
    <3>4. Asked(p)'
      BY <1>1, <1>2, <2>6 DEF Sound, Asked, Told, JobOn
    <3>5. ByPayos(p)'
      BY <2>4, <2>6, <3>1 DEF ByPayos
    <3>6. \A b \in Actors : DeskOn(b, p)' => ReadOK(b, p)'
      BY <1>2, <1>6, <2>2, <2>3, <2>4, <2>6, <3>1 DEF ReadOK
    <3>7. Amount[p] \in Int /\ NoSendSelfLimit \in Int
      BY LimitsAssumption
    <3>8. o = "FAILED" /\ Amount[p] > NoSendSelfLimit => ticket'[p].resolver # ticket'[p].starter
      BY <2>4, <2>6, <3>2, <3>7
    <3>9. ByHand(p)'
      BY <1>1, <1>2, <2>2, <2>4, <2>6, <3>1, <3>2, <3>6, <3>8 DEF Sound, ByHand, JobOn
    <3> QED
      BY <2>6, <3>3, <3>4, <3>5, <3>9 DEF Sound
  <2> QED
    BY <2>4, <2>5, <2>6
<1>9. CASE DeskStops(a)
  <2>1. UNCHANGED <<ticket, exec>> /\ desk'[a] = Idle
    BY <1>1, <1>9 DEF DeskStops, tables
  <2>2. Calm(q)
    BY <1>2, <1>6, <2>1 DEF Calm, JobOn
  <2> QED
    BY <1>1, <2>2, CalmKeeps
<1> QED
  BY <1>5, <1>7, <1>8, <1>9 DEF DeskNext

\* PayOS and the bank.
LEMMA OutsideKeepsOwnSound ==
  ASSUME TypeOK, NEW p \in Payouts, OutsideNext(p), Sound(p)
  PROVE  Sound(p)'
<1>1. /\ payos \in [Payouts -> PayosStates] /\ bank \in [Payouts -> Nat]
      /\ wire \in [Payouts -> [sent: Nat, inFlight: BOOLEAN]]
  BY DEF TypeOK
<1>2. UNCHANGED <<ticket, exec, executor, reconciler, desk>>
  BY DEF OutsideNext, PayosAccepts, RequestLost, PayosMoves, TransferByHand, tables
<1>3. CASE PayosAccepts(p) \/ RequestLost(p)
  <2>1. /\ wire[p].inFlight /\ ~wire'[p].inFlight /\ wire'[p].sent = wire[p].sent
        /\ bank' = bank /\ payos'[p] \in {payos[p], "QUEUED"}
    BY <1>1, <1>3 DEF PayosAccepts, RequestLost
  <2>2. payos[p] = "ABSENT" /\ wire[p].sent # 0
    BY <1>1, <2>1 DEF Sound, Asked
  <2>3. \A o : Told(p, o) => Told(p, o)'
    BY <2>1, <2>2 DEF Told
  <2>4. Fresh(p)'
    BY <1>1, <1>2, <2>1 DEF Sound, Fresh
  <2>5. Asked(p)'
    <3>1. executor[p].pc = "ANSWERED" => Told(p, executor[p].answer)'
      BY <1>1, <1>2, <2>1, <2>2 DEF Sound, Asked, Told
    <3>2. \A w \in Reconcilers :
            JobOn(w, p) /\ reconciler[w].pc = "FINALIZE" => Told(p, reconciler[w].answer)'
      BY <1>1, <1>2, <2>1, <2>2 DEF Sound, Asked, Told, JobOn
    <3> QED
      BY <1>1, <1>2, <2>1, <2>2, <3>1, <3>2 DEF Sound, Asked, JobOn
  <2>6. ByPayos(p)'
    BY <1>1, <1>2, <2>1, <2>3 DEF Sound, ByPayos, DeskOn, Told
  <2>7. ByHand(p)'
    BY <1>1, <1>2, <2>1, <2>2 DEF Sound, ByHand
  <2> QED
    BY <2>4, <2>5, <2>6, <2>7 DEF Sound
<1>4. CASE PayosMoves(p)
  <2>1. /\ payos[p] \in {"QUEUED", "PROCESSING"}
        /\ UNCHANGED <<wire, bank>>
    BY <1>1, <1>4 DEF PayosMoves, PayosProgress, PayosStates
  <2>2. wire[p].sent # 0 /\ ~wire[p].inFlight
    BY <1>1, <2>1 DEF Sound, Asked
  <2>3. \A o : Told(p, o) => o # "PAID" /\ o # "FAILED"
    BY <2>1 DEF Told
  <2>4. \A o : Told(p, o) => Told(p, o)'
    BY <2>3 DEF Told
  <2>5. Fresh(p)'
    BY <1>1, <1>2, <2>1 DEF Sound, Fresh
  <2>6. Asked(p)'
    <3>1. executor[p].pc = "ANSWERED" => Told(p, executor[p].answer)'
      BY <1>1, <1>2, <2>1, <2>3 DEF Sound, Asked, Told
    <3>2. \A w \in Reconcilers :
            JobOn(w, p) /\ reconciler[w].pc = "FINALIZE" => Told(p, reconciler[w].answer)'
      BY <1>1, <1>2, <2>1, <2>3 DEF Sound, Asked, Told, JobOn
    <3> QED
      BY <1>1, <1>2, <2>1, <2>2, <3>1, <3>2 DEF Sound, Asked, JobOn
  <2>7. ByPayos(p)'
    BY <1>1, <1>2, <2>1, <2>4 DEF Sound, ByPayos, DeskOn, Told
  <2>8. ByHand(p)'
    BY <1>1, <1>2, <2>2 DEF Sound, ByHand
  <2> QED
    BY <2>5, <2>6, <2>7, <2>8 DEF Sound
<1>5. CASE TransferByHand(p)
  <2>1. /\ ticket[p].approval = "APPROVED"
        /\ ticket[p].method = "MANUAL_BANK_TRANSFER"
        /\ ticket[p].settlement = "PROCESSING"
        /\ bank[p] = 0 /\ bank'[p] = 1
        /\ UNCHANGED <<payos, wire>>
    BY <1>1, <1>5 DEF TransferByHand
  <2>2. Fresh(p)'
    BY <1>1, <1>2, <2>1 DEF Sound, Fresh
  <2>3. Asked(p)'
    BY <1>1, <1>2, <2>1 DEF Sound, Asked, Told, JobOn
  <2>4. ByPayos(p)'
    BY <1>2, <2>1 DEF ByPayos
  <2>5. \A a \in Actors : DeskOn(a, p)' => ReadOK(a, p)'
    BY <1>1, <1>2, <2>1 DEF Sound, ByHand, ReadOK, DeskOn
  <2>6. ByHand(p)'
    BY <1>1, <1>2, <2>1, <2>5 DEF Sound, ByHand, JobOn
  <2> QED
    BY <2>2, <2>3, <2>4, <2>6 DEF Sound
<1> QED
  BY <1>3, <1>4, <1>5 DEF OutsideNext

LEMMA OutsideSound ==
  ASSUME TypeOK, NEW p \in Payouts, OutsideNext(p), NEW q \in Payouts, Sound(q)
  PROVE  Sound(q)'
<1>1. /\ payos \in [Payouts -> PayosStates] /\ bank \in [Payouts -> Nat]
      /\ wire \in [Payouts -> [sent: Nat, inFlight: BOOLEAN]]
  BY DEF TypeOK
<1>2. UNCHANGED <<ticket, exec, executor, reconciler, desk>>
  BY DEF OutsideNext, PayosAccepts, RequestLost, PayosMoves, TransferByHand, tables
<1>3. CASE q # p
  <2>1. payos'[q] = payos[q] /\ wire'[q] = wire[q] /\ bank'[q] = bank[q]
    BY <1>1, <1>3 DEF OutsideNext, PayosAccepts, RequestLost, PayosMoves, TransferByHand
  <2> QED
    BY <1>2, <2>1, CalmKeeps DEF Calm, DeskOn, JobOn
<1> QED
  BY <1>3, OutsideKeepsOwnSound

\* The sweep and QStash.
LEMMA SweepSound ==
  ASSUME TypeOK, NEW q \in Payouts, Sound(q),
         SweepNext \/ \E p \in Payouts, n \in Sequences : DropMessage(p, n)
  PROVE  Sound(q)'
<1>1. ticket \in [Payouts -> Ticket] /\ ticket[q] \in Ticket
  BY DEF TypeOK
<1>2. UNCHANGED <<exec, executor, reconciler, desk, payos, wire, bank>>
  BY DEF SweepNext, SweepRead, SweepFlag, SweepSchedule, SweepStops, DropMessage, tables, outside
<1>3. PICK b \in BOOLEAN : ticket'[q] = [ticket[q] EXCEPT !.review = b]
  BY OthersTickets
<1>4. Calm(q)
  BY <1>1, <1>2, <1>3 DEF Calm, DeskOn, JobOn, Ticket
<1> QED
  BY <1>1, <1>4, CalmKeeps

LEMMA SoundStep ==
  ASSUME ~StaleApprovals, TypeOK, SubmitInv, ImportedInv, OutcomeInv, SoundInv, [Next]_vars
  PROVE  SoundInv'
<1> SUFFICES ASSUME NEW q \in NewPayouts PROVE Sound(q)'
  BY DEF SoundInv
<1>1. q \in Payouts /\ OutcomeOK(q) /\ Sound(q)
  BY DEF NewPayouts, OutcomeInv, SoundInv
<1>2. CASE UNCHANGED vars
  <2>1. Calm(q)
    BY <1>2 DEF Calm, DeskOn, JobOn, vars, tables, outside
  <2> QED
    BY <1>1, <2>1, CalmKeeps
<1>3. ASSUME NEW p \in Payouts, ExecuteNext(p)
      PROVE  Sound(q)'
  <2>1. OutcomeOK(p) /\ Sound(p)
    BY <1>3, ImportedIsNotExecuted DEF OutcomeInv, SoundInv
  <2> QED
    BY <1>1, <1>3, <2>1, ExecuteSound
<1>4. CASE Next
  BY <1>1, <1>3, <1>4, DecideSound, ReconcileSound, DeskSound, OutsideSound, SweepSound
  DEF Next
<1> QED
  BY <1>2, <1>4

LEMMA SoundInvariant ==
  ASSUME ~StaleApprovals
  PROVE  Spec => []SoundInv
<1>1. Init => SoundInv
  <2> SUFFICES ASSUME Init, NEW p \in NewPayouts PROVE Sound(p)
    BY DEF SoundInv
  <2>1. /\ ticket[p] = NoTicket /\ payos[p] = "ABSENT" /\ executor[p] = Idle
        /\ wire[p].sent = 0 /\ ~wire[p].inFlight /\ bank[p] = 0
        /\ \A w \in Reconcilers : reconciler[w] = Idle
    BY DEF Init, NewPayouts
  <2> QED
    BY <2>1 DEF Sound, Fresh, Asked, ByPayos, ByHand, JobOn, NoTicket
<1>2. TypeOK /\ SubmitInv /\ ImportedInv /\ OutcomeInv /\ SoundInv /\ [Next]_vars => SoundInv'
  BY SoundStep
<1>3. (Spec => []SubmitInv) /\ (Spec => []ImportedInv)
  BY SubmitInvariant, ImportedInvariant
<1> QED
  BY <1>1, <1>2, <1>3, TypeCorrect, OutcomesInvariant, PTL DEF Spec

\* Money and ledger tell the same story of every payout at every moment: what
\* was booked paid has left once, what was given back has not and cannot.
LEMMA StoryOfSound ==
  ASSUME TypeOK, SubmitInv, ImportedInv, OutcomeInv, SoundInv
  PROVE  MoneyMatchesLedger /\ PaidAtMostOnce /\ TwoPeopleConfirmNotSent
<1> SUFFICES ASSUME NEW p \in Payouts
             PROVE  /\ "paid" \in journal[p] => TimesPaid(p) = 1
                    /\ "release" \in journal[p] => /\ TimesPaid(p) = 0
                                                   /\ payos[p] \in {"ABSENT", "FAILED"}
                                                   /\ ~wire[p].inFlight
                                                   /\ executor[p].pc # "CLAIMED"
                    /\ TimesPaid(p) <= 1
                    /\ /\ ticket[p].settlement = "FAILED"
                       /\ ticket[p].starter # NoActor
                       /\ Amount[p] > NoSendSelfLimit
                       => ticket[p].resolver # ticket[p].starter
  BY DEF MoneyMatchesLedger, PaidAtMostOnce, TwoPeopleConfirmNotSent
<1>1. /\ ticket[p] \in Ticket /\ bank[p] \in Nat /\ wire[p].sent \in Nat
      /\ SubmitOnce(p)
      /\ p \in NewPayouts =>
           OutcomeOK(p) /\ Fresh(p) /\ Asked(p) /\ ByPayos(p) /\ ByHand(p)
  BY DEF TypeOK, OutcomeInv, SubmitInv, SoundInv, Sound
<1>5. CASE p \in Legacy
  <2>1. ImportedOK(p)
    BY <1>5 DEF ImportedInv
  <2> QED
    BY <2>1 DEF ImportedOK, TimesPaid
<1>2. CASE p \in NewPayouts /\ ticket[p].approval # "APPROVED"
  <2>1. /\ bank[p] = 0 /\ wire[p].sent = 0 /\ ticket[p].starter = NoActor
        /\ payos[p] = "ABSENT" /\ ~wire[p].inFlight
    BY <1>1, <1>2 DEF Fresh, Asked
  <2>2. executor[p] = Idle /\ "paid" \notin journal[p]
    BY <1>1, <1>2 DEF OutcomeOK, Busy
  <2> QED
    BY <2>1, <2>2 DEF TimesPaid
<1>3. CASE p \in NewPayouts /\ ticket[p].approval = "APPROVED" /\ ticket[p].method = "PAYOS"
  <2>1. bank[p] = 0 /\ ticket[p].starter = NoActor /\ Told(p, ticket[p].settlement)
    BY <1>1, <1>3 DEF ByPayos
  <2>2. TimesPaid(p) <= 1
    BY <2>1 DEF TimesPaid
  <2>3. "paid" \in journal[p] => payos[p] = "SUCCEEDED"
    BY <1>1, <1>3, <2>1 DEF OutcomeOK, Told
  <2>4. "release" \in journal[p] => payos[p] = "FAILED"
    BY <1>1, <1>3, <2>1 DEF OutcomeOK, Told
  <2>5. payos[p] = "FAILED" => wire[p].sent # 0 /\ ~wire[p].inFlight
    BY <1>1, <1>3 DEF Asked
  <2>6. wire[p].sent # 0 => executor[p].pc # "CLAIMED"
    BY <1>1 DEF SubmitOnce
  <2> QED
    BY <2>1, <2>2, <2>3, <2>4, <2>5, <2>6 DEF TimesPaid
<1>4. CASE /\ p \in NewPayouts
           /\ ticket[p].approval = "APPROVED" /\ ticket[p].method = "MANUAL_BANK_TRANSFER"
  <2>1. /\ payos[p] = "ABSENT" /\ ~wire[p].inFlight /\ executor[p] = Idle
        /\ bank[p] \in {0, 1}
    BY <1>1, <1>4 DEF ByHand, Asked
  <2>2. "paid" \in journal[p] => bank[p] = 1
    BY <1>1, <1>4 DEF OutcomeOK, ByHand
  <2>3. "release" \in journal[p] => bank[p] = 0
    BY <1>1, <1>4 DEF OutcomeOK, ByHand
  <2>4. /\ ticket[p].settlement = "FAILED" /\ ticket[p].starter # NoActor
        /\ Amount[p] > NoSendSelfLimit
        => ticket[p].resolver # ticket[p].starter
    BY <1>1, <1>4 DEF ByHand
  <2> QED
    BY <2>1, <2>2, <2>3, <2>4 DEF TimesPaid
<1> QED
  BY <1>1, <1>2, <1>3, <1>4, <1>5 DEF Fresh, NewPayouts

\* What the ledger calls paid has left exactly once, and what it gave back has
\* not left and is not on its way, whatever executor, jobs, operators and sweep
\* do to each other, for any payouts, people and limits.
THEOREM MoneyFollowsLedger ==
  ASSUME ~StaleApprovals
  PROVE  Spec => []MoneyMatchesLedger
<1>1. TypeOK /\ SubmitInv /\ ImportedInv /\ OutcomeInv /\ SoundInv => MoneyMatchesLedger
  BY StoryOfSound
<1>2. (Spec => []SubmitInv) /\ (Spec => []ImportedInv)
  BY SubmitInvariant, ImportedInvariant
<1> QED
  BY <1>1, <1>2, TypeCorrect, OutcomesInvariant, SoundInvariant, PTL

\* No payout is paid twice, by one channel or by two.
THEOREM NeverPaidTwice ==
  ASSUME ~StaleApprovals
  PROVE  Spec => []PaidAtMostOnce
<1>1. TypeOK /\ SubmitInv /\ ImportedInv /\ OutcomeInv /\ SoundInv => PaidAtMostOnce
  BY StoryOfSound
<1>2. (Spec => []SubmitInv) /\ (Spec => []ImportedInv)
  BY SubmitInvariant, ImportedInvariant
<1> QED
  BY <1>1, <1>2, TypeCorrect, OutcomesInvariant, SoundInvariant, PTL

\* Nobody declares alone that a large transfer of theirs was never made.
THEOREM TwoPeopleForNotSent ==
  ASSUME ~StaleApprovals
  PROVE  Spec => []TwoPeopleConfirmNotSent
<1>1. TypeOK /\ SubmitInv /\ ImportedInv /\ OutcomeInv /\ SoundInv => TwoPeopleConfirmNotSent
  BY StoryOfSound
<1>2. (Spec => []SubmitInv) /\ (Spec => []ImportedInv)
  BY SubmitInvariant, ImportedInvariant
<1> QED
  BY <1>1, <1>2, TypeCorrect, OutcomesInvariant, SoundInvariant, PTL

-----------------------------------------------------------------------------
(* Every step keeps the contract of PayoutContract.                        *)

\* Only PayOS and the bank move money.
LEMMA MoneyMovesOutside ==
  ASSUME [Next]_vars
  PROVE  UNCHANGED <<payos, bank>> \/ \E p \in Payouts : OutsideNext(p)
<1>1. CASE UNCHANGED vars
  BY <1>1 DEF vars, outside
<1>2. ASSUME NEW p \in Payouts, DecideNext(p) PROVE UNCHANGED <<payos, bank>>
  BY <1>2 DEF DecideNext, Request, Approve, Reject, Cancel, Withdraw, ResolveLegacy, outside
<1>3. ASSUME NEW p \in Payouts, ExecuteNext(p) PROVE UNCHANGED <<payos, bank>>
  BY <1>3 DEF ExecuteNext, ClaimExecution, SendSubmit, ReceiveAnswer, FailSubmit,
      FinalizeSubmit, FinalizeUncertain, ScheduleFirst, ExecutorStops, outside
<1>4. ASSUME NEW w \in Reconcilers, ReconcileNext(w) PROVE UNCHANGED <<payos, bank>>
  BY <1>4 DEF ReconcileNext, RequestReconciliation, DeliverJob, Prepare, QueryPayos,
      FinalizeReconcile, ScheduleNext, ReconcilerStops, outside
<1>5. ASSUME NEW a \in Actors, DeskNext(a) PROVE UNCHANGED <<payos, bank>>
  BY <1>5 DEF DeskNext, DeskRead, DeskStart, DeskFinalize, DeskStops, outside
<1>6. ASSUME SweepNext \/ \E p \in Payouts, n \in Sequences : DropMessage(p, n)
      PROVE  UNCHANGED <<payos, bank>>
  BY <1>6 DEF SweepNext, SweepRead, SweepFlag, SweepSchedule, SweepStops, DropMessage, outside
<1> QED
  BY <1>1, <1>2, <1>3, <1>4, <1>5, <1>6 DEF Next

\* PayOS and the bank pay one payout at a time, out of an open reservation.
LEMMA OutsidePays ==
  ASSUME TypeOK, ImportedInv, ReservedInv, SoundInv, PaidAtMostOnce',
         MoneyMatchesLedger, MoneyMatchesLedger', NEW p \in Payouts, OutsideNext(p)
  PROVE  \/ UNCHANGED Contract!contractVars
         \/ Contract!MoneyLeaves(p)
<1>1. UNCHANGED <<ticket, journal, account>>
  BY DEF OutsideNext, PayosAccepts, RequestLost, PayosMoves, TransferByHand, tables
<1>2. /\ payos \in [Payouts -> PayosStates] /\ bank \in [Payouts -> Nat]
      /\ wire \in [Payouts -> [sent: Nat, inFlight: BOOLEAN]]
      /\ \/ Fresh(p) /\ Asked(p) /\ ReservedOK(p)
         \/ ImportedOK(p)
  BY DEF TypeOK, SoundInv, Sound, ReservedInv, ImportedInv, NewPayouts
<1>3. \A q \in Payouts : /\ TimesPaid(q) \in Nat
                         /\ Phase(q)' = Phase(q)
                         /\ q # p => TimesPaid(q)' = TimesPaid(q)
  <2> TAKE q \in Payouts
  <2>1. TimesPaid(q) \in Nat
    BY <1>2 DEF TimesPaid
  <2>2. Phase(q)' = Phase(q)
    BY <1>1 DEF Phase
  <2>3. q # p => payos'[q] = payos[q] /\ bank'[q] = bank[q]
    BY <1>2 DEF OutsideNext, PayosAccepts, RequestLost, PayosMoves, TransferByHand
  <2> QED
    BY <2>1, <2>2, <2>3 DEF TimesPaid
<1>4. \/ TimesPaid(p)' = TimesPaid(p)
      \/ TimesPaid(p) = 0 /\ TimesPaid(p)' = 1 /\ "reserve" \in journal[p]
  <2>1. CASE PayosAccepts(p) \/ RequestLost(p)
    BY <1>2, <2>1 DEF PayosAccepts, RequestLost, TimesPaid
  <2>2. CASE PayosMoves(p)
    <3>1. bank' = bank /\ payos[p] \in {"QUEUED", "PROCESSING"}
      BY <1>2, <2>2 DEF PayosMoves, PayosProgress, PayosStates
    <3>2. "reserve" \in journal[p]
      BY <1>2, <3>1 DEF Fresh, Asked, ReservedOK, ImportedOK
    <3>3. TimesPaid(p)' <= 1
      BY DEF PaidAtMostOnce
    <3>4. bank[p] \in Nat /\ bank'[p] = bank[p] /\ payos[p] # "SUCCEEDED"
      BY <1>2, <3>1
    <3> QED
      BY <3>2, <3>3, <3>4 DEF TimesPaid
  <2>3. CASE TransferByHand(p)
    <3>1. /\ "reserve" \in journal[p] /\ bank[p] = 0 /\ bank'[p] = 1
          /\ payos'[p] = payos[p]
      BY <1>2, <2>3 DEF TransferByHand, ReservedOK, ImportedOK
    <3>2. TimesPaid(p)' <= 1
      BY DEF PaidAtMostOnce
    <3> QED
      BY <3>1, <3>2 DEF TimesPaid
  <2> QED
    BY <2>1, <2>2, <2>3 DEF OutsideNext
<1>5. CASE TimesPaid(p)' = TimesPaid(p)
  BY <1>1, <1>3, <1>5 DEF Contract!contractVars
<1>6. CASE TimesPaid(p) = 0 /\ TimesPaid(p)' = 1 /\ "reserve" \in journal[p]
  <2>1. "paid" \notin journal[p]
    BY <1>6 DEF MoneyMatchesLedger
  <2>2. "release" \notin journal[p]
    BY <1>1, <1>6 DEF MoneyMatchesLedger
  <2>3. Phase(p) = "held"
    BY <1>6, <2>1, <2>2 DEF Phase
  <2> QED
    BY <1>1, <1>3, <1>6, <2>3 DEF Contract!MoneyLeaves
<1> QED
  BY <1>4, <1>5, <1>6

LEMMA ContractStep ==
  ASSUME TypeOK, TypeOK', ImportedInv, OutcomeInv, ReservedInv, SoundInv,
         MoneyMatchesLedger, MoneyMatchesLedger', PaidAtMostOnce', [Next]_vars
  PROVE  [Contract!Next]_(Contract!contractVars)
<1>1. /\ ticket \in [Payouts -> Ticket]
      /\ journal \in [Payouts -> SUBSET {"reserve", "paid", "release"}]
      /\ account \in Account
  BY DEF TypeOK
<1>2. CASE \E p \in Payouts : OutsideNext(p)
  BY <1>2, OutsidePays DEF Contract!Next
<1>3. CASE ~\E p \in Payouts : OutsideNext(p)
  <2>1. UNCHANGED <<payos, bank>>
    BY <1>3, MoneyMovesOutside
  <2>2. \A q \in Payouts : TimesPaid(q)' = TimesPaid(q)
    BY <2>1 DEF TimesPaid
  <2>3. CASE UNCHANGED <<journal, account>>
    BY <2>2, <2>3 DEF Contract!contractVars, Phase
  <2>4. ASSUME NEW p \in Payouts, Request(p)
        PROVE  Contract!Hold(p)
    <3>1. journal[p] = {}
      BY <2>4, RequestIsNew
    <3>2. journal' = [journal EXCEPT ![p] = journal[p] \union {"reserve"}]
      BY <2>4 DEF Request
    <3>3. Phase(p) = "none" /\ Phase(p)' = "held"
      BY <1>1, <3>1, <3>2 DEF Phase
    <3>4. \A q \in Payouts \ {p} : Phase(q)' = Phase(q)
      BY <1>1, <3>2 DEF Phase
    <3>5. /\ account.available >= Amount[p]
          /\ account'.available = account.available - Amount[p]
      BY <1>1, <2>4 DEF Request, Account
    <3> QED
      BY <2>2, <3>3, <3>4, <3>5 DEF Contract!Hold
  <2>5. ASSUME NEW p \in Payouts, NEW o \in Terminal, EndsReservation(p, o)
        PROVE  Contract!Spend(p) \/ Contract!Return(p)
    <3>1. Phase(p) = "held"
      BY <2>5 DEF EndsReservation, Held, Phase
    <3>2. journal' = [journal EXCEPT ![p] = journal[p] \union Posted(o)]
      BY <2>5 DEF EndsReservation
    <3>3. \A q \in Payouts \ {p} : Phase(q)' = Phase(q)
      BY <1>1, <3>2 DEF Phase
    <3>4. CASE o = "PAID"
      <4>1. "paid" \in journal'[p]
        BY <1>1, <3>2, <3>4 DEF Posted, Terminal
      <4>2. Phase(p)' = "spent"
        BY <4>1 DEF Phase
      <4>3. TimesPaid(p)' = 1
        BY <4>1 DEF MoneyMatchesLedger
      <4>4. account'.available = account.available
        BY <1>1, <2>5, <3>4 DEF EndsReservation, AccountAfter, Account
      <4> QED
        BY <2>2, <3>1, <3>3, <4>2, <4>3, <4>4 DEF Contract!Spend
    <3>5. CASE o = "FAILED"
      <4>1. "release" \in journal'[p] /\ "paid" \notin journal'[p]
        BY <1>1, <2>5, <3>2, <3>5 DEF EndsReservation, Held, Posted, Terminal
      <4>2. Phase(p)' = "returned"
        BY <4>1 DEF Phase
      <4>3. TimesPaid(p)' = 0
        BY <4>1 DEF MoneyMatchesLedger
      <4>4. account'.available = account.available + Amount[p]
        BY <1>1, <2>5, <3>5 DEF EndsReservation, AccountAfter, Account
      <4> QED
        BY <2>2, <3>1, <3>3, <4>2, <4>3, <4>4 DEF Contract!Return
    <3> QED
      BY <3>4, <3>5 DEF Terminal
  <2>6. LedgerStep
    BY LedgerSteps
  <2> QED
    BY <2>3, <2>4, <2>5, <2>6 DEF LedgerStep, Contract!Next
<1> QED
  BY <1>2, <1>3

LEMMA ContractInit ==
  ASSUME Init, TypeOK, ImportedInv, MoneyMatchesLedger, PaidAtMostOnce
  PROVE  Contract!Init
<1>1. account.available \in Nat
  BY DEF Init, Account
<1>2. ASSUME NEW p \in Payouts
      PROVE  /\ Phase(p) \in {"none", "held", "spent", "returned"}
             /\ TimesPaid(p) \in {0, 1}
             /\ Phase(p) = "spent" => TimesPaid(p) = 1
             /\ Phase(p) \in {"none", "returned"} => TimesPaid(p) = 0
  <2>1. TimesPaid(p) \in {0, 1}
    <3>1. bank[p] \in Nat
      BY DEF TypeOK
    <3> QED
      BY <3>1 DEF PaidAtMostOnce, TimesPaid
  <2>2. CASE Phase(p) = "none"
    <3>1. p \notin Legacy
      BY <2>2 DEF Phase, ImportedInv, ImportedOK
    <3>2. payos[p] = "ABSENT" /\ bank[p] = 0
      BY <3>1 DEF Init
    <3> QED
      BY <2>2, <3>2 DEF TimesPaid
  <2>3. CASE Phase(p) # "none"
    BY <2>1, <2>3 DEF Phase, MoneyMatchesLedger
  <2> QED
    BY <2>2, <2>3
<1> QED
  BY <1>1, <1>2 DEF Contract!Init

\* The executor, the jobs, the sweep, the operators and PayOS together
\* implement the contract of the source account: money is set aside before it
\* leaves, leaves once and only out of an open reservation, and the reservation
\* ends as spent if it left and as returned if it did not.
THEOREM ContractKept ==
  ASSUME ~StaleApprovals
  PROVE  Spec => KeepsContract
<1>1. Init /\ TypeOK /\ ImportedInv /\ MoneyMatchesLedger /\ PaidAtMostOnce => Contract!Init
  BY ContractInit
<1>2. /\ TypeOK /\ TypeOK' /\ ImportedInv /\ OutcomeInv /\ ReservedInv /\ SoundInv
      /\ MoneyMatchesLedger /\ MoneyMatchesLedger' /\ PaidAtMostOnce'
      /\ [Next]_vars
      => [Contract!Next]_(Contract!contractVars)
  BY ContractStep
<1> QED
  BY <1>1, <1>2, TypeCorrect, ImportedInvariant, OutcomesInvariant, ReservedInvariant,
     SoundInvariant, MoneyFollowsLedger, NeverPaidTwice, PTL
  DEF Spec, KeepsContract, Contract!Spec
=============================================================================
