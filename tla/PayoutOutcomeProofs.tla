------------------------ MODULE PayoutOutcomeProofs -------------------------
(***************************************************************************)
(* Proofs about TenantPayout, for every set of payouts, actors and         *)
(* workers, every amount and limit: the types, and the outcomes. A payout  *)
(* is submitted to PayOS at most once, its reconciliations are numbered    *)
(* without a gap, and its reservation ends once, also where the migration  *)
(* imported it. The outcome of a payout requested under this version is    *)
(* final, and its intent tells it.                                         *)
(***************************************************************************)
EXTENDS TenantPayout, FiniteSetTheorems, TLAPS

Entries == {"reserve", "paid", "release"}

USE DEF Idle

-----------------------------------------------------------------------------
(* Type correctness.                                                       *)

\* A posted outcome keeps the types of the ledger and of the projection.
LEMMA PostOutcomeTypes ==
  ASSUME TypeOK, NEW p \in Payouts, NEW outcome, PostOutcome(p, outcome)
  PROVE  journal' \in [Payouts -> SUBSET Entries] /\ account' \in Account
<1>1. Amount[p] \in Nat
  BY LimitsAssumption
<1>2. CASE UNCHANGED <<journal, account>>
  BY <1>2 DEF TypeOK, Entries
<1>3. CASE /\ account.reserved >= Amount[p]
           /\ journal' = [journal EXCEPT ![p] = @ \union
                            {IF outcome = "PAID" THEN "paid" ELSE "release"}]
           /\ account' = AccountAfter(outcome, Amount[p])
  <2>1. journal' \in [Payouts -> SUBSET Entries]
    BY <1>3 DEF TypeOK, Entries
  <2>2. /\ account \in Account
        /\ account.reserved - Amount[p] \in Nat
        /\ account.paid + Amount[p] \in Nat
        /\ account.available + Amount[p] \in Nat
    BY <1>1, <1>3 DEF TypeOK, Account
  <2>3. CASE outcome = "PAID"
    <3>1. \A r, q \in Nat : [account EXCEPT !.reserved = r, !.paid = q] \in Account
      BY <2>2 DEF Account
    <3> QED
      BY <1>3, <2>1, <2>2, <2>3, <3>1 DEF AccountAfter
  <2>4. CASE outcome # "PAID"
    <3>1. \A r, q \in Nat : [account EXCEPT !.reserved = r, !.available = q] \in Account
      BY <2>2 DEF Account
    <3> QED
      BY <1>3, <2>1, <2>2, <2>4, <3>1 DEF AccountAfter
  <2> QED
    BY <2>1, <2>3, <2>4
<1> QED
  BY <1>2, <1>3 DEF PostOutcome

\* finalizeTenantPayoutSettlement keeps the types of the tables.
LEMMA FinalizeTypes ==
  ASSUME TypeOK, NEW p \in Payouts, NEW outcome \in Settlements,
         NEW actor \in Actors \union {NoActor}, Finalize(p, outcome, actor)
  PROVE  /\ ticket' \in [Payouts -> Ticket]
         /\ exec' \in [Payouts -> Execution]
         /\ journal' \in [Payouts -> SUBSET Entries]
         /\ account' \in Account
<1>1. CASE Settled(p)
  BY <1>1 DEF Finalize, tables, TypeOK, Entries
<1>2. CASE ~Settled(p)
  <2>1. journal' \in [Payouts -> SUBSET Entries] /\ account' \in Account
    BY <1>2, PostOutcomeTypes DEF Finalize
  <2>2. ticket' \in [Payouts -> Ticket]
    <3>1. ticket \in [Payouts -> Ticket]
      BY DEF TypeOK
    <3> DEFINE row == [ticket[p] EXCEPT
                         !.settlement = outcome,
                         !.resolver = IF actor = NoActor THEN ticket[p].resolver ELSE actor,
                         !.posted = ticket[p].posted \/ outcome \in Terminal]
    <3>2. ticket' = [ticket EXCEPT ![p] = row]
      BY <1>2, <3>1 DEF Finalize
    <3>3. (ticket[p].posted \/ outcome \in Terminal) \in BOOLEAN
      OBVIOUS
    <3>4. row \in Ticket
      BY <3>1, <3>3 DEF Ticket
    <3> QED
      BY <3>1, <3>2, <3>4
  <2>3. IntentAfter(outcome) \in IntentStatuses
    BY DEF IntentAfter, IntentStatuses
  <2>4. exec' \in [Payouts -> Execution]
    <3>1. exec \in [Payouts -> Execution]
      BY DEF TypeOK
    <3> DEFINE row == [exec[p] EXCEPT
                         !.intent = IF exec[p].intent = "NONE" THEN "NONE"
                                    ELSE IntentAfter(outcome)]
    <3>2. exec' = [exec EXCEPT ![p] = row]
      BY <1>2, <3>1 DEF Finalize
    <3>3. row \in Execution
      BY <2>3, <3>1 DEF Execution, IntentStatuses
    <3> QED
      BY <3>1, <3>2, <3>3
  <2> QED
    BY <2>1, <2>2, <2>4
<1> QED
  BY <1>1, <1>2

\* schedulePayoutReconciliation keeps the types of the tickets and the queue.
LEMMA ScheduleTypes ==
  ASSUME TypeOK, NEW p \in Payouts, NEW n \in Nat \ {0}, ScheduleReconciliation(p, n)
  PROVE  ticket' \in [Payouts -> Ticket] /\ queue' \subseteq Messages
<1>1. n <= MaxSequence => <<p, n>> \in Messages
  BY LimitsAssumption DEF Messages, Sequences
<1>2. ticket \in [Payouts -> Ticket] /\ queue \subseteq Messages
  BY DEF TypeOK
<1>3. [ticket[p] EXCEPT !.review = TRUE] \in Ticket
  BY <1>2 DEF Ticket
<1>4. [ticket EXCEPT ![p].review = TRUE] \in [Payouts -> Ticket]
  BY <1>2, <1>3
<1> QED
  BY <1>1, <1>2, <1>4 DEF ScheduleReconciliation

LEMMA ObservationTypes ==
  ASSUME NEW s PROVE Observation(s) \in Settlements
BY DEF Observation, Settlements

LEMMA InitTypes == Init => TypeOK
<1> SUFFICES ASSUME Init PROVE TypeOK
  OBVIOUS
<1>1. PICK import \in [Legacy -> ImportedPayouts] :
        /\ ticket = [p \in Payouts |-> IF p \in Legacy THEN import[p].row ELSE NoTicket]
        /\ exec = [p \in Payouts |->
                     [NoExecution EXCEPT !.submit = p \in Legacy /\ import[p].submit]]
        /\ journal = [p \in Payouts |-> IF p \in Legacy THEN import[p].entries ELSE {}]
        /\ payos = [p \in Payouts |-> IF p \in Legacy THEN import[p].payos ELSE "ABSENT"]
  BY DEF Init
<1>2. NoTicket \in Ticket /\ NoExecution \in Execution
  BY DEF NoTicket, Ticket, NoExecution, Execution, Approvals, Settlements, IntentStatuses
<1>3. ASSUME NEW i \in ImportedPayouts
      PROVE  /\ i.row \in Ticket /\ i.submit \in BOOLEAN
             /\ i.entries \subseteq Entries /\ i.payos \in PayosStates
  <2>1. ASSUME NEW a \in Approvals, NEW s \in Settlements, NEW r \in BOOLEAN,
               NEW l \in {"PENDING", "MANUAL_REVIEW", "RESOLVED"}
        PROVE  ImportedRow(a, s, l, r) \in Ticket
    BY <1>2 DEF ImportedRow, Ticket
  <2>2. /\ ImportedRow("PENDING", "NOT_STARTED", "PENDING", FALSE) \in Ticket
        /\ ImportedRow("CANCELLED", "NOT_STARTED", "PENDING", FALSE) \in Ticket
        /\ ImportedRow("APPROVED", "PAID", "RESOLVED", FALSE) \in Ticket
        /\ ImportedRow("PENDING", "UNKNOWN", "MANUAL_REVIEW", TRUE) \in Ticket
        /\ ImportedRow("PENDING", "NOT_STARTED", "MANUAL_REVIEW", TRUE) \in Ticket
    BY <2>1 DEF Approvals, Settlements
  <2> DEFINE Import(row, b, e, s) ==
        [row |-> row, submit |-> b, entries |-> e, payos |-> s]
  <2>3. ASSUME NEW row \in Ticket, NEW b \in BOOLEAN, NEW e \in SUBSET Entries,
               NEW s \in PayosStates
        PROVE  Import(row, b, e, s) \in
                 [row: Ticket, submit: BOOLEAN, entries: SUBSET Entries, payos: PayosStates]
    OBVIOUS
  <2>4. \E row \in Ticket, b \in BOOLEAN, e \in SUBSET Entries, s \in PayosStates :
          i = Import(row, b, e, s)
    BY <2>2, Zenon DEF ImportedPayouts, Undecided, Entries, PayosStates
  <2>5. i \in [row: Ticket, submit: BOOLEAN, entries: SUBSET Entries, payos: PayosStates]
    BY <2>3, <2>4
  <2> QED
    BY <2>5
<1>4. /\ ticket \in [Payouts -> Ticket]
      /\ exec \in [Payouts -> Execution]
      /\ journal \in [Payouts -> SUBSET Entries]
      /\ payos \in [Payouts -> PayosStates]
  <2>1. "ABSENT" \in PayosStates
    BY DEF PayosStates
  <2>2. exec \in [Payouts -> Execution]
    BY <1>1, <1>2, <1>3 DEF Execution, NoExecution
  <2> QED
    BY <1>1, <1>2, <1>3, <2>1, <2>2
<1>5. account \in Account /\ queue \subseteq Messages /\ sweep = Idle
  BY DEF Init, Messages
<1>6. /\ executor \in [Payouts -> ExecutorStates]
      /\ reconciler \in [Reconcilers -> ReconcilerStates]
      /\ desk \in [Actors -> {Idle}]
  BY DEF Init, ExecutorStates, ReconcilerStates
<1>7. wire \in [Payouts -> [sent: Nat, inFlight: BOOLEAN]] /\ bank \in [Payouts -> Nat]
  BY DEF Init
<1> QED
  BY <1>4, <1>5, <1>6, <1>7 DEF TypeOK, Entries

\* Requests, approvals and withdrawals.
LEMMA DecideTypes ==
  ASSUME TypeOK, NEW p \in Payouts, DecideNext(p)
  PROVE  TypeOK'
<1>1. /\ ticket \in [Payouts -> Ticket] /\ exec \in [Payouts -> Execution]
      /\ journal \in [Payouts -> SUBSET Entries] /\ account \in Account
  BY DEF TypeOK, Entries
<1>2. ASSUME /\ ticket' \in [Payouts -> Ticket] /\ exec' \in [Payouts -> Execution]
             /\ journal' \in [Payouts -> SUBSET Entries] /\ account' \in Account
             /\ UNCHANGED <<executor, reconciler, queue, desk, sweep, outside>>
      PROVE  TypeOK'
  BY <1>2 DEF TypeOK, outside, Entries
<1>3. CASE Request(p)
  <2>1. [ticket[p] EXCEPT !.approval = "PENDING"] \in Ticket
    BY <1>1 DEF Ticket, Approvals
  <2>2. ticket' = [ticket EXCEPT ![p] = [ticket[p] EXCEPT !.approval = "PENDING"]]
    BY <1>1, <1>3 DEF Request
  <2>3. Amount[p] \in Nat /\ account.available - Amount[p] \in Nat
        /\ account.reserved + Amount[p] \in Nat
    <3>1. Amount[p] \in Nat
      BY LimitsAssumption
    <3>2. account.available >= Amount[p]
      BY <1>3 DEF Request
    <3> QED
      BY <1>1, <3>1, <3>2 DEF Account
  <2>4. \A r, q \in Nat : [account EXCEPT !.available = r, !.reserved = q] \in Account
    BY <1>1 DEF Account
  <2>5. account' \in Account
    BY <1>3, <2>3, <2>4 DEF Request
  <2>6. journal' \in [Payouts -> SUBSET Entries]
    BY <1>1, <1>3 DEF Request, Entries
  <2> QED
    BY <1>1, <1>2, <1>3, <2>1, <2>2, <2>5, <2>6 DEF Request
<1>4. ASSUME NEW a \in Actors, NEW m \in Methods, Approve(a, p, m)
      PROVE  TypeOK'
  <2>1. HeldForReview(a, p) \in BOOLEAN
    BY DEF HeldForReview, SelfApproval
  <2>2. m \in {"NONE", "PAYOS", "MANUAL_BANK_TRANSFER"}
    BY MethodsAssumption
  <2>3. \A h \in BOOLEAN :
          [ticket[p] EXCEPT !.approval = "APPROVED", !.method = m, !.review = h] \in Ticket
    BY ZenonT(30), <1>1, <2>2 DEF Ticket, Approvals
  <2>4. ticket' = [ticket EXCEPT ![p] =
           [ticket[p] EXCEPT !.approval = "APPROVED", !.method = m,
                             !.review = HeldForReview(a, p)]]
    BY <1>1, <1>4 DEF Approve
  <2>5. [exec[p] EXCEPT !.intent = "READY"] \in Execution
    BY <1>1 DEF Execution, IntentStatuses
  <2>6. exec' \in [Payouts -> Execution]
    BY <1>1, <1>4, <2>5 DEF Approve
  <2> QED
    BY ZenonT(30), <1>1, <1>2, <1>4, <2>1, <2>3, <2>4, <2>6 DEF Approve
<1>5. ASSUME NEW d \in {"REJECTED", "CANCELLED"}, Withdraw(p, d)
      PROVE  TypeOK'
  <2>1. journal' \in [Payouts -> SUBSET Entries] /\ account' \in Account
    BY <1>5, PostOutcomeTypes DEF Withdraw
  <2>2. [ticket[p] EXCEPT !.approval = d, !.posted = TRUE] \in Ticket
    BY ZenonT(30), <1>1 DEF Ticket, Approvals
  <2>3. ticket' = [ticket EXCEPT ![p] = [ticket[p] EXCEPT !.approval = d, !.posted = TRUE]]
    BY <1>1, <1>5 DEF Withdraw
  <2> QED
    BY <1>1, <1>2, <1>5, <2>1, <2>2, <2>3 DEF Withdraw
<1>6. ASSUME NEW d \in LegacyDecisions, NEW r \in BOOLEAN, ResolveLegacy(p, d, r)
      PROVE  TypeOK'
  <2>1. journal' \in [Payouts -> SUBSET Entries] /\ account' \in Account
    BY <1>6, PostOutcomeTypes DEF ResolveLegacy
  <2>2. /\ LegacyApproval(d) \in Approvals /\ LegacySettlement(d) \in Settlements
        /\ \A s : LegacyIntent(s) \in IntentStatuses
    BY DEF LegacyApproval, LegacySettlement, LegacyIntent, Approvals, Settlements,
           IntentStatuses
  <2> DEFINE row(l, v, b) ==
        [ticket[p] EXCEPT !.approval = LegacyApproval(d), !.settlement = LegacySettlement(d),
                          !.legacy = l, !.review = v, !.posted = b]
  <2>3. \A l \in {"MANUAL_REVIEW", "RESOLVED"}, v, b \in BOOLEAN : row(l, v, b) \in Ticket
    BY ZenonT(30), <1>1, <2>2 DEF Ticket
  <2>4. ticket' = [ticket EXCEPT ![p] =
           row(IF d = "REMAIN_UNKNOWN" THEN "MANUAL_REVIEW" ELSE "RESOLVED",
               d = "REMAIN_UNKNOWN", ticket[p].posted \/ d # "REMAIN_UNKNOWN")]
    BY <1>1, <1>6 DEF ResolveLegacy
  <2>5. /\ (d = "REMAIN_UNKNOWN") \in BOOLEAN
        /\ (ticket[p].posted \/ d # "REMAIN_UNKNOWN") \in BOOLEAN
    OBVIOUS
  <2>6. ticket' \in [Payouts -> Ticket]
    BY <1>1, <2>3, <2>4, <2>5
  <2>7. \A s \in IntentStatuses : [exec[p] EXCEPT !.intent = s] \in Execution
    BY <1>1 DEF Execution
  <2>8. exec[p].intent \in IntentStatuses
    BY <1>1 DEF Execution
  <2>9. exec' = [exec EXCEPT ![p] =
           [exec[p] EXCEPT !.intent = IF r /\ exec[p].intent = "NONE"
                                      THEN LegacyIntent(LegacySettlement(d))
                                      ELSE exec[p].intent]]
    BY <1>1, <1>6 DEF ResolveLegacy
  <2> QED
    BY <1>1, <1>2, <1>6, <2>1, <2>2, <2>6, <2>7, <2>8, <2>9 DEF ResolveLegacy
<1> QED
  BY <1>3, <1>4, <1>5, <1>6 DEF DecideNext, Reject, Cancel

\* The inline executor.
LEMMA ExecuteTypes ==
  ASSUME TypeOK, NEW p \in Payouts, ExecuteNext(p)
  PROVE  TypeOK'
<1>1. /\ ticket \in [Payouts -> Ticket] /\ exec \in [Payouts -> Execution]
      /\ executor \in [Payouts -> ExecutorStates]
  BY DEF TypeOK
<1>2. ASSUME NEW s \in ExecutorStates, executor' = [executor EXCEPT ![p] = s]
      PROVE  executor' \in [Payouts -> ExecutorStates]
  BY <1>1, <1>2
<1>3. /\ Idle \in ExecutorStates
      /\ \A c \in {"CLAIMED", "CALLING", "CAUGHT", "SCHEDULE"} : [pc |-> c] \in ExecutorStates
      /\ \A s \in Settlements : [pc |-> "ANSWERED", answer |-> s] \in ExecutorStates
  BY DEF ExecutorStates
<1>4. CASE ClaimExecution(p)
  <2>1. [ticket[p] EXCEPT !.settlement = "PROCESSING"] \in Ticket
    BY <1>1 DEF Ticket, Settlements
  <2>2. ticket' = [ticket EXCEPT ![p] = [ticket[p] EXCEPT !.settlement = "PROCESSING"]]
    BY <1>1, <1>4 DEF ClaimExecution
  <2>3. [exec[p] EXCEPT !.intent = "REQUESTED", !.submit = TRUE] \in Execution
    BY <1>1 DEF Execution, IntentStatuses
  <2>4. exec' = [exec EXCEPT ![p] = [exec[p] EXCEPT !.intent = "REQUESTED", !.submit = TRUE]]
    BY <1>1, <1>4 DEF ClaimExecution
  <2>5. ticket' \in [Payouts -> Ticket] /\ exec' \in [Payouts -> Execution]
    BY <1>1, <2>1, <2>2, <2>3, <2>4
  <2>6. executor' \in [Payouts -> ExecutorStates]
    BY <1>2, <1>3, <1>4 DEF ClaimExecution
  <2> QED
    BY <1>4, <2>5, <2>6 DEF ClaimExecution, TypeOK, outside
<1>5. CASE SendSubmit(p)
  <2>1. executor' \in [Payouts -> ExecutorStates]
    BY <1>2, <1>3, <1>5 DEF SendSubmit
  <2>2. wire' \in [Payouts -> [sent: Nat, inFlight: BOOLEAN]]
    BY <1>5 DEF SendSubmit, TypeOK
  <2> QED
    BY <1>5, <2>1, <2>2 DEF SendSubmit, TypeOK, tables
<1>6. CASE ReceiveAnswer(p)
  <2>1. executor' \in [Payouts -> ExecutorStates]
    BY <1>2, <1>3, <1>6, ObservationTypes DEF ReceiveAnswer
  <2> QED
    BY <1>6, <2>1 DEF ReceiveAnswer, TypeOK, tables, outside
<1>7. CASE FailSubmit(p)
  <2>1. executor' \in [Payouts -> ExecutorStates]
    BY <1>2, <1>3, <1>7 DEF FailSubmit
  <2> QED
    BY <1>7, <2>1 DEF FailSubmit, TypeOK, tables, outside
<1>8. CASE FinalizeSubmit(p)
  <2>1. executor[p].answer \in Settlements
    BY <1>1, <1>8 DEF FinalizeSubmit, ExecutorStates
  <2>2. /\ ticket' \in [Payouts -> Ticket] /\ exec' \in [Payouts -> Execution]
        /\ journal' \in [Payouts -> SUBSET Entries] /\ account' \in Account
    BY <1>8, <2>1, FinalizeTypes DEF FinalizeSubmit
  <2>3. executor' \in [Payouts -> ExecutorStates]
    BY <1>2, <1>3, <1>8 DEF FinalizeSubmit
  <2> QED
    BY <1>8, <2>2, <2>3 DEF FinalizeSubmit, TypeOK, outside, Entries
<1>9. CASE FinalizeUncertain(p)
  <2>1. "UNKNOWN" \in Settlements
    BY DEF Settlements
  <2>2. /\ ticket' \in [Payouts -> Ticket] /\ exec' \in [Payouts -> Execution]
        /\ journal' \in [Payouts -> SUBSET Entries] /\ account' \in Account
    BY <1>9, <2>1, FinalizeTypes DEF FinalizeUncertain
  <2>3. executor' \in [Payouts -> ExecutorStates]
    BY <1>2, <1>3, <1>9 DEF FinalizeUncertain
  <2> QED
    BY <1>9, <2>2, <2>3 DEF FinalizeUncertain, TypeOK, outside, Entries
<1>10. CASE ScheduleFirst(p)
  <2>1. ticket' \in [Payouts -> Ticket] /\ queue' \subseteq Messages
    BY <1>10, ScheduleTypes DEF ScheduleFirst
  <2>2. executor' \in [Payouts -> ExecutorStates]
    BY <1>2, <1>3, <1>10 DEF ScheduleFirst
  <2> QED
    BY <1>10, <2>1, <2>2 DEF ScheduleFirst, TypeOK, outside
<1>11. CASE ExecutorStops(p)
  <2>1. executor' \in [Payouts -> ExecutorStates]
    BY <1>2, <1>3, <1>11 DEF ExecutorStops
  <2> QED
    BY <1>11, <2>1 DEF ExecutorStops, TypeOK, tables, outside
<1> QED
  BY <1>4, <1>5, <1>6, <1>7, <1>8, <1>9, <1>10, <1>11 DEF ExecuteNext

\* The reconcilers.
LEMMA ReconcileTypes ==
  ASSUME TypeOK, NEW w \in Reconcilers, ReconcileNext(w)
  PROVE  TypeOK'
<1>1. exec \in [Payouts -> Execution] /\ reconciler \in [Reconcilers -> ReconcilerStates]
  BY DEF TypeOK
<1>2. ASSUME NEW s \in ReconcilerStates, reconciler' = [reconciler EXCEPT ![w] = s]
      PROVE  reconciler' \in [Reconcilers -> ReconcilerStates]
  BY <1>1, <1>2
<1>3. /\ Idle \in ReconcilerStates
      /\ \A c \in {"QUERY", "SCHEDULE"}, p \in Payouts, n \in Sequences, b \in BOOLEAN :
           [pc |-> c, payout |-> p, seq |-> n, job |-> b] \in ReconcilerStates
      /\ \A p \in Payouts, n \in Sequences, b \in BOOLEAN, s \in Settlements :
           [pc |-> "FINALIZE", payout |-> p, seq |-> n, job |-> b, answer |-> s]
             \in ReconcilerStates
  BY DEF ReconcilerStates
<1>4. ASSUME NEW p \in Payouts, NEW n \in Sequences, NEW b \in BOOLEAN,
             Prepare(w, p, n, b), queue' = queue
      PROVE  TypeOK'
  <2>1. [exec[p] EXCEPT !.rows = exec[p].rows \union {n}] \in Execution
    BY <1>1 DEF Execution
  <2>2. exec' = [exec EXCEPT ![p] = [exec[p] EXCEPT !.rows = exec[p].rows \union {n}]]
    BY <1>1, <1>4 DEF Prepare
  <2>3. exec' \in [Payouts -> Execution]
    BY <1>1, <2>1, <2>2
  <2>4. reconciler' \in [Reconcilers -> ReconcilerStates]
    BY <1>2, <1>3, <1>4 DEF Prepare
  <2> QED
    BY <1>4, <2>3, <2>4 DEF Prepare, TypeOK, outside
<1>5. 1 \in Sequences
  BY LimitsAssumption DEF Sequences
<1>6. ASSUME reconciler[w].pc \in {"QUERY", "SCHEDULE", "FINALIZE"}
      PROVE  /\ reconciler[w].payout \in Payouts
             /\ reconciler[w].seq \in Sequences
             /\ reconciler[w].job \in BOOLEAN
             /\ reconciler[w].pc = "FINALIZE" => reconciler[w].answer \in Settlements
  BY <1>1, <1>6 DEF ReconcilerStates
<1>7. CASE QueryPayos(w)
  <2>1. PICK answer \in {Observation(payos[reconciler[w].payout]), "UNKNOWN"} :
          reconciler' = [reconciler EXCEPT
             ![w] = [pc |-> "FINALIZE", payout |-> reconciler[w].payout,
                     seq |-> reconciler[w].seq, job |-> reconciler[w].job,
                     answer |-> answer]]
    BY <1>1, <1>7 DEF QueryPayos
  <2>2. answer \in Settlements
    BY <2>1, ObservationTypes DEF Settlements
  <2>3. reconciler' \in [Reconcilers -> ReconcilerStates]
    BY <1>2, <1>3, <1>6, <1>7, <2>1, <2>2 DEF QueryPayos
  <2> QED
    BY <1>7, <2>3 DEF QueryPayos, TypeOK, tables, outside
<1>8. CASE FinalizeReconcile(w)
  <2>1. /\ ticket' \in [Payouts -> Ticket] /\ exec' \in [Payouts -> Execution]
        /\ journal' \in [Payouts -> SUBSET Entries] /\ account' \in Account
    BY <1>6, <1>8, FinalizeTypes DEF FinalizeReconcile
  <2>2. reconciler' \in [Reconcilers -> ReconcilerStates]
    BY <1>2, <1>3, <1>6, <1>8 DEF FinalizeReconcile
  <2> QED
    BY <1>8, <2>1, <2>2 DEF FinalizeReconcile, TypeOK, outside, Entries
<1>9. CASE ScheduleNext(w)
  <2>1. reconciler[w].seq + 1 \in Nat \ {0}
    BY <1>6, <1>9, LimitsAssumption DEF ScheduleNext, Sequences
  <2>2. ticket' \in [Payouts -> Ticket] /\ queue' \subseteq Messages
    BY <1>6, <1>9, <2>1, ScheduleTypes DEF ScheduleNext
  <2>3. reconciler' \in [Reconcilers -> ReconcilerStates]
    BY <1>2, <1>3, <1>9 DEF ScheduleNext
  <2> QED
    BY <1>9, <2>2, <2>3 DEF ScheduleNext, TypeOK, outside
<1>10. CASE ReconcilerStops(w)
  <2>1. reconciler' \in [Reconcilers -> ReconcilerStates]
    BY <1>2, <1>3, <1>10 DEF ReconcilerStops
  <2> QED
    BY <1>10, <2>1 DEF ReconcilerStops, TypeOK, tables, outside
<1> QED
  BY <1>4, <1>5, <1>7, <1>8, <1>9, <1>10
  DEF ReconcileNext, RequestReconciliation, DeliverJob

\* The operators' desks.
LEMMA DeskTypes ==
  ASSUME TypeOK, NEW a \in Actors, DeskNext(a)
  PROVE  TypeOK'
<1> DEFINE DeskStates == {Idle} \union [pc: {"READ"}, payout: Payouts, op: DeskOperations]
<1>1. ticket \in [Payouts -> Ticket] /\ desk \in [Actors -> DeskStates]
  BY DEF TypeOK
<1>2. ASSUME NEW s \in DeskStates, desk' = [desk EXCEPT ![a] = s]
      PROVE  desk' \in [Actors -> DeskStates]
  BY <1>1, <1>2
<1>3. ASSUME desk[a].pc = "READ"
      PROVE  desk[a].payout \in Payouts /\ desk[a].op \in DeskOperations
  BY <1>1, <1>3
<1>4. ASSUME NEW p \in Payouts, NEW op \in DeskOperations, DeskRead(a, p, op)
      PROVE  TypeOK'
  <2>1. desk' \in [Actors -> DeskStates]
    BY <1>2, <1>4 DEF DeskRead
  <2> QED
    BY <1>4, <2>1 DEF DeskRead, TypeOK, tables, outside
<1>5. CASE DeskStart(a)
  <2>1. PICK p \in Payouts : p = desk[a].payout
    BY <1>3, <1>5 DEF DeskStart
  <2>2. [ticket[p] EXCEPT !.settlement = "PROCESSING", !.starter = a] \in Ticket
    <3>1. ticket[p] \in Ticket
      BY <1>1
    <3> QED
      BY <3>1 DEF Ticket, Settlements
  <2>3. ticket' = [ticket EXCEPT ![p] =
           [ticket[p] EXCEPT !.settlement = "PROCESSING", !.starter = a]]
    BY <1>1, <1>5, <2>1 DEF DeskStart
  <2>4. ticket' \in [Payouts -> Ticket]
    BY <1>1, <2>1, <2>2, <2>3
  <2>5. desk' \in [Actors -> DeskStates]
    BY <1>2, <1>5 DEF DeskStart
  <2> QED
    BY <1>5, <2>4, <2>5 DEF DeskStart, TypeOK, outside
<1>6. CASE DeskFinalize(a)
  <2>1. DeskOutcome(desk[a].op) \in Settlements
    BY DEF DeskOutcome, Settlements
  <2>2. /\ ticket' \in [Payouts -> Ticket] /\ exec' \in [Payouts -> Execution]
        /\ journal' \in [Payouts -> SUBSET Entries] /\ account' \in Account
    BY <1>3, <1>6, <2>1, FinalizeTypes DEF DeskFinalize
  <2>3. desk' \in [Actors -> DeskStates]
    BY <1>2, <1>6 DEF DeskFinalize
  <2> QED
    BY <1>6, <2>2, <2>3 DEF DeskFinalize, TypeOK, outside, Entries
<1>7. CASE DeskStops(a)
  <2>1. desk' \in [Actors -> DeskStates]
    BY <1>2, <1>7 DEF DeskStops
  <2> QED
    BY <1>7, <2>1 DEF DeskStops, TypeOK, tables, outside
<1> QED
  BY <1>4, <1>5, <1>6, <1>7 DEF DeskNext

\* The safety sweep.
LEMMA SweepTypes ==
  ASSUME TypeOK, SweepNext
  PROVE  TypeOK'
<1> DEFINE SweepStates ==
      {Idle} \union [pc: {"READ"}, payout: Payouts, settlement: Settlements,
                     submit: BOOLEAN, next: Nat \ {0}]
<1>1. /\ ticket \in [Payouts -> Ticket] /\ exec \in [Payouts -> Execution]
      /\ sweep \in SweepStates
  BY DEF TypeOK
<1>2. sweep # Idle => sweep.payout \in Payouts /\ sweep.next \in Nat \ {0}
  BY <1>1
<1>3. ASSUME NEW p \in Payouts, SweepRead(p)
      PROVE  TypeOK'
  <2>1. exec[p].rows \subseteq Sequences
    BY <1>1 DEF Execution
  <2>2. IsFiniteSet(Sequences)
    BY FS_Interval, LimitsAssumption DEF Sequences
  <2>3. NextSequence(p) \in Nat \ {0}
    BY <2>1, <2>2, FS_Subset, FS_CardinalityType DEF NextSequence
  <2>4. sweep' \in SweepStates
    BY <1>1, <1>3, <2>3 DEF SweepRead, Ticket, Execution
  <2> QED
    BY <1>3, <2>4 DEF SweepRead, TypeOK, tables, outside
<1>4. CASE SweepFlag
  <2>1. PICK p \in Payouts : p = sweep.payout
    BY <1>2, <1>4 DEF SweepFlag
  <2>2. [ticket[p] EXCEPT !.review = TRUE] \in Ticket
    <3>1. ticket[p] \in Ticket
      BY <1>1
    <3> QED
      BY <3>1 DEF Ticket
  <2>3. ticket' \in [Payouts -> Ticket]
    BY <1>1, <1>4, <2>1, <2>2 DEF SweepFlag
  <2> QED
    BY <1>4, <2>3 DEF SweepFlag, TypeOK, outside
<1>5. CASE SweepSchedule
  <2>1. sweep.payout \in Payouts /\ sweep.next \in Nat \ {0}
    BY <1>2, <1>5 DEF SweepSchedule
  <2>2. ScheduleReconciliation(sweep.payout, sweep.next)
    BY <1>5 DEF SweepSchedule
  <2>3. ticket' \in [Payouts -> Ticket] /\ queue' \subseteq Messages
    BY <2>1, <2>2, ScheduleTypes
  <2> QED
    BY <1>5, <2>3 DEF SweepSchedule, TypeOK, outside
<1>6. CASE SweepStops
  BY <1>6 DEF SweepStops, TypeOK, tables, outside
<1> QED
  BY <1>3, <1>4, <1>5, <1>6 DEF SweepNext

\* PayOS, the bank and QStash.
LEMMA OutsideTypes ==
  ASSUME TypeOK, NEW p \in Payouts,
         OutsideNext(p) \/ \E n \in Sequences : DropMessage(p, n)
  PROVE  TypeOK'
<1>1. /\ payos \in [Payouts -> PayosStates] /\ bank \in [Payouts -> Nat]
      /\ wire \in [Payouts -> [sent: Nat, inFlight: BOOLEAN]]
  BY DEF TypeOK
<1>2. [wire EXCEPT ![p].inFlight = FALSE] \in [Payouts -> [sent: Nat, inFlight: BOOLEAN]]
  BY <1>1
<1>3. CASE PayosAccepts(p)
  BY <1>1, <1>2, <1>3 DEF PayosAccepts, TypeOK, tables, PayosStates
<1>4. CASE RequestLost(p)
  BY <1>1, <1>2, <1>4 DEF RequestLost, TypeOK, tables
<1>5. CASE PayosMoves(p)
  <2>1. \A s \in PayosStates : PayosProgress[s] \subseteq PayosStates
    BY DEF PayosProgress, PayosStates
  <2>2. payos' \in [Payouts -> PayosStates]
    BY <1>1, <1>5, <2>1 DEF PayosMoves
  <2> QED
    BY <1>5, <2>2 DEF PayosMoves, TypeOK, tables
<1>6. CASE TransferByHand(p)
  BY <1>1, <1>6 DEF TransferByHand, TypeOK, tables
<1>7. ASSUME NEW n \in Sequences, DropMessage(p, n)
      PROVE  TypeOK'
  BY <1>7 DEF DropMessage, TypeOK, tables, outside
<1> QED
  BY <1>3, <1>4, <1>5, <1>6, <1>7 DEF OutsideNext

LEMMA StepTypes == TypeOK /\ [Next]_vars => TypeOK'
<1> SUFFICES ASSUME TypeOK, [Next]_vars PROVE TypeOK'
  OBVIOUS
<1>1. CASE UNCHANGED vars
  BY <1>1 DEF TypeOK, vars, tables, outside
<1>2. CASE Next
  BY <1>2, DecideTypes, ExecuteTypes, ReconcileTypes, DeskTypes, SweepTypes, OutsideTypes
  DEF Next
<1> QED
  BY <1>1, <1>2

\* TypeOK holds in every reachable state: in particular no sequence of requests,
\* outcomes and resolutions takes a balance below zero.
THEOREM TypeCorrect == Spec => []TypeOK
<1>1. TypeOK /\ [Next]_vars => TypeOK'
  BY StepTypes
<1> QED
  BY <1>1, InitTypes, PTL DEF Spec

-----------------------------------------------------------------------------
(* What the shared operations do to one payout, and that they leave the    *)
(* others alone.                                                           *)

Posted(outcome) ==
  IF outcome = "PAID" THEN {"paid"} ELSE IF outcome = "FAILED" THEN {"release"} ELSE {}

\* applyTerminalOutcome adds the entry of its outcome to the journal of its payout.
LEMMA PostOutcomeEntries ==
  ASSUME TypeOK, NEW p \in Payouts, NEW outcome \in Settlements, PostOutcome(p, outcome)
  PROVE  /\ journal'[p] = journal[p] \union Posted(outcome)
         /\ \A q \in Payouts \ {p} : journal'[q] = journal[q]
<1>1. journal \in [Payouts -> SUBSET Entries]
  BY DEF TypeOK, Entries
<1>2. CASE outcome \notin Terminal
  BY <1>2 DEF PostOutcome, Posted, Terminal
<1>3. CASE outcome = "PAID"
  BY <1>1, <1>3 DEF PostOutcome, Posted, Terminal
<1>4. CASE outcome = "FAILED"
  BY <1>1, <1>4 DEF PostOutcome, Posted, Terminal
<1> QED
  BY <1>2, <1>3, <1>4 DEF Terminal

\* finalizeTenantPayoutSettlement settles an open payout, and only that one.
LEMMA FinalizeOpen ==
  ASSUME TypeOK, NEW p \in Payouts, NEW outcome \in Settlements, NEW actor,
         Finalize(p, outcome, actor), ~Settled(p)
  PROVE  /\ CanTransitionSettlement(ticket[p].settlement, outcome)
         /\ ticket'[p].settlement = outcome
         /\ ticket'[p].approval = ticket[p].approval
         /\ ticket'[p].legacy = ticket[p].legacy
         /\ ticket'[p].starter = ticket[p].starter
         /\ exec'[p].intent = IF exec[p].intent = "NONE" THEN "NONE" ELSE IntentAfter(outcome)
         /\ journal'[p] = journal[p] \union Posted(outcome)
         /\ \A q \in Payouts \ {p} : /\ ticket'[q] = ticket[q]
                                     /\ exec'[q] = exec[q]
                                     /\ journal'[q] = journal[q]
<1>1. /\ ticket \in [Payouts -> Ticket] /\ ticket[p] \in Ticket
      /\ exec \in [Payouts -> Execution] /\ exec[p] \in Execution
  BY DEF TypeOK
<1>2. /\ CanTransitionSettlement(ticket[p].settlement, outcome)
      /\ PostOutcome(p, outcome)
  BY DEF Finalize
<1>3. /\ ticket'[p] = [ticket[p] EXCEPT
                         !.settlement = outcome,
                         !.resolver = IF actor = NoActor THEN ticket[p].resolver ELSE actor,
                         !.posted = ticket[p].posted \/ outcome \in Terminal]
      /\ \A q \in Payouts \ {p} : ticket'[q] = ticket[q]
  BY <1>1 DEF Finalize
<1>4. /\ exec'[p] = [exec[p] EXCEPT !.intent = IF exec[p].intent = "NONE" THEN "NONE"
                                               ELSE IntentAfter(outcome)]
      /\ \A q \in Payouts \ {p} : exec'[q] = exec[q]
  BY <1>1 DEF Finalize
<1>5. /\ ticket'[p].settlement = outcome
      /\ ticket'[p].approval = ticket[p].approval
      /\ ticket'[p].legacy = ticket[p].legacy
      /\ ticket'[p].starter = ticket[p].starter
  BY <1>1, <1>3 DEF Ticket
<1>6. exec'[p].intent = IF exec[p].intent = "NONE" THEN "NONE" ELSE IntentAfter(outcome)
  BY <1>1, <1>4 DEF Execution
<1> QED
  BY <1>2, <1>3, <1>4, <1>5, <1>6, PostOutcomeEntries

\* What any finalization does to the settlement, the approval and the intent of
\* any payout, whether it is the one settled or not.
LEMMA FinalizeEffect ==
  ASSUME TypeOK, NEW p \in Payouts, NEW outcome \in Settlements, NEW actor,
         Finalize(p, outcome, actor), NEW q \in Payouts
  PROVE  /\ ticket'[q].approval = ticket[q].approval
         /\ ticket'[q].legacy = ticket[q].legacy
         /\ \/ exec'[q].intent = exec[q].intent
            \/ exec[q].intent # "NONE" /\ exec'[q].intent \notin {"NONE", "READY"}
         /\ \/ /\ ticket'[q].settlement = ticket[q].settlement
               /\ journal'[q] = journal[q]
            \/ /\ q = p /\ ~Settled(q)
               /\ ticket'[q].settlement = outcome
               /\ journal'[q] = journal[q] \union Posted(outcome)
               /\ CanTransitionSettlement(ticket[q].settlement, outcome)
<1>1. CASE Settled(p)
  BY <1>1 DEF Finalize, tables
<1>2. CASE ~Settled(p) /\ q # p
  BY <1>2, FinalizeOpen
<1>3. CASE ~Settled(p) /\ q = p
  <2>1. IntentAfter(outcome) \notin {"NONE", "READY"}
    BY DEF IntentAfter
  <2> QED
    BY <1>3, <2>1, FinalizeOpen
<1> QED
  BY <1>1, <1>2, <1>3

\* A finalization leaves the other payouts alone, and so does a decision.
LEMMA FinalizeOthers ==
  ASSUME TypeOK, NEW p \in Payouts, NEW outcome \in Settlements, NEW actor,
         Finalize(p, outcome, actor), NEW q \in Payouts, q # p
  PROVE  ticket'[q] = ticket[q] /\ exec'[q] = exec[q] /\ journal'[q] = journal[q]
<1>1. CASE Settled(p)
  BY <1>1 DEF Finalize, tables
<1>2. CASE ~Settled(p)
  BY <1>2, FinalizeOpen
<1> QED
  BY <1>1, <1>2

LEMMA DecideOthers ==
  ASSUME TypeOK, NEW p \in Payouts, DecideNext(p), NEW q \in Payouts, q # p
  PROVE  ticket'[q] = ticket[q] /\ exec'[q] = exec[q] /\ journal'[q] = journal[q]
<1>1. /\ ticket \in [Payouts -> Ticket] /\ exec \in [Payouts -> Execution]
      /\ journal \in [Payouts -> SUBSET Entries]
  BY DEF TypeOK, Entries
<1>2. ASSUME NEW outcome, PostOutcome(p, outcome)
      PROVE  journal'[q] = journal[q]
  BY <1>1, <1>2 DEF PostOutcome
<1>3. CASE Request(p)
  BY <1>1, <1>3 DEF Request
<1>4. ASSUME NEW a \in Actors, NEW m \in Methods, Approve(a, p, m)
      PROVE  ticket'[q] = ticket[q] /\ exec'[q] = exec[q] /\ journal'[q] = journal[q]
  BY <1>1, <1>4 DEF Approve
<1>5. ASSUME NEW d, Withdraw(p, d)
      PROVE  ticket'[q] = ticket[q] /\ exec'[q] = exec[q] /\ journal'[q] = journal[q]
  BY <1>1, <1>2, <1>5 DEF Withdraw
<1>6. ASSUME NEW d \in LegacyDecisions, NEW r \in BOOLEAN, ResolveLegacy(p, d, r)
      PROVE  ticket'[q] = ticket[q] /\ exec'[q] = exec[q] /\ journal'[q] = journal[q]
  BY <1>1, <1>2, <1>6 DEF ResolveLegacy
<1> QED
  BY <1>3, <1>4, <1>5, <1>6 DEF DecideNext, Reject, Cancel

\* schedulePayoutReconciliation changes at most the review flag of a ticket.
LEMMA ScheduleEffect ==
  ASSUME TypeOK, NEW p \in Payouts, NEW n, ScheduleReconciliation(p, n), NEW q \in Payouts
  PROVE  /\ ticket'[q].approval = ticket[q].approval
         /\ ticket'[q].settlement = ticket[q].settlement
         /\ ticket'[q].legacy = ticket[q].legacy
<1>1. ticket \in [Payouts -> Ticket] /\ ticket[p] \in Ticket
  BY DEF TypeOK
<1>2. CASE ticket' = [ticket EXCEPT ![p].review = TRUE]
  <2>1. ticket'[q] = IF q = p THEN [ticket[p] EXCEPT !.review = TRUE] ELSE ticket[q]
    BY <1>1, <1>2
  <2> QED
    BY <1>1, <2>1 DEF Ticket
<1> QED
  BY <1>2 DEF ScheduleReconciliation

\* The sweep, PayOS, the bank and QStash touch at most the review flag of a ticket.
LEMMA OthersTickets ==
  ASSUME TypeOK, NEW q \in Payouts,
         \/ SweepNext
         \/ \E p \in Payouts : OutsideNext(p)
         \/ \E p \in Payouts, n \in Sequences : DropMessage(p, n)
  PROVE  \E b \in BOOLEAN : ticket'[q] = [ticket[q] EXCEPT !.review = b]
<1>1. ticket \in [Payouts -> Ticket] /\ ticket[q] \in Ticket
  BY DEF TypeOK
<1>2. \/ ticket' = ticket
      \/ \E p \in Payouts : ticket' = [ticket EXCEPT ![p].review = TRUE]
  <2>1. sweep # Idle => sweep.payout \in Payouts
    BY DEF TypeOK
  <2> QED
    BY <2>1 DEF SweepNext, SweepRead, SweepFlag, SweepSchedule, SweepStops,
           ScheduleReconciliation, OutsideNext, PayosAccepts, RequestLost, PayosMoves,
           TransferByHand, DropMessage, tables
<1>3. CASE ticket'[q] = ticket[q]
  <2>1. ticket[q].review \in BOOLEAN
    BY <1>1 DEF Ticket
  <2>2. ticket[q] = [ticket[q] EXCEPT !.review = ticket[q].review]
    BY <1>1 DEF Ticket
  <2> QED
    BY <1>3, <2>1, <2>2
<1>4. ASSUME NEW p \in Payouts, ticket' = [ticket EXCEPT ![p].review = TRUE]
      PROVE  \E b \in BOOLEAN : ticket'[q] = [ticket[q] EXCEPT !.review = b]
  <2>1. CASE q = p
    BY <1>1, <1>4, <2>1
  <2>2. CASE q # p
    BY <1>1, <1>3, <1>4, <2>2
  <2> QED
    BY <2>1, <2>2
<1> QED
  BY <1>2, <1>3, <1>4

\* What a process that runs holds.
LEMMA TaskTypes ==
  ASSUME TypeOK
  PROVE  /\ \A p \in Payouts : executor[p].pc = "ANSWERED" => executor[p].answer \in Settlements
         /\ \A w \in Reconcilers :
              /\ reconciler[w].pc = "QUERY" \/ reconciler[w].pc = "SCHEDULE" =>
                   reconciler[w] # Idle /\ reconciler[w].payout \in Payouts
              /\ reconciler[w].pc = "FINALIZE" =>
                   /\ reconciler[w] # Idle /\ reconciler[w].payout \in Payouts
                   /\ reconciler[w].answer \in Settlements
         /\ \A a \in Actors : desk[a] # Idle =>
              /\ desk[a].payout \in Payouts /\ desk[a].op \in DeskOperations
              /\ desk[a].pc = "READ"
<1>1. ASSUME NEW p \in Payouts, executor[p].pc = "ANSWERED"
      PROVE  executor[p].answer \in Settlements
  <2>1. executor[p] \in ExecutorStates
    BY DEF TypeOK
  <2> QED
    BY <1>1, <2>1 DEF ExecutorStates
<1>2. ASSUME NEW w \in Reconcilers
      PROVE  /\ reconciler[w].pc = "QUERY" \/ reconciler[w].pc = "SCHEDULE" =>
                   reconciler[w] # Idle /\ reconciler[w].payout \in Payouts
             /\ reconciler[w].pc = "FINALIZE" =>
                   /\ reconciler[w] # Idle /\ reconciler[w].payout \in Payouts
                   /\ reconciler[w].answer \in Settlements
  <2>1. reconciler[w] \in ReconcilerStates
    BY DEF TypeOK
  <2> QED
    BY <2>1 DEF ReconcilerStates
<1>3. ASSUME NEW a \in Actors, desk[a] # Idle
      PROVE  /\ desk[a].payout \in Payouts /\ desk[a].op \in DeskOperations
             /\ desk[a].pc = "READ"
  <2>1. desk[a] \in {Idle} \union [pc: {"READ"}, payout: Payouts, op: DeskOperations]
    BY DEF TypeOK
  <2> QED
    BY <1>3, <2>1
<1> QED
  BY <1>1, <1>2, <1>3

\* What finalizeTenantPayoutSettlement does to the columns that say who pays and how.
LEMMA FinalizeColumns ==
  ASSUME TypeOK, NEW p \in Payouts, NEW outcome \in Settlements,
         NEW actor \in Actors \union {NoActor}, Finalize(p, outcome, actor), NEW q \in Payouts
  PROVE  /\ ticket'[q].approval = ticket[q].approval
         /\ ticket'[q].method = ticket[q].method
         /\ ticket'[q].starter = ticket[q].starter
         /\ exec[q].intent = "NONE" => exec'[q].intent = "NONE"
         /\ \/ /\ ticket'[q].settlement = ticket[q].settlement
               /\ ticket'[q].resolver = ticket[q].resolver
            \/ /\ q = p /\ ~Settled(p)
               /\ ticket'[p].settlement = outcome
               /\ CanTransitionSettlement(ticket[p].settlement, outcome)
               /\ ticket'[p].resolver = IF actor = NoActor THEN ticket[p].resolver ELSE actor
<1>1. /\ ticket \in [Payouts -> Ticket] /\ ticket[p] \in Ticket
      /\ exec \in [Payouts -> Execution] /\ exec[p] \in Execution
  BY DEF TypeOK
<1>2. CASE Settled(p)
  BY <1>2 DEF Finalize, tables
<1>3. CASE ~Settled(p)
  <2> DEFINE row == [ticket[p] EXCEPT
                       !.settlement = outcome,
                       !.resolver = IF actor = NoActor THEN ticket[p].resolver ELSE actor,
                       !.posted = ticket[p].posted \/ outcome \in Terminal]
  <2>1. ticket' = [ticket EXCEPT ![p] = row]
    BY <1>1, <1>3 DEF Finalize
  <2>2. /\ row.approval = ticket[p].approval /\ row.method = ticket[p].method
        /\ row.starter = ticket[p].starter /\ row.settlement = outcome
        /\ row.resolver = IF actor = NoActor THEN ticket[p].resolver ELSE actor
    BY <1>1 DEF Ticket
  <2>3. exec[q].intent = "NONE" => exec'[q].intent = "NONE"
    BY FinalizeEffect
  <2>4. CanTransitionSettlement(ticket[p].settlement, outcome)
    BY <1>3 DEF Finalize
  <2> HIDE DEF row
  <2> QED
    BY <1>1, <1>3, <2>1, <2>2, <2>3, <2>4
<1> QED
  BY <1>2, <1>3

\* schedulePayoutReconciliation touches none of them.
LEMMA ScheduleColumns ==
  ASSUME TypeOK, NEW p \in Payouts, NEW n, ScheduleReconciliation(p, n), NEW q \in Payouts
  PROVE  /\ ticket'[q].approval = ticket[q].approval
         /\ ticket'[q].settlement = ticket[q].settlement
         /\ ticket'[q].method = ticket[q].method
         /\ ticket'[q].starter = ticket[q].starter
         /\ ticket'[q].resolver = ticket[q].resolver
<1>1. ticket \in [Payouts -> Ticket] /\ ticket[p] \in Ticket
  BY DEF TypeOK
<1>2. CASE ticket' = [ticket EXCEPT ![p].review = TRUE]
  <2>1. ticket'[q] = IF q = p THEN [ticket[p] EXCEPT !.review = TRUE] ELSE ticket[q]
    BY <1>1, <1>2
  <2> QED
    BY <1>1, <2>1 DEF Ticket
<1> QED
  BY <1>2 DEF ScheduleReconciliation

\* An outcome that was read off PayOS is what PayOS says for good.
Told(p, outcome) ==
  /\ outcome = "PAID" => payos[p] = "SUCCEEDED"
  /\ outcome = "FAILED" => payos[p] = "FAILED"

JobOn(w, p) == reconciler[w] # Idle /\ reconciler[w].payout = p
DeskOn(a, p) == desk[a] # Idle /\ desk[a].payout = p

-----------------------------------------------------------------------------
(* Submitted at most once.                                                 *)

Used(p) == exec[p].intent \notin {"NONE", "READY"}

\* The claim uses the intent up before the request is sent, and nothing makes an
\* intent READY again.
SubmitOnce(p) ==
  /\ wire[p].sent <= 1
  /\ executor[p].pc = "CLAIMED" => wire[p].sent = 0
  /\ wire[p].sent > 0 \/ executor[p].pc = "CLAIMED" => Used(p)

SubmitInv == \A p \in Payouts : SubmitOnce(p)

\* A step that neither claims nor sends for a payout, and leaves a used intent used.
Quiet(q) ==
  /\ wire'[q].sent = wire[q].sent
  /\ executor'[q].pc = "CLAIMED" => executor[q].pc = "CLAIMED"
  /\ Used(q) => Used(q)'

LEMMA QuietKeeps ==
  ASSUME NEW q \in Payouts, SubmitOnce(q), Quiet(q)
  PROVE  SubmitOnce(q)'
BY DEF Quiet, SubmitOnce

LEMMA DecideQuiet ==
  ASSUME TypeOK, NEW p \in Payouts, NEW q \in Payouts, DecideNext(p)
  PROVE  Quiet(q)
<1>1. exec \in [Payouts -> Execution] /\ exec[p] \in Execution /\ exec[q] \in Execution
  BY DEF TypeOK
<1>2. UNCHANGED <<executor, wire>>
  BY DEF DecideNext, Request, Approve, Reject, Cancel, Withdraw, ResolveLegacy, outside
<1>3. Used(q) => Used(q)'
  <2>1. CASE exec' = exec
    BY <2>1 DEF Used
  <2>2. ASSUME NEW a \in Actors, NEW m \in Methods, Approve(a, p, m)
        PROVE  Used(q) => Used(q)'
    BY <1>1, <2>2 DEF Approve, Used, Execution
  <2>3. ASSUME NEW d \in LegacyDecisions, NEW r \in BOOLEAN, ResolveLegacy(p, d, r)
        PROVE  Used(q) => Used(q)'
    <3>1. exec' = [exec EXCEPT ![p].intent =
                     IF r /\ exec[p].intent = "NONE"
                     THEN LegacyIntent(LegacySettlement(d)) ELSE exec[p].intent]
      BY <2>3 DEF ResolveLegacy
    <3> QED
      BY <1>1, <3>1 DEF Used, Execution
  <2> QED
    BY <2>1, <2>2, <2>3 DEF DecideNext, Request, Reject, Cancel, Withdraw
<1> QED
  BY <1>2, <1>3 DEF Quiet

LEMMA FinalizeQuiet ==
  ASSUME TypeOK, NEW p \in Payouts, NEW outcome \in Settlements, NEW actor,
         Finalize(p, outcome, actor), NEW q \in Payouts, Used(q)
  PROVE  Used(q)'
BY FinalizeEffect DEF Used

LEMMA ExecuteKeepsSubmitOnce ==
  ASSUME TypeOK, NEW p \in Payouts, NEW q \in Payouts, SubmitOnce(q), ExecuteNext(p)
  PROVE  SubmitOnce(q)'
<1>1. /\ exec \in [Payouts -> Execution] /\ exec[p] \in Execution
      /\ executor \in [Payouts -> ExecutorStates]
      /\ wire \in [Payouts -> [sent: Nat, inFlight: BOOLEAN]]
  BY DEF TypeOK
<1>2. CASE ClaimExecution(p)
  <2>1. /\ exec[p].intent = "READY"
        /\ exec'[p].intent = "REQUESTED"
        /\ executor'[p].pc = "CLAIMED"
        /\ wire' = wire
        /\ q # p => exec'[q] = exec[q] /\ executor'[q] = executor[q]
    BY <1>1, <1>2 DEF ClaimExecution, outside, Execution
  <2>2. CASE q = p
    <3>1. wire[p].sent = 0
      BY <1>1, <2>1, <2>2 DEF SubmitOnce, Used
    <3> QED
      BY <2>1, <2>2, <3>1 DEF SubmitOnce, Used
  <2>3. CASE q # p
    BY <2>1, <2>3 DEF SubmitOnce, Used
  <2> QED
    BY <2>2, <2>3
<1>3. CASE SendSubmit(p)
  <2>1. /\ executor[p].pc = "CLAIMED" /\ executor'[p].pc = "CALLING"
        /\ wire'[p].sent = wire[p].sent + 1
        /\ exec' = exec
        /\ q # p => wire'[q] = wire[q] /\ executor'[q] = executor[q]
    BY <1>1, <1>3 DEF SendSubmit, tables
  <2>2. CASE q = p
    BY <1>1, <2>1, <2>2 DEF SubmitOnce, Used
  <2>3. CASE q # p
    BY <2>1, <2>3 DEF SubmitOnce, Used
  <2> QED
    BY <2>2, <2>3
<1>4. CASE ReceiveAnswer(p) \/ FailSubmit(p) \/ ExecutorStops(p)
  <2>1. Quiet(q)
    BY <1>1, <1>4
    DEF Quiet, Used, ReceiveAnswer, FailSubmit, ExecutorStops, tables, outside
  <2> QED
    BY <2>1, QuietKeeps
<1>5. CASE FinalizeSubmit(p) \/ FinalizeUncertain(p)
  <2>1. executor[p].pc = "ANSWERED" => executor[p].answer \in Settlements
    BY <1>1 DEF ExecutorStates
  <2>2. Used(q) => Used(q)'
    BY <1>5, <2>1, FinalizeQuiet DEF FinalizeSubmit, FinalizeUncertain, Settlements
  <2>3. wire' = wire /\ (executor'[q].pc = "CLAIMED" => executor[q].pc = "CLAIMED")
    BY <1>1, <1>5 DEF FinalizeSubmit, FinalizeUncertain, outside
  <2> QED
    BY <2>2, <2>3, QuietKeeps DEF Quiet
<1>6. CASE ScheduleFirst(p)
  <2>1. Quiet(q)
    BY <1>1, <1>6 DEF Quiet, Used, ScheduleFirst, outside
  <2> QED
    BY <2>1, QuietKeeps
<1> QED
  BY <1>2, <1>3, <1>4, <1>5, <1>6 DEF ExecuteNext

LEMMA ReconcileQuiet ==
  ASSUME TypeOK, NEW w \in Reconcilers, NEW q \in Payouts, ReconcileNext(w)
  PROVE  Quiet(q)
<1>1. exec \in [Payouts -> Execution] /\ reconciler[w] \in ReconcilerStates
  BY DEF TypeOK
<1>2. UNCHANGED <<executor, wire>>
  BY DEF ReconcileNext, RequestReconciliation, DeliverJob, Prepare, QueryPayos,
         FinalizeReconcile, ScheduleNext, ReconcilerStops, outside
<1>3. Used(q) => Used(q)'
  <2>1. CASE exec' = exec
    BY <2>1 DEF Used
  <2>2. ASSUME NEW p \in Payouts, NEW n \in Sequences, NEW b, Prepare(w, p, n, b)
        PROVE  Used(q) => Used(q)'
    <3>1. exec' = [exec EXCEPT ![p] = [exec[p] EXCEPT !.rows = exec[p].rows \union {n}]]
      BY <1>1, <2>2 DEF Prepare
    <3>2. exec[p] \in Execution
      BY <1>1
    <3>3. [exec[p] EXCEPT !.rows = exec[p].rows \union {n}].intent = exec[p].intent
      BY <3>2 DEF Execution
    <3> QED
      BY <1>1, <3>1, <3>3 DEF Used
  <2>3. CASE FinalizeReconcile(w)
    <3>1. reconciler[w].payout \in Payouts /\ reconciler[w].answer \in Settlements
      BY <1>1, <2>3 DEF FinalizeReconcile, ReconcilerStates
    <3> QED
      BY <2>3, <3>1, FinalizeQuiet DEF FinalizeReconcile
  <2>4. 1 \in Sequences
    BY LimitsAssumption DEF Sequences
  <2> QED
    BY <2>1, <2>2, <2>3, <2>4
    DEF ReconcileNext, RequestReconciliation, DeliverJob, QueryPayos, ScheduleNext,
        ReconcilerStops, tables
<1> QED
  BY <1>2, <1>3 DEF Quiet

LEMMA DeskQuiet ==
  ASSUME TypeOK, NEW a \in Actors, NEW q \in Payouts, DeskNext(a)
  PROVE  Quiet(q)
<1>1. desk[a] \in {Idle} \union [pc: {"READ"}, payout: Payouts, op: DeskOperations]
  BY DEF TypeOK
<1>2. UNCHANGED <<executor, wire>>
  BY DEF DeskNext, DeskRead, DeskStart, DeskFinalize, DeskStops, outside
<1>3. CASE exec' = exec
  BY <1>2, <1>3 DEF Quiet, Used
<1>4. CASE DeskFinalize(a)
  <2>1. desk[a].payout \in Payouts
    BY <1>1, <1>4 DEF DeskFinalize
  <2>2. DeskOutcome(desk[a].op) \in Settlements
    BY DEF DeskOutcome, Settlements
  <2>3. Used(q) => Used(q)'
    BY <1>4, <2>1, <2>2, FinalizeQuiet DEF DeskFinalize
  <2> QED
    BY <1>2, <2>3 DEF Quiet
<1> QED
  BY <1>3, <1>4 DEF DeskNext, DeskRead, DeskStart, DeskStops, tables

LEMMA OthersQuiet ==
  ASSUME TypeOK, NEW q \in Payouts,
         \/ SweepNext
         \/ \E p \in Payouts : OutsideNext(p)
         \/ \E p \in Payouts, n \in Sequences : DropMessage(p, n)
  PROVE  Quiet(q)
<1>1. wire \in [Payouts -> [sent: Nat, inFlight: BOOLEAN]]
  BY DEF TypeOK
<1>2. UNCHANGED <<exec, executor>>
  BY DEF SweepNext, SweepRead, SweepFlag, SweepSchedule, SweepStops, OutsideNext,
         PayosAccepts, RequestLost, PayosMoves, TransferByHand, DropMessage, tables
<1>3. wire'[q].sent = wire[q].sent
  <2>1. ASSUME NEW p \in Payouts, PayosAccepts(p) \/ RequestLost(p)
        PROVE  wire'[q].sent = wire[q].sent
    <3>1. wire' = [wire EXCEPT ![p].inFlight = FALSE]
      BY <2>1 DEF PayosAccepts, RequestLost
    <3> QED
      BY <1>1, <3>1
  <2> QED
    BY <2>1 DEF SweepNext, SweepRead, SweepFlag, SweepSchedule, SweepStops, OutsideNext,
           PayosMoves, TransferByHand, DropMessage, outside
<1> QED
  BY <1>2, <1>3 DEF Quiet, Used

LEMMA SubmitStep == TypeOK /\ SubmitInv /\ [Next]_vars => SubmitInv'
<1> SUFFICES ASSUME TypeOK, SubmitInv, [Next]_vars, NEW q \in Payouts
             PROVE  SubmitOnce(q)'
  BY DEF SubmitInv
<1>1. SubmitOnce(q)
  BY DEF SubmitInv
<1>2. CASE UNCHANGED vars
  BY <1>1, <1>2 DEF SubmitOnce, Used, vars, tables, outside
<1>3. CASE \E p \in Payouts : ExecuteNext(p)
  BY <1>1, <1>3, ExecuteKeepsSubmitOnce
<1>4. CASE Next /\ ~\E p \in Payouts : ExecuteNext(p)
  <2>1. Quiet(q)
    BY <1>4, DecideQuiet, ReconcileQuiet, DeskQuiet, OthersQuiet DEF Next
  <2> QED
    BY <1>1, <2>1, QuietKeeps
<1> QED
  BY <1>2, <1>3, <1>4

LEMMA SubmitInvariant == Spec => []SubmitInv
<1>1. Init => SubmitInv
  BY DEF Init, SubmitInv, SubmitOnce, Used
<1>2. TypeOK /\ SubmitInv /\ [Next]_vars => SubmitInv'
  BY SubmitStep
<1> QED
  BY <1>1, <1>2, TypeCorrect, PTL DEF Spec

\* SubmittedAtMostOnce, for any mix of imported payouts, approvals repeated on
\* stale pages, crashes, resumptions, jobs, sweeps and operators.
THEOREM SubmitsOnce == Spec => []SubmittedAtMostOnce
<1>1. SubmitInv => SubmittedAtMostOnce
  BY DEF SubmitInv, SubmitOnce, SubmittedAtMostOnce
<1> QED
  BY <1>1, SubmitInvariant, PTL

-----------------------------------------------------------------------------
(* Imported payouts.                                                       *)

\* The payouts requested under this version.
NewPayouts == Payouts \ Legacy

\* Nothing but the owner's decisions, and reconciliations, ever works on an imported
\* payout, and its ledger says what PayOS says.
ImportedOK(p) ==
  /\ ticket[p].legacy # "NOT_REQUIRED" /\ ticket[p].approval # "NONE"
  /\ ticket[p].method = "NONE" /\ ticket[p].starter = NoActor
  /\ executor[p] = Idle /\ ~wire[p].inFlight /\ bank[p] = 0
  /\ \A a \in Actors : ~DeskOn(a, p)
  /\ "reserve" \in journal[p]
  /\ "paid" \in journal[p] => payos[p] = "SUCCEEDED"
  /\ "release" \in journal[p] => payos[p] \in {"ABSENT", "FAILED"}
  /\ \A w \in Reconcilers :
       JobOn(w, p) /\ reconciler[w].pc = "FINALIZE" => Told(p, reconciler[w].answer)

ImportedInv == \A p \in Legacy : ImportedOK(p)

\* A step that leaves PayOS alone and adds to the ledger only what PayOS says.
LEMMA ImportedKeeps ==
  ASSUME NEW q \in Legacy, ImportedOK(q),
         ticket'[q].legacy # "NOT_REQUIRED", ticket'[q].approval # "NONE",
         ticket'[q].method = ticket[q].method, ticket'[q].starter = ticket[q].starter,
         executor'[q] = executor[q], wire'[q].inFlight = wire[q].inFlight,
         bank'[q] = bank[q], payos'[q] = payos[q],
         \A a \in Actors : DeskOn(a, q)' => DeskOn(a, q),
         "reserve" \in journal'[q],
         "paid" \in journal'[q] => "paid" \in journal[q] \/ payos[q] = "SUCCEEDED",
         "release" \in journal'[q] =>
           "release" \in journal[q] \/ payos[q] \in {"ABSENT", "FAILED"},
         \A w \in Reconcilers : JobOn(w, q)' /\ reconciler'[w].pc = "FINALIZE" =>
           \/ JobOn(w, q) /\ reconciler'[w] = reconciler[w]
           \/ Told(q, reconciler'[w].answer)
  PROVE  ImportedOK(q)'
<1>1. \A w \in Reconcilers :
        JobOn(w, q)' /\ reconciler'[w].pc = "FINALIZE" => Told(q, reconciler'[w].answer)
  BY DEF ImportedOK
<1>2. \A w \in Reconcilers :
        JobOn(w, q)' /\ reconciler'[w].pc = "FINALIZE" => Told(q, reconciler[w].answer)'
  BY <1>1 DEF Told
<1> QED
  BY <1>2 DEF ImportedOK

\* No executor and no desk takes an imported payout up.
LEMMA ImportedIsNotExecuted ==
  ASSUME ImportedInv, NEW p \in Payouts, ExecuteNext(p)
  PROVE  p \in NewPayouts
BY DEF NewPayouts, ImportedInv, ImportedOK, ExecuteNext, ClaimExecution, SendSubmit,
       ReceiveAnswer, FailSubmit, FinalizeSubmit, FinalizeUncertain, ScheduleFirst,
       ExecutorStops

LEMMA ImportedIsNotOnADesk ==
  ASSUME TypeOK, ImportedInv, NEW a \in Actors
  PROVE  /\ desk[a] # Idle => desk[a].payout \in NewPayouts
         /\ \A p \in Payouts, op \in DeskOperations : DeskRead(a, p, op) => p \in NewPayouts
BY TaskTypes DEF NewPayouts, ImportedInv, ImportedOK, DeskOn, DeskRead, ReadyForDesk

LEMMA ImportedInit == Init => ImportedInv
<1> SUFFICES ASSUME Init, NEW p \in Legacy PROVE ImportedOK(p)
  BY DEF ImportedInv
<1>1. p \in Payouts
  BY PayoutsAssumption
<1>2. PICK i \in ImportedPayouts :
        ticket[p] = i.row /\ journal[p] = i.entries /\ payos[p] = i.payos
  BY <1>1 DEF Init
<1> DEFINE Import(row, b, e, s) == [row |-> row, submit |-> b, entries |-> e, payos |-> s]
           Rows == [approval: {"PENDING", "CANCELLED", "APPROVED"},
                    settlement: Settlements, method: {"NONE"}, review: BOOLEAN,
                    starter: {NoActor}, resolver: {NoActor},
                    legacy: {"PENDING", "RESOLVED", "MANUAL_REVIEW"}, posted: {FALSE}]
<1>3. i.row \in Rows
  <2>1. NoTicket \in [approval: {"NONE"}, settlement: {"NOT_STARTED"}, method: {"NONE"},
                     review: {FALSE}, starter: {NoActor}, resolver: {NoActor},
                     legacy: {"NOT_REQUIRED"}, posted: {FALSE}]
    BY DEF NoTicket
  <2>2. ASSUME NEW a \in {"PENDING", "CANCELLED", "APPROVED"}, NEW t \in Settlements,
               NEW l \in {"PENDING", "RESOLVED", "MANUAL_REVIEW"}, NEW r \in BOOLEAN
        PROVE  ImportedRow(a, t, l, r) \in Rows
    BY <2>1 DEF ImportedRow
  <2>3. /\ ImportedRow("PENDING", "NOT_STARTED", "PENDING", FALSE) \in Rows
        /\ ImportedRow("CANCELLED", "NOT_STARTED", "PENDING", FALSE) \in Rows
        /\ ImportedRow("APPROVED", "PAID", "RESOLVED", FALSE) \in Rows
        /\ ImportedRow("PENDING", "UNKNOWN", "MANUAL_REVIEW", TRUE) \in Rows
        /\ ImportedRow("PENDING", "NOT_STARTED", "MANUAL_REVIEW", TRUE) \in Rows
    <3> HIDE DEF Rows
    <3> QED
      BY <2>2 DEF Settlements
  <2>4. \E row \in Rows : \E b, e, s : i = Import(row, b, e, s)
    <3> HIDE DEF Rows
    <3> QED
      BY <2>3, Zenon DEF ImportedPayouts, Undecided
  <2> QED
    <3> HIDE DEF Rows
    <3> QED
      BY <2>4
<1>4. /\ "reserve" \in i.entries
      /\ "paid" \in i.entries => i.payos = "SUCCEEDED"
      /\ "release" \in i.entries => i.payos \in {"ABSENT", "FAILED"}
  <2>1. \E row, b, s : \/ i = Import(row, b, {"reserve"}, s)
                      \/ i = Import(row, b, {"reserve", "release"}, "ABSENT")
                      \/ i = Import(row, b, {"reserve", "release"}, "FAILED")
                      \/ i = Import(row, b, {"reserve", "paid"}, "SUCCEEDED")
    BY Zenon DEF ImportedPayouts, Undecided
  <2>2. PICK row, b, s : \/ i = Import(row, b, {"reserve"}, s)
                         \/ i = Import(row, b, {"reserve", "release"}, "ABSENT")
                         \/ i = Import(row, b, {"reserve", "release"}, "FAILED")
                         \/ i = Import(row, b, {"reserve", "paid"}, "SUCCEEDED")
    BY <2>1
  <2> QED
    BY <2>2
<1>5. /\ executor[p] = Idle /\ ~wire[p].inFlight /\ bank[p] = 0
      /\ \A a \in Actors : desk[a] = Idle
      /\ \A w \in Reconcilers : reconciler[w] = Idle
  BY <1>1 DEF Init
<1> QED
  BY <1>2, <1>3, <1>4, <1>5 DEF ImportedOK, DeskOn, JobOn

\* An owner decides what the evidence at PayOS says.
LEMMA DecideKeepsImported ==
  ASSUME TypeOK, NEW q \in Legacy, ImportedOK(q), NEW p \in Payouts, DecideNext(p)
  PROVE  ImportedOK(q)'
<1>1. /\ ticket \in [Payouts -> Ticket] /\ ticket[p] \in Ticket /\ q \in Payouts
      /\ journal \in [Payouts -> SUBSET Entries]
  BY PayoutsAssumption DEF TypeOK, Entries
<1>2. UNCHANGED <<executor, desk, reconciler, payos, wire, bank>>
  BY DEF DecideNext, Request, Approve, Reject, Cancel, Withdraw, ResolveLegacy, outside
<1>3. ASSUME ticket'[q].legacy # "NOT_REQUIRED", ticket'[q].approval # "NONE",
             ticket'[q].method = ticket[q].method, ticket'[q].starter = ticket[q].starter,
             "reserve" \in journal'[q],
             "paid" \in journal'[q] => "paid" \in journal[q] \/ payos[q] = "SUCCEEDED",
             "release" \in journal'[q] =>
               "release" \in journal[q] \/ payos[q] \in {"ABSENT", "FAILED"}
      PROVE  ImportedOK(q)'
  BY <1>2, <1>3, ImportedKeeps DEF DeskOn, JobOn
<1>4. CASE q # p
  <2>1. ticket'[q] = ticket[q] /\ journal'[q] = journal[q]
    BY <1>1, <1>4, DecideOthers
  <2> QED
    BY <1>3, <2>1 DEF ImportedOK
<1>5. CASE q = p
  <2>1. PICK d \in LegacyDecisions, r \in BOOLEAN : ResolveLegacy(p, d, r)
    <3>1. ticket[p].legacy # "NOT_REQUIRED" /\ ticket[p].approval # "NONE"
      BY <1>5 DEF ImportedOK
    <3>2. ~Request(p) /\ ~Withdraw(p, "REJECTED") /\ ~Withdraw(p, "CANCELLED")
      BY <3>1 DEF Request, Withdraw
    <3>3. \A a \in Actors, m \in Methods : ~Approve(a, p, m)
      BY <3>1 DEF Approve
    <3> QED
      BY <3>2, <3>3 DEF DecideNext, Reject, Cancel
  <2>2. /\ ticket'[p].legacy # "NOT_REQUIRED" /\ ticket'[p].approval # "NONE"
        /\ ticket'[p].method = ticket[p].method /\ ticket'[p].starter = ticket[p].starter
    <3> DEFINE row(b) == [ticket[p] EXCEPT
                            !.approval = LegacyApproval(d),
                            !.settlement = LegacySettlement(d),
                            !.legacy = IF d = "REMAIN_UNKNOWN" THEN "MANUAL_REVIEW"
                                       ELSE "RESOLVED",
                            !.review = d = "REMAIN_UNKNOWN",
                            !.posted = b]
    <3>1. ticket'[p] = row(ticket[p].posted \/ d # "REMAIN_UNKNOWN")
      BY <1>1, <2>1 DEF ResolveLegacy
    <3>2. \A b : /\ row(b).legacy \in {"MANUAL_REVIEW", "RESOLVED"}
                 /\ row(b).approval = LegacyApproval(d)
                 /\ row(b).method = ticket[p].method /\ row(b).starter = ticket[p].starter
      BY <1>1 DEF Ticket
    <3>3. LegacyApproval(d) # "NONE"
      BY DEF LegacyApproval
    <3> HIDE DEF row
    <3> QED
      BY <3>1, <3>2, <3>3
  <2>3. LegacyOutcome(d) \in Settlements
    BY DEF LegacyOutcome, LegacySettlement, Settlements
  <2>4. journal'[p] = journal[p] \union Posted(LegacyOutcome(d))
    BY <2>1, <2>3, PostOutcomeEntries DEF ResolveLegacy
  <2>5. /\ LegacyOutcome(d) = "PAID" => payos[p] = "SUCCEEDED"
        /\ LegacyOutcome(d) = "FAILED" => payos[p] \in {"ABSENT", "FAILED"}
    BY <2>1 DEF ResolveLegacy, TruthfulDecision, LegacyOutcome, LegacySettlement
  <2> QED
    BY <1>3, <1>5, <2>2, <2>4, <2>5 DEF Posted, ImportedOK
<1> QED
  BY <1>4, <1>5

LEMMA ExecuteKeepsImported ==
  ASSUME TypeOK, ImportedInv, NEW q \in Legacy, NEW p \in Payouts, ExecuteNext(p)
  PROVE  ImportedOK(q)'
<1>1. /\ ticket \in [Payouts -> Ticket] /\ exec \in [Payouts -> Execution]
      /\ executor \in [Payouts -> ExecutorStates]
      /\ wire \in [Payouts -> [sent: Nat, inFlight: BOOLEAN]]
      /\ q \in Payouts /\ q # p /\ ImportedOK(q)
  BY PayoutsAssumption, ImportedIsNotExecuted DEF TypeOK, NewPayouts, ImportedInv
<1>2. UNCHANGED <<desk, reconciler, payos, bank>>
  BY DEF ExecuteNext, ClaimExecution, SendSubmit, ReceiveAnswer, FailSubmit, FinalizeSubmit,
         FinalizeUncertain, ScheduleFirst, ExecutorStops, outside
<1>3. wire'[q] = wire[q] /\ executor'[q] = executor[q]
  BY <1>1 DEF ExecuteNext, ClaimExecution, SendSubmit, ReceiveAnswer, FailSubmit,
         FinalizeSubmit, FinalizeUncertain, ScheduleFirst, ExecutorStops, outside
<1>4. /\ ticket'[q].approval = ticket[q].approval /\ ticket'[q].legacy = ticket[q].legacy
      /\ ticket'[q].method = ticket[q].method /\ ticket'[q].starter = ticket[q].starter
      /\ journal'[q] = journal[q]
  <2>1. ASSUME NEW o \in Settlements, Finalize(p, o, NoActor)
        PROVE  /\ ticket'[q] = ticket[q] /\ journal'[q] = journal[q]
    BY <1>1, <2>1, FinalizeOthers
  <2>2. CASE FinalizeSubmit(p) \/ FinalizeUncertain(p)
    BY <2>1, <2>2, TaskTypes DEF FinalizeSubmit, FinalizeUncertain, Settlements
  <2>3. CASE ScheduleFirst(p)
    BY <1>1, <2>3, ScheduleEffect, ScheduleColumns DEF ScheduleFirst
  <2>4. CASE ClaimExecution(p)
    BY <1>1, <2>4 DEF ClaimExecution
  <2> QED
    BY <2>2, <2>3, <2>4
    DEF ExecuteNext, SendSubmit, ReceiveAnswer, FailSubmit, ExecutorStops, tables
<1> QED
  BY <1>1, <1>2, <1>3, <1>4, ImportedKeeps DEF ImportedOK, DeskOn, JobOn

\* A reconciliation settles an imported payout as PayOS does.
LEMMA ReconcileKeepsImported ==
  ASSUME TypeOK, NEW q \in Legacy, ImportedOK(q), NEW w \in Reconcilers, ReconcileNext(w)
  PROVE  ImportedOK(q)'
<1>1. /\ ticket \in [Payouts -> Ticket] /\ exec \in [Payouts -> Execution]
      /\ reconciler \in [Reconcilers -> ReconcilerStates]
      /\ q \in Payouts
  BY PayoutsAssumption DEF TypeOK
<1>2. UNCHANGED <<executor, desk, payos, wire, bank>>
  BY DEF ReconcileNext, RequestReconciliation, DeliverJob, Prepare, QueryPayos,
         FinalizeReconcile, ScheduleNext, ReconcilerStops, outside
<1>3. \A v \in Reconcilers \ {w} : reconciler'[v] = reconciler[v]
  BY <1>1 DEF ReconcileNext, RequestReconciliation, DeliverJob, Prepare, QueryPayos,
         FinalizeReconcile, ScheduleNext, ReconcilerStops
<1>4. ASSUME ticket'[q].approval = ticket[q].approval, ticket'[q].legacy = ticket[q].legacy,
             ticket'[q].method = ticket[q].method, ticket'[q].starter = ticket[q].starter,
             "reserve" \in journal'[q],
             "paid" \in journal'[q] => "paid" \in journal[q] \/ payos[q] = "SUCCEEDED",
             "release" \in journal'[q] =>
               "release" \in journal[q] \/ payos[q] \in {"ABSENT", "FAILED"},
             JobOn(w, q)' /\ reconciler'[w].pc = "FINALIZE" => Told(q, reconciler'[w].answer)
      PROVE  ImportedOK(q)'
  <2>1. \A v \in Reconcilers : JobOn(v, q)' /\ reconciler'[v].pc = "FINALIZE" =>
          \/ JobOn(v, q) /\ reconciler'[v] = reconciler[v]
          \/ Told(q, reconciler'[v].answer)
    BY <1>3, <1>4 DEF JobOn
  <2> QED
    BY <1>2, <1>4, <2>1, ImportedKeeps DEF ImportedOK, DeskOn
<1>5. ASSUME NEW p \in Payouts, NEW n \in Sequences, NEW b, Prepare(w, p, n, b)
      PROVE  ImportedOK(q)'
  <2>1. UNCHANGED <<ticket, journal>> /\ reconciler'[w].pc = "QUERY"
    BY <1>1, <1>5 DEF Prepare
  <2> QED
    BY <1>4, <2>1 DEF ImportedOK
<1>6. CASE QueryPayos(w)
  <2>1. UNCHANGED <<ticket, journal>>
    BY <1>6 DEF QueryPayos, tables
  <2>2. /\ reconciler'[w].payout = reconciler[w].payout
        /\ reconciler'[w].answer \in {Observation(payos[reconciler[w].payout]), "UNKNOWN"}
    BY <1>1, <1>6 DEF QueryPayos
  <2>3. JobOn(w, q)' => Told(q, reconciler'[w].answer)
    BY <2>2 DEF JobOn, Told, Observation
  <2> QED
    BY <1>4, <2>1, <2>3 DEF ImportedOK
<1>7. CASE FinalizeReconcile(w)
  <2>1. PICK p \in Payouts, o \in Settlements :
          /\ p = reconciler[w].payout /\ o = reconciler[w].answer /\ JobOn(w, p)
          /\ reconciler[w].pc = "FINALIZE"
    BY <1>7, TaskTypes DEF FinalizeReconcile, JobOn
  <2>2. Finalize(p, o, NoActor) /\ reconciler'[w].pc # "FINALIZE"
    BY <1>1, <1>7, <2>1 DEF FinalizeReconcile
  <2>3. /\ ticket'[q].approval = ticket[q].approval /\ ticket'[q].legacy = ticket[q].legacy
        /\ ticket'[q].method = ticket[q].method /\ ticket'[q].starter = ticket[q].starter
        /\ \/ journal'[q] = journal[q]
           \/ q = p /\ journal'[q] = journal[q] \union Posted(o)
    BY <1>1, <2>2, FinalizeEffect, FinalizeColumns
  <2>4. q = p => Told(q, o)
    BY <2>1 DEF ImportedOK
  <2> QED
    BY <1>4, <2>2, <2>3, <2>4 DEF Posted, Told, ImportedOK
<1>8. CASE ScheduleNext(w) \/ ReconcilerStops(w)
  <2>1. reconciler'[w] = Idle /\ journal' = journal
    BY <1>1, <1>8 DEF ScheduleNext, ReconcilerStops, tables
  <2>2. /\ ticket'[q].approval = ticket[q].approval /\ ticket'[q].legacy = ticket[q].legacy
        /\ ticket'[q].method = ticket[q].method /\ ticket'[q].starter = ticket[q].starter
    <3>1. CASE ReconcilerStops(w)
      BY <3>1 DEF ReconcilerStops, tables
    <3>2. CASE ScheduleNext(w)
      <4>1. PICK p \in Payouts : p = reconciler[w].payout
        BY <3>2, TaskTypes DEF ScheduleNext
      <4>2. ScheduleReconciliation(p, reconciler[w].seq + 1)
        BY <3>2, <4>1 DEF ScheduleNext
      <4> QED
        BY <1>1, <4>2, ScheduleEffect, ScheduleColumns
    <3> QED
      BY <1>8, <3>1, <3>2
  <2> QED
    BY <1>4, <2>1, <2>2 DEF ImportedOK, JobOn
<1>9. 1 \in Sequences
  BY LimitsAssumption DEF Sequences
<1> QED
  BY <1>5, <1>6, <1>7, <1>8, <1>9 DEF ReconcileNext, RequestReconciliation, DeliverJob

LEMMA DeskKeepsImported ==
  ASSUME TypeOK, ImportedInv, NEW q \in Legacy, NEW a \in Actors, DeskNext(a)
  PROVE  ImportedOK(q)'
<1>1. /\ ticket \in [Payouts -> Ticket] /\ q \in Payouts /\ ImportedOK(q)
      /\ desk \in [Actors -> {Idle} \union [pc: {"READ"}, payout: Payouts, op: DeskOperations]]
  BY PayoutsAssumption DEF TypeOK, ImportedInv
<1>2. UNCHANGED <<executor, reconciler, payos, wire, bank>>
  BY DEF DeskNext, DeskRead, DeskStart, DeskFinalize, DeskStops, outside
<1>3. desk[a] # Idle => desk[a].payout \in Payouts /\ desk[a].payout # q
  BY ImportedIsNotOnADesk DEF NewPayouts
<1>4. \A b \in Actors : DeskOn(b, q)' => DeskOn(b, q)
  <2>1. ASSUME NEW p \in Payouts, NEW op \in DeskOperations, DeskRead(a, p, op)
        PROVE  \A b \in Actors : DeskOn(b, q)' => DeskOn(b, q)
    <3>1. p # q
      BY <2>1, ImportedIsNotOnADesk DEF NewPayouts
    <3>2. desk' = [desk EXCEPT ![a] = [pc |-> "READ", payout |-> p, op |-> op]]
      BY <2>1 DEF DeskRead
    <3> QED
      BY <1>1, <3>1, <3>2 DEF DeskOn
  <2>2. CASE desk' = [desk EXCEPT ![a] = Idle]
    BY <1>1, <2>2 DEF DeskOn
  <2> QED
    BY <2>1, <2>2 DEF DeskNext, DeskStart, DeskFinalize, DeskStops
<1>5. ticket'[q] = ticket[q] /\ journal'[q] = journal[q]
  <2>1. CASE DeskStart(a)
    BY <1>1, <1>3, <2>1 DEF DeskStart
  <2>2. CASE DeskFinalize(a)
    <3>1. DeskOutcome(desk[a].op) \in Settlements
      BY DEF DeskOutcome, Settlements
    <3>2. PICK p \in Payouts : p = desk[a].payout /\ p # q
      BY <1>3, <2>2 DEF DeskFinalize
    <3> QED
      BY <1>1, <2>2, <3>1, <3>2, FinalizeOthers DEF DeskFinalize
  <2> QED
    BY <2>1, <2>2 DEF DeskNext, DeskRead, DeskStops, tables
<1> QED
  BY <1>1, <1>2, <1>4, <1>5, ImportedKeeps DEF ImportedOK, JobOn

\* PayOS may go on with what was sent before the import, and then nothing of it is
\* in the ledger or told.
LEMMA OthersKeepImported ==
  ASSUME TypeOK, NEW q \in Legacy, ImportedOK(q),
         \/ SweepNext
         \/ \E p \in Payouts : OutsideNext(p)
         \/ \E p \in Payouts, n \in Sequences : DropMessage(p, n)
  PROVE  ImportedOK(q)'
<1>1. /\ ticket \in [Payouts -> Ticket] /\ ticket[q] \in Ticket /\ q \in Payouts
      /\ payos \in [Payouts -> PayosStates] /\ bank \in [Payouts -> Nat]
      /\ wire \in [Payouts -> [sent: Nat, inFlight: BOOLEAN]]
  BY PayoutsAssumption DEF TypeOK
<1>2. UNCHANGED <<executor, desk, reconciler, journal>>
  BY DEF SweepNext, SweepRead, SweepFlag, SweepSchedule, SweepStops, OutsideNext,
         PayosAccepts, RequestLost, PayosMoves, TransferByHand, DropMessage, tables
<1>3. /\ ticket'[q].approval = ticket[q].approval /\ ticket'[q].legacy = ticket[q].legacy
      /\ ticket'[q].method = ticket[q].method /\ ticket'[q].starter = ticket[q].starter
  <2>1. PICK b \in BOOLEAN : ticket'[q] = [ticket[q] EXCEPT !.review = b]
    BY <1>1, OthersTickets
  <2> QED
    BY <1>1, <2>1 DEF Ticket
<1>4. ASSUME wire'[q] = wire[q], bank'[q] = bank[q], payos'[q] = payos[q]
      PROVE  ImportedOK(q)'
  BY <1>2, <1>3, <1>4, ImportedKeeps DEF ImportedOK, DeskOn, JobOn
<1>5. CASE SweepNext \/ \E p \in Payouts, n \in Sequences : DropMessage(p, n)
  BY <1>4, <1>5
  DEF SweepNext, SweepRead, SweepFlag, SweepSchedule, SweepStops, DropMessage, outside
<1>6. ASSUME NEW p \in Payouts, OutsideNext(p)
      PROVE  ImportedOK(q)'
  <2>1. CASE q # p
    BY <1>1, <1>4, <1>6, <2>1
    DEF OutsideNext, PayosAccepts, RequestLost, PayosMoves, TransferByHand
  <2>2. CASE q = p
    <3>1. PayosMoves(q)
      BY <1>6, <2>2 DEF OutsideNext, PayosAccepts, RequestLost, TransferByHand, ImportedOK
    <3>2. /\ payos[q] \in {"QUEUED", "PROCESSING"}
          /\ UNCHANGED <<wire, bank>>
      BY <1>1, <3>1 DEF PayosMoves, PayosProgress, PayosStates
    <3>3. /\ "paid" \notin journal[q] /\ "release" \notin journal[q]
          /\ \A w \in Reconcilers : JobOn(w, q) /\ reconciler[w].pc = "FINALIZE" =>
               reconciler[w].answer # "PAID" /\ reconciler[w].answer # "FAILED"
      BY <3>2 DEF ImportedOK, Told
    <3> QED
      BY <1>2, <1>3, <3>2, <3>3 DEF ImportedOK, Told, DeskOn, JobOn
  <2> QED
    BY <2>1, <2>2
<1> QED
  BY <1>5, <1>6

LEMMA ImportedStep == TypeOK /\ ImportedInv /\ [Next]_vars => ImportedInv'
<1> SUFFICES ASSUME TypeOK, ImportedInv, [Next]_vars, NEW q \in Legacy
             PROVE  ImportedOK(q)'
  BY DEF ImportedInv
<1>1. ImportedOK(q) /\ q \in Payouts
  BY PayoutsAssumption DEF ImportedInv
<1>2. CASE UNCHANGED vars
  BY <1>1, <1>2, ImportedKeeps DEF ImportedOK, vars, tables, outside, DeskOn, JobOn
<1>3. CASE Next
  BY <1>1, <1>3, DecideKeepsImported, ExecuteKeepsImported, ReconcileKeepsImported,
     DeskKeepsImported, OthersKeepImported
  DEF Next
<1> QED
  BY <1>2, <1>3

LEMMA ImportedInvariant == Spec => []ImportedInv
BY ImportedInit, ImportedStep, TypeCorrect, PTL DEF Spec

-----------------------------------------------------------------------------
(* Outcomes of the payouts requested under this version.                   *)

\* Something works on a payout, or holds an intent to.
Busy(p) ==
  \/ exec[p].intent # "NONE"
  \/ executor[p] # Idle
  \/ \E a \in Actors : desk[a] # Idle /\ desk[a].payout = p
  \/ \E w \in Reconcilers : reconciler[w] # Idle /\ reconciler[w].payout = p

\* Only an approved payout is worked on, and its journal tells its outcome.
OutcomeOK(p) ==
  /\ ticket[p].legacy = "NOT_REQUIRED"
  /\ ticket[p].approval # "APPROVED" => ticket[p].settlement = "NOT_STARTED" /\ ~Busy(p)
  /\ "paid" \in journal[p] <=> ticket[p].settlement = "PAID"
  /\ "release" \in journal[p] <=> \/ ticket[p].approval \in {"REJECTED", "CANCELLED"}
                                  \/ ticket[p].settlement = "FAILED"

OutcomeInv == \A p \in NewPayouts : OutcomeOK(p)

\* The settlement and the journal of a payout stand still, or an approved payout
\* that is not settled moves to an outcome and its journal with it.
Settles(q) ==
  \/ ticket'[q].settlement = ticket[q].settlement /\ journal'[q] = journal[q]
  \/ /\ ~Settled(q)
     /\ ticket[q].approval = "APPROVED"
     /\ ticket'[q].settlement \in Settlements
     /\ journal'[q] = journal[q] \union Posted(ticket'[q].settlement)

\* A step that takes no decision about a payout.
Steady(q) ==
  /\ ticket'[q].approval = ticket[q].approval
  /\ ticket'[q].legacy = ticket[q].legacy
  /\ Settles(q)
  /\ Busy(q)' => Busy(q) \/ ticket[q].approval = "APPROVED"

LEMMA SteadyKeeps ==
  ASSUME NEW q \in Payouts, OutcomeOK(q), Steady(q)
  PROVE  OutcomeOK(q)' /\ (Settled(q) => ticket'[q].settlement = ticket[q].settlement)
<1>1. CASE ticket'[q].settlement = ticket[q].settlement /\ journal'[q] = journal[q]
  BY <1>1 DEF OutcomeOK, Steady
<1>2. CASE /\ ~Settled(q) /\ ticket[q].approval = "APPROVED"
           /\ ticket'[q].settlement \in Settlements
           /\ journal'[q] = journal[q] \union Posted(ticket'[q].settlement)
  <2>1. "paid" \notin journal[q] /\ "release" \notin journal[q]
    BY <1>2 DEF OutcomeOK, Settled, Terminal
  <2> QED
    BY <1>2, <2>1 DEF OutcomeOK, Steady, Posted
<1> QED
  BY <1>1, <1>2 DEF Steady, Settles

LEMMA BusyFrame ==
  ASSUME NEW q \in Payouts,
         exec[q].intent = "NONE" => exec'[q].intent = "NONE",
         executor'[q] = executor[q],
         \A a \in Actors : desk'[a] # Idle /\ desk'[a].payout = q
                             => desk[a] # Idle /\ desk[a].payout = q,
         \A w \in Reconcilers : reconciler'[w] # Idle /\ reconciler'[w].payout = q
                                  => reconciler[w] # Idle /\ reconciler[w].payout = q
  PROVE  Busy(q)' => Busy(q)
BY DEF Busy

\* A decision requests a payout, approves it, or ends one nothing works on yet.
LEMMA DecideKeepsOwnOutcome ==
  ASSUME TypeOK, NEW p \in Payouts, OutcomeOK(p), DecideNext(p)
  PROVE  OutcomeOK(p)' /\ ticket'[p].settlement = ticket[p].settlement
<1>1. /\ ticket \in [Payouts -> Ticket] /\ ticket[p] \in Ticket
      /\ journal \in [Payouts -> SUBSET Entries]
  BY DEF TypeOK, Entries
<1>2. UNCHANGED <<executor, desk, reconciler>>
  BY DEF DecideNext, Request, Approve, Reject, Cancel, Withdraw, ResolveLegacy
<1>3. CASE Request(p)
  <2>1. /\ ticket[p].approval = "NONE" /\ ticket'[p].approval = "PENDING"
        /\ ticket'[p].legacy = ticket[p].legacy
        /\ ticket'[p].settlement = ticket[p].settlement
    BY <1>1, <1>3 DEF Request, Ticket
  <2>2. journal'[p] = journal[p] \union {"reserve"} /\ exec' = exec
    BY <1>1, <1>3 DEF Request
  <2>3. Busy(p)' => Busy(p)
    BY <1>2, <2>2, BusyFrame
  <2> QED
    BY <2>1, <2>2, <2>3 DEF OutcomeOK
<1>4. ASSUME NEW a \in Actors, NEW m \in Methods, Approve(a, p, m)
      PROVE  OutcomeOK(p)' /\ ticket'[p].settlement = ticket[p].settlement
  <2>1. /\ ticket'[p].approval = "APPROVED"
        /\ ticket'[p].legacy = ticket[p].legacy
        /\ ticket'[p].settlement = ticket[p].settlement
    BY <1>1, <1>4 DEF Approve, Ticket
  <2>2. ticket[p].approval \notin {"REJECTED", "CANCELLED"}
    BY <1>4 DEF Approve, CanTransitionApproval, ApprovalTransitions
  <2>3. journal' = journal
    BY <1>4 DEF Approve
  <2> QED
    BY <2>1, <2>2, <2>3 DEF OutcomeOK
<1>5. ASSUME NEW d \in {"REJECTED", "CANCELLED"}, Withdraw(p, d)
      PROVE  OutcomeOK(p)' /\ ticket'[p].settlement = ticket[p].settlement
  <2>1. /\ ticket[p].approval = "PENDING" /\ ticket'[p].approval = d
        /\ ticket'[p].legacy = ticket[p].legacy
        /\ ticket'[p].settlement = ticket[p].settlement
        /\ exec' = exec
    BY <1>1, <1>5 DEF Withdraw, Ticket
  <2>2. journal'[p] = journal[p] \union {"release"}
    BY <1>5, PostOutcomeEntries DEF Withdraw, Posted, Settlements
  <2>3. Busy(p)' => Busy(p)
    BY <1>2, <2>1, BusyFrame
  <2> QED
    BY <2>1, <2>2, <2>3 DEF OutcomeOK
<1>6. ~\E d \in LegacyDecisions, r \in BOOLEAN : ResolveLegacy(p, d, r)
  BY DEF OutcomeOK, ResolveLegacy
<1> QED
  BY <1>3, <1>4, <1>5, <1>6 DEF DecideNext, Reject, Cancel

LEMMA DecideKeepsOutcome ==
  ASSUME TypeOK, NEW p \in Payouts, NEW q \in Payouts, OutcomeOK(q), DecideNext(p)
  PROVE  OutcomeOK(q)' /\ (Settled(q) => ticket'[q].settlement = ticket[q].settlement)
<1>1. UNCHANGED <<executor, desk, reconciler>>
  BY DEF DecideNext, Request, Approve, Reject, Cancel, Withdraw, ResolveLegacy
<1>2. CASE q # p
  <2>1. ticket'[q] = ticket[q] /\ exec'[q] = exec[q] /\ journal'[q] = journal[q]
    BY <1>2, DecideOthers
  <2>2. Busy(q)' => Busy(q)
    BY <1>1, <2>1, BusyFrame
  <2> QED
    BY <2>1, <2>2, SteadyKeeps DEF Steady, Settles
<1> QED
  BY <1>2, DecideKeepsOwnOutcome

LEMMA ExecuteSteady ==
  ASSUME TypeOK, NEW p \in Payouts, NEW q \in Payouts, OutcomeOK(p), ExecuteNext(p)
  PROVE  Steady(q)
<1>1. /\ ticket \in [Payouts -> Ticket] /\ ticket[p] \in Ticket
      /\ exec \in [Payouts -> Execution] /\ exec[p] \in Execution
      /\ executor \in [Payouts -> ExecutorStates]
  BY DEF TypeOK
<1>2. UNCHANGED <<desk, reconciler>>
  BY DEF ExecuteNext, ClaimExecution, SendSubmit, ReceiveAnswer, FailSubmit, FinalizeSubmit,
         FinalizeUncertain, ScheduleFirst, ExecutorStops
<1>3. ticket[p].approval = "APPROVED"
  BY DEF ExecuteNext, ClaimExecution, SendSubmit, ReceiveAnswer, FailSubmit, FinalizeSubmit,
         FinalizeUncertain, ScheduleFirst, ExecutorStops, OutcomeOK, Busy
<1>4. executor' = [executor EXCEPT ![p] = executor'[p]]
  BY <1>1 DEF ExecuteNext, ClaimExecution, SendSubmit, ReceiveAnswer, FailSubmit,
         FinalizeSubmit, FinalizeUncertain, ScheduleFirst, ExecutorStops
<1>5. /\ ticket'[q].approval = ticket[q].approval
      /\ ticket'[q].legacy = ticket[q].legacy
      /\ Settles(q)
      /\ q # p => exec'[q].intent = exec[q].intent
  <2>1. CASE ClaimExecution(p)
    <3>1. /\ ticket' = [ticket EXCEPT ![p].settlement = "PROCESSING"]
          /\ ~Settled(p) /\ journal' = journal
          /\ q # p => exec'[q] = exec[q]
      BY <1>1, <2>1 DEF ClaimExecution
    <3>2. CASE q = p
      <4>1. /\ ticket'[p].settlement = "PROCESSING"
            /\ ticket'[p].approval = ticket[p].approval
            /\ ticket'[p].legacy = ticket[p].legacy
        BY <1>1, <3>1 DEF Ticket
      <4> QED
        BY <1>3, <3>1, <3>2, <4>1 DEF Settles, Posted, Settlements
    <3>3. CASE q # p
      BY <1>1, <3>1, <3>3 DEF Settles
    <3> QED
      BY <3>2, <3>3
  <2>2. ASSUME NEW outcome \in Settlements, Finalize(p, outcome, NoActor)
        PROVE  /\ ticket'[q].approval = ticket[q].approval
               /\ ticket'[q].legacy = ticket[q].legacy
               /\ Settles(q)
               /\ q # p => exec'[q].intent = exec[q].intent
    <3>1. q # p => exec'[q] = exec[q]
      BY <1>1, <2>2 DEF Finalize, tables
    <3> QED
      BY <1>3, <2>2, <3>1, FinalizeEffect DEF Settles
  <2>3. CASE FinalizeSubmit(p) \/ FinalizeUncertain(p)
    <3>1. executor[p].pc = "ANSWERED" => executor[p].answer \in Settlements
      BY <1>1 DEF ExecutorStates
    <3> QED
      BY <2>2, <2>3, <3>1 DEF FinalizeSubmit, FinalizeUncertain, Settlements
  <2>4. CASE ScheduleFirst(p)
    BY <2>4, ScheduleEffect DEF ScheduleFirst, Settles
  <2>5. CASE SendSubmit(p) \/ ReceiveAnswer(p) \/ FailSubmit(p) \/ ExecutorStops(p)
    BY <2>5 DEF SendSubmit, ReceiveAnswer, FailSubmit, ExecutorStops, tables, Settles
  <2> QED
    BY <2>1, <2>3, <2>4, <2>5 DEF ExecuteNext
<1>6. Busy(q)' => Busy(q) \/ ticket[q].approval = "APPROVED"
  <2>1. CASE q = p
    BY <1>3, <2>1
  <2>2. CASE q # p
    <3>1. executor'[q] = executor[q]
      BY <1>1, <1>4, <2>2
    <3> QED
      BY <1>2, <1>5, <2>2, <3>1, BusyFrame
  <2> QED
    BY <2>1, <2>2
<1> QED
  BY <1>5, <1>6 DEF Steady

LEMMA ReconcileSteady ==
  ASSUME TypeOK, NEW w \in Reconcilers, NEW q \in Payouts, OutcomeOK(q), ReconcileNext(w)
  PROVE  Steady(q)
<1>1. /\ exec \in [Payouts -> Execution]
      /\ reconciler \in [Reconcilers -> ReconcilerStates]
      /\ reconciler[w] \in ReconcilerStates
  BY DEF TypeOK
<1>2. UNCHANGED <<executor, desk>>
  BY DEF ReconcileNext, RequestReconciliation, DeliverJob, Prepare, QueryPayos,
         FinalizeReconcile, ScheduleNext, ReconcilerStops
<1>3. ASSUME exec[q].intent = "NONE" => exec'[q].intent = "NONE",
             \A v \in Reconcilers : reconciler'[v] # Idle /\ reconciler'[v].payout = q
                                      => reconciler[v] # Idle /\ reconciler[v].payout = q
      PROVE  Busy(q)' => Busy(q)
  BY <1>2, <1>3, BusyFrame
<1>4. ASSUME NEW p \in Payouts, NEW n \in Sequences, NEW b, Prepare(w, p, n, b)
      PROVE  Steady(q)
  <2>1. q = p => ticket[p].approval = "APPROVED"
    BY <1>4 DEF Prepare, OutcomeOK, Busy
  <2>2. UNCHANGED <<ticket, journal>>
    BY <1>4 DEF Prepare
  <2>3. CASE q = p
    BY <2>1, <2>2, <2>3 DEF Steady, Settles
  <2>4. CASE q # p
    <3>1. exec'[q] = exec[q]
      BY <1>1, <1>4, <2>4 DEF Prepare
    <3>2. \A v \in Reconcilers : reconciler'[v] # Idle /\ reconciler'[v].payout = q
                                   => reconciler[v] # Idle /\ reconciler[v].payout = q
      BY <1>1, <1>4, <2>4 DEF Prepare
    <3>3. Busy(q)' => Busy(q)
      BY <1>3, <3>1, <3>2
    <3> QED
      BY <2>2, <3>3 DEF Steady, Settles
  <2> QED
    BY <2>3, <2>4
<1>5. CASE QueryPayos(w)
  <2>1. reconciler[w].pc = "QUERY"
    BY <1>5 DEF QueryPayos
  <2>2. \A v \in Reconcilers : reconciler'[v] # Idle /\ reconciler'[v].payout = q
                                 => reconciler[v] # Idle /\ reconciler[v].payout = q
    BY <1>1, <1>5, <2>1 DEF QueryPayos
  <2>3. UNCHANGED <<ticket, exec, journal>>
    BY <1>5 DEF QueryPayos, tables
  <2>4. Busy(q)' => Busy(q)
    BY <1>3, <2>2, <2>3
  <2> QED
    BY <2>3, <2>4 DEF Steady, Settles
<1>6. CASE FinalizeReconcile(w)
  <2>1. PICK p \in Payouts : p = reconciler[w].payout
    BY <1>1, <1>6 DEF FinalizeReconcile, ReconcilerStates
  <2>2. PICK outcome \in Settlements : outcome = reconciler[w].answer
    BY <1>1, <1>6 DEF FinalizeReconcile, ReconcilerStates
  <2>3. Finalize(p, outcome, NoActor)
    BY <1>6, <2>1, <2>2 DEF FinalizeReconcile
  <2>4. q = p => ticket[p].approval = "APPROVED"
    BY <1>6, <2>1 DEF FinalizeReconcile, OutcomeOK, Busy
  <2>5. /\ ticket'[q].approval = ticket[q].approval
        /\ ticket'[q].legacy = ticket[q].legacy
        /\ Settles(q)
        /\ exec[q].intent = "NONE" => exec'[q].intent = "NONE"
    BY <2>3, <2>4, FinalizeEffect DEF Settles
  <2>6. \A v \in Reconcilers : reconciler'[v] # Idle /\ reconciler'[v].payout = q
                                 => reconciler[v] # Idle /\ reconciler[v].payout = q
    BY <1>1, <1>6 DEF FinalizeReconcile
  <2>7. Busy(q)' => Busy(q)
    BY <1>3, <2>5, <2>6
  <2> QED
    BY <2>5, <2>7 DEF Steady
<1>7. CASE ScheduleNext(w) \/ ReconcilerStops(w)
  <2>1. \A v \in Reconcilers : reconciler'[v] # Idle /\ reconciler'[v].payout = q
                                 => reconciler[v] # Idle /\ reconciler[v].payout = q
    BY <1>1, <1>7 DEF ScheduleNext, ReconcilerStops
  <2>2. UNCHANGED <<exec, journal>>
    BY <1>7 DEF ScheduleNext, ReconcilerStops, tables
  <2>3. Busy(q)' => Busy(q)
    BY <1>3, <2>1, <2>2
  <2>4. CASE ReconcilerStops(w)
    BY <2>2, <2>3, <2>4 DEF ReconcilerStops, tables, Steady, Settles
  <2>5. CASE ScheduleNext(w)
    <3>1. PICK p \in Payouts : p = reconciler[w].payout
      BY <1>1, <2>5 DEF ScheduleNext, ReconcilerStates
    <3>2. ScheduleReconciliation(p, reconciler[w].seq + 1)
      BY <2>5, <3>1 DEF ScheduleNext
    <3> QED
      BY <2>2, <2>3, <3>2, ScheduleEffect DEF Steady, Settles
  <2> QED
    BY <1>7, <2>4, <2>5
<1>8. 1 \in Sequences
  BY LimitsAssumption DEF Sequences
<1> QED
  BY <1>4, <1>5, <1>6, <1>7, <1>8 DEF ReconcileNext, RequestReconciliation, DeliverJob

LEMMA DeskSteady ==
  ASSUME TypeOK, NEW a \in Actors, NEW q \in Payouts, OutcomeOK(q), DeskNext(a)
  PROVE  Steady(q)
<1> DEFINE DeskStates == {Idle} \union [pc: {"READ"}, payout: Payouts, op: DeskOperations]
<1>1. /\ ticket \in [Payouts -> Ticket] /\ exec \in [Payouts -> Execution]
      /\ desk \in [Actors -> DeskStates] /\ desk[a] \in DeskStates
  BY DEF TypeOK
<1>2. UNCHANGED <<executor, reconciler>>
  BY DEF DeskNext, DeskRead, DeskStart, DeskFinalize, DeskStops
<1>3. ASSUME exec[q].intent = "NONE" => exec'[q].intent = "NONE",
             \A v \in Actors : desk'[v] # Idle /\ desk'[v].payout = q
                                 => desk[v] # Idle /\ desk[v].payout = q
      PROVE  Busy(q)' => Busy(q)
  BY <1>2, <1>3, BusyFrame
<1>4. ASSUME NEW p \in Payouts, NEW op \in DeskOperations, DeskRead(a, p, op)
      PROVE  Steady(q)
  <2>1. q = p => ticket[p].approval = "APPROVED"
    BY <1>4 DEF DeskRead, ReadyForDesk, OutcomeOK
  <2>2. UNCHANGED <<ticket, journal, exec>>
    BY <1>4 DEF DeskRead, tables
  <2>3. CASE q = p
    BY <2>1, <2>2, <2>3 DEF Steady, Settles
  <2>4. CASE q # p
    <3>1. \A v \in Actors : desk'[v] # Idle /\ desk'[v].payout = q
                              => desk[v] # Idle /\ desk[v].payout = q
      BY <1>1, <1>4, <2>4 DEF DeskRead
    <3> QED
      BY <1>3, <2>2, <3>1 DEF Steady, Settles
  <2> QED
    BY <2>3, <2>4
<1>5. ASSUME desk' = [desk EXCEPT ![a] = Idle]
      PROVE  \A v \in Actors : desk'[v] # Idle /\ desk'[v].payout = q
                                 => desk[v] # Idle /\ desk[v].payout = q
  BY <1>1, <1>5
<1>6. ASSUME desk[a].pc = "READ"
      PROVE  /\ desk[a].payout \in Payouts
             /\ desk[a].payout = q => ticket[q].approval = "APPROVED"
  <2>1. desk[a].payout \in Payouts /\ desk[a] # Idle
    BY <1>1, <1>6
  <2> QED
    BY <2>1 DEF OutcomeOK, Busy
<1>7. CASE DeskStart(a)
  <2>1. PICK p \in Payouts : p = desk[a].payout
    BY <1>6, <1>7 DEF DeskStart
  <2>2. /\ ticket[p].settlement = "NOT_STARTED"
        /\ ticket' = [ticket EXCEPT ![p] =
             [ticket[p] EXCEPT !.settlement = "PROCESSING", !.starter = a]]
        /\ UNCHANGED <<exec, journal>>
    BY <1>1, <1>7, <2>1 DEF DeskStart
  <2>3. Busy(q)' => Busy(q)
    BY <1>3, <1>5, <1>7, <2>2 DEF DeskStart
  <2>4. CASE q # p
    BY <1>1, <2>2, <2>3, <2>4 DEF Steady, Settles
  <2>5. CASE q = p
    <3>1. /\ ticket'[p].settlement = "PROCESSING"
          /\ ticket'[p].approval = ticket[p].approval
          /\ ticket'[p].legacy = ticket[p].legacy
      <4>1. ticket[p] \in Ticket
        BY <1>1
      <4>2. ticket'[p] = [ticket[p] EXCEPT !.settlement = "PROCESSING", !.starter = a]
        BY <1>1, <2>2
      <4> QED
        BY <4>1, <4>2 DEF Ticket
    <3>2. ticket[p].approval = "APPROVED" /\ ~Settled(p)
      BY <1>6, <1>7, <2>1, <2>2, <2>5 DEF DeskStart, Settled, Terminal
    <3> QED
      BY <2>2, <2>3, <2>5, <3>1, <3>2 DEF Steady, Settles, Posted, Settlements
  <2> QED
    BY <2>4, <2>5
<1>8. CASE DeskFinalize(a)
  <2>1. PICK p \in Payouts : p = desk[a].payout
    BY <1>6, <1>8 DEF DeskFinalize
  <2>2. PICK outcome \in Settlements : outcome = DeskOutcome(desk[a].op)
    BY DEF DeskOutcome, Settlements
  <2>3. Finalize(p, outcome, a)
    BY <1>8, <2>1, <2>2 DEF DeskFinalize
  <2>4. q = p => ticket[q].approval = "APPROVED"
    BY <1>6, <1>8, <2>1 DEF DeskFinalize
  <2>5. /\ ticket'[q].approval = ticket[q].approval
        /\ ticket'[q].legacy = ticket[q].legacy
        /\ Settles(q)
        /\ exec[q].intent = "NONE" => exec'[q].intent = "NONE"
    BY <2>3, <2>4, FinalizeEffect DEF Settles
  <2>6. Busy(q)' => Busy(q)
    BY <1>3, <1>5, <1>8, <2>5 DEF DeskFinalize
  <2> QED
    BY <2>5, <2>6 DEF Steady
<1>9. CASE DeskStops(a)
  <2>1. Busy(q)' => Busy(q)
    BY <1>3, <1>5, <1>9 DEF DeskStops, tables
  <2> QED
    BY <1>9, <2>1 DEF DeskStops, tables, Steady, Settles
<1> QED
  BY <1>4, <1>7, <1>8, <1>9 DEF DeskNext

LEMMA OthersSteady ==
  ASSUME TypeOK, NEW q \in Payouts,
         \/ SweepNext
         \/ \E p \in Payouts : OutsideNext(p)
         \/ \E p \in Payouts, n \in Sequences : DropMessage(p, n)
  PROVE  Steady(q)
<1>1. ticket \in [Payouts -> Ticket]
  BY DEF TypeOK
<1>2. UNCHANGED <<exec, executor, desk, reconciler, journal>>
  BY DEF SweepNext, SweepRead, SweepFlag, SweepSchedule, SweepStops, OutsideNext,
         PayosAccepts, RequestLost, PayosMoves, TransferByHand, DropMessage, tables
<1>3. Busy(q)' => Busy(q)
  BY <1>2, BusyFrame
<1>4. sweep # Idle => sweep.payout \in Payouts
  BY DEF TypeOK
<1>5. /\ ticket'[q].approval = ticket[q].approval
      /\ ticket'[q].settlement = ticket[q].settlement
      /\ ticket'[q].legacy = ticket[q].legacy
  <2>1. CASE ticket' = ticket
    BY <2>1
  <2>2. CASE SweepFlag
    <3>1. PICK p \in Payouts : p = sweep.payout
      BY <1>4, <2>2 DEF SweepFlag
    <3>2. ticket' = [ticket EXCEPT ![p].review = TRUE]
      BY <2>2, <3>1 DEF SweepFlag
    <3>3. ticket[p] \in Ticket
      BY <1>1
    <3> QED
      BY <1>1, <3>2, <3>3 DEF Ticket
  <2>3. CASE SweepSchedule
    <3>1. PICK p \in Payouts : p = sweep.payout
      BY <1>4, <2>3 DEF SweepSchedule
    <3> QED
      BY <2>3, <3>1, ScheduleEffect DEF SweepSchedule
  <2> QED
    BY <2>1, <2>2, <2>3
    DEF SweepNext, SweepRead, SweepStops, OutsideNext, PayosAccepts, RequestLost,
        PayosMoves, TransferByHand, DropMessage, tables
<1> QED
  BY <1>2, <1>3, <1>5 DEF Steady, Settles

\* Whatever is not a decision leaves the decision about a payout as it is.
LEMMA OtherwiseSteady ==
  ASSUME TypeOK, ImportedInv, OutcomeInv, Next, ~\E p \in Payouts : DecideNext(p),
         NEW q \in NewPayouts
  PROVE  Steady(q)
<1>1. q \in Payouts /\ OutcomeOK(q)
  BY DEF OutcomeInv, NewPayouts
<1>2. ASSUME NEW p \in Payouts, ExecuteNext(p)
      PROVE  Steady(q)
  <2>1. OutcomeOK(p)
    BY <1>2, ImportedIsNotExecuted DEF OutcomeInv
  <2> QED
    BY <1>1, <1>2, <2>1, ExecuteSteady
<1> QED
  BY <1>1, <1>2, ReconcileSteady, DeskSteady, OthersSteady DEF Next

LEMMA OutcomeStep ==
  ASSUME TypeOK, ImportedInv, OutcomeInv, [Next]_vars
  PROVE  /\ OutcomeInv'
         /\ \A q \in NewPayouts : ticket[q].settlement \in Terminal
                                   => ticket'[q].settlement = ticket[q].settlement
<1> SUFFICES ASSUME NEW q \in NewPayouts
             PROVE  /\ OutcomeOK(q)'
                    /\ Settled(q) => ticket'[q].settlement = ticket[q].settlement
  BY DEF OutcomeInv, Settled
<1>1. q \in Payouts /\ OutcomeOK(q)
  BY DEF OutcomeInv, NewPayouts
<1>2. CASE UNCHANGED vars
  BY <1>1, <1>2 DEF OutcomeOK, Busy, vars, tables
<1>3. CASE \E p \in Payouts : DecideNext(p)
  BY <1>1, <1>3, DecideKeepsOutcome
<1>4. CASE Next /\ ~\E p \in Payouts : DecideNext(p)
  BY <1>1, <1>4, OtherwiseSteady, SteadyKeeps
<1> QED
  BY <1>2, <1>3, <1>4

LEMMA OutcomeInit == Init => OutcomeInv
<1> SUFFICES ASSUME Init, NEW p \in NewPayouts PROVE OutcomeOK(p)
  BY DEF OutcomeInv
<1>1. p \in Payouts /\ p \notin Legacy
  BY DEF NewPayouts
<1>2. ticket[p] = NoTicket /\ journal[p] = {} /\ exec[p].intent = "NONE"
  BY <1>1 DEF Init, NoExecution
<1>3. /\ executor[p] = Idle
      /\ \A a \in Actors : desk[a] = Idle
      /\ \A w \in Reconcilers : reconciler[w] = Idle
  BY <1>1 DEF Init
<1> QED
  BY <1>2, <1>3 DEF OutcomeOK, Busy, NoTicket

LEMMA OutcomesInvariant == Spec => []OutcomeInv
<1>1. TypeOK /\ ImportedInv /\ OutcomeInv /\ [Next]_vars => OutcomeInv'
  BY OutcomeStep
<1> QED
  BY <1>1, OutcomeInit, ImportedInvariant, TypeCorrect, PTL DEF Spec

\* ReservationEndsOnce: whoever ends a reservation, an owner that resolves an imported
\* payout included, and whatever stale state they acted on, it is not paid out and
\* given back.
THEOREM ReservationsEndOnce == Spec => []ReservationEndsOnce
<1>1. ASSUME ImportedInv, OutcomeInv, NEW p \in Payouts
      PROVE  ~({"paid", "release"} \subseteq journal[p])
  <2>1. CASE p \in Legacy
    BY <1>1, <2>1 DEF ImportedInv, ImportedOK
  <2>2. CASE p \in NewPayouts
    BY <1>1, <2>2 DEF OutcomeInv, OutcomeOK
  <2> QED
    BY <2>1, <2>2 DEF NewPayouts
<1>2. ImportedInv /\ OutcomeInv => ReservationEndsOnce
  BY <1>1 DEF ReservationEndsOnce
<1> QED
  BY <1>2, ImportedInvariant, OutcomesInvariant, PTL

\* No step takes a payout requested under this version out of PAID or FAILED, whatever
\* is imported beside it.
THEOREM NewOutcomesAreFinal ==
  Spec => [][\A p \in NewPayouts : ticket[p].settlement \in Terminal
                                     => ticket'[p].settlement = ticket[p].settlement]_vars
<1>1. TypeOK /\ ImportedInv /\ OutcomeInv /\ [Next]_vars =>
        [\A p \in NewPayouts : ticket[p].settlement \in Terminal
                                 => ticket'[p].settlement = ticket[p].settlement]_vars
  BY OutcomeStep
<1> QED
  BY <1>1, OutcomesInvariant, ImportedInvariant, TypeCorrect, PTL DEF Spec

\* TerminalIsFinal, when no payout was imported: an imported one may leave its outcome.
THEOREM OutcomesAreFinal ==
  ASSUME Legacy = {}
  PROVE  Spec => TerminalIsFinal
<1>1. NewPayouts = Payouts
  BY DEF NewPayouts
<1>2. [\A p \in NewPayouts : ticket[p].settlement \in Terminal
                               => ticket'[p].settlement = ticket[p].settlement]_vars
      => [\A p \in Payouts : ticket[p].settlement \in Terminal
                               => ticket'[p].settlement = ticket[p].settlement]_vars
  BY <1>1
<1> QED
  BY <1>2, NewOutcomesAreFinal, PTL DEF TerminalIsFinal

-----------------------------------------------------------------------------
(* Reconciliation sequences, with imported payouts or without.             *)

Attempts(p) == Cardinality(exec[p].rows)

\* The rows of a payout have no gap, and whatever asks for one more sequence,
\* a message, a running reconciliation or the sweep, is at most one ahead.
SequenceOK(p) ==
  /\ exec[p].rows = 1..Attempts(p)
  /\ \A m \in queue : m[1] = p => m[2] <= Attempts(p) + 1
  /\ \A w \in Reconcilers :
       reconciler[w] # Idle /\ reconciler[w].payout = p => reconciler[w].seq <= Attempts(p)
  /\ sweep # Idle /\ sweep.payout = p => sweep.next <= Attempts(p) + 1

SequenceInv == \A p \in Payouts : SequenceOK(p)

\* One sequence more, at most one ahead, leaves no gap.
LEMMA OneMoreRow ==
  ASSUME NEW R, NEW k \in Nat, R = 1..k, NEW n \in Nat \ {0}, n <= k + 1
  PROVE  \E j \in Nat : /\ R \union {n} = 1..j
                        /\ Cardinality(R \union {n}) = j
                        /\ k <= j /\ n <= j
<1>1. \A i \in Nat : Cardinality(1..i) = i
  <2> TAKE i \in Nat
  <2>1. Cardinality(1..i) = IF 1 > i THEN 0 ELSE i - 1 + 1
    BY FS_Interval
  <2> QED
    BY <2>1
<1>2. PICK j \in Nat : j = (IF n = k + 1 THEN n ELSE k) /\ k <= j /\ n <= j
  OBVIOUS
<1>3. R \union {n} = 1..j
  BY <1>2
<1> QED
  BY <1>1, <1>2, <1>3

LEMMA AttemptsType ==
  ASSUME TypeOK, NEW p \in Payouts
  PROVE  Attempts(p) \in Nat /\ exec[p].rows \subseteq Sequences
<1>1. exec[p].rows \subseteq Sequences
  BY DEF TypeOK, Execution
<1>2. IsFiniteSet(Sequences)
  BY FS_Interval, LimitsAssumption DEF Sequences
<1> QED
  BY <1>1, <1>2, FS_Subset, FS_CardinalityType DEF Attempts

WithinReach(m) == m[2] <= Attempts(m[1]) + 1

\* A step that adds no row, and asks for no sequence but one within reach.
NoNewRow ==
  /\ \A q \in Payouts : exec'[q].rows = exec[q].rows
  /\ \A m \in queue' : m \in queue \/ WithinReach(m)
  /\ \A w \in Reconcilers :
       reconciler'[w] # Idle => /\ reconciler[w] # Idle
                                /\ reconciler'[w].payout = reconciler[w].payout
                                /\ reconciler'[w].seq = reconciler[w].seq
  /\ sweep' # Idle => \/ sweep' = sweep
                      \/ sweep'.next <= Attempts(sweep'.payout) + 1

LEMMA NoNewRowKeeps ==
  ASSUME SequenceInv, NoNewRow
  PROVE  SequenceInv'
<1> SUFFICES ASSUME NEW q \in Payouts PROVE SequenceOK(q)'
  BY DEF SequenceInv
<1>1. SequenceOK(q)
  BY DEF SequenceInv
<1>2. exec'[q].rows = exec[q].rows /\ Attempts(q)' = Attempts(q)
  BY DEF NoNewRow, Attempts
<1>3. \A m \in queue' : m[1] = q => m[2] <= Attempts(q)' + 1
  BY <1>1, <1>2 DEF NoNewRow, SequenceOK, WithinReach
<1>4. \A w \in Reconcilers :
        reconciler'[w] # Idle /\ reconciler'[w].payout = q
          => reconciler'[w].seq <= Attempts(q)'
  BY <1>1, <1>2 DEF NoNewRow, SequenceOK
<1>5. sweep' # Idle /\ sweep'.payout = q => sweep'.next <= Attempts(q)' + 1
  BY <1>1, <1>2 DEF NoNewRow, SequenceOK
<1> QED
  BY <1>1, <1>2, <1>3, <1>4, <1>5 DEF SequenceOK

LEMMA FinalizeRows ==
  ASSUME TypeOK, NEW p \in Payouts, NEW outcome, NEW actor,
         Finalize(p, outcome, actor), NEW q \in Payouts
  PROVE  exec'[q].rows = exec[q].rows /\ exec'[q].submit = exec[q].submit
<1>1. exec \in [Payouts -> Execution] /\ exec[p] \in Execution
  BY DEF TypeOK
<1>2. CASE exec' = exec
  BY <1>2
<1>3. CASE exec' = [exec EXCEPT ![p].intent =
                      IF exec[p].intent = "NONE" THEN "NONE" ELSE IntentAfter(outcome)]
  BY <1>1, <1>3 DEF Execution
<1> QED
  BY <1>1, <1>2, <1>3 DEF Finalize, tables

LEMMA ScheduleWithinReach ==
  ASSUME NEW p \in Payouts, NEW n \in Nat, n <= Attempts(p) + 1, ScheduleReconciliation(p, n)
  PROVE  \A m \in queue' : m \in queue \/ WithinReach(m)
<1>1. queue' = queue \/ queue' = queue \union {<<p, n>>}
  BY DEF ScheduleReconciliation
<1>2. \A m \in queue' : m \in queue \/ m = <<p, n>>
  BY <1>1
<1>3. ASSUME NEW m, m = <<p, n>>
      PROVE  WithinReach(m)
  <2>1. m[1] = p /\ m[2] = n
    BY <1>3
  <2> QED
    BY <2>1 DEF WithinReach
<1> QED
  BY <1>2, <1>3

LEMMA PrepareKeeps ==
  ASSUME TypeOK, SequenceInv, NEW w \in Reconcilers, NEW p \in Payouts, NEW n \in Sequences,
         NEW b, Prepare(w, p, n, b), queue' = queue, n <= Attempts(p) + 1
  PROVE  SequenceInv'
<1> SUFFICES ASSUME NEW q \in Payouts PROVE SequenceOK(q)'
  BY DEF SequenceInv
<1>1. SequenceOK(q) /\ SequenceOK(p) /\ n \in Nat \ {0}
  BY LimitsAssumption DEF SequenceInv, Sequences
<1>2. /\ exec \in [Payouts -> Execution] /\ exec[p] \in Execution
      /\ reconciler \in [Reconcilers -> ReconcilerStates]
      /\ queue \subseteq Messages
  BY DEF TypeOK
<1>3. exec' = [exec EXCEPT ![p] = [exec[p] EXCEPT !.rows = exec[p].rows \union {n}]]
  BY <1>2 DEF Prepare
<1>4. /\ exec'[p].rows = exec[p].rows \union {n}
      /\ q # p => exec'[q] = exec[q]
  BY <1>2, <1>3 DEF Execution
<1>5. Attempts(p) \in Nat /\ Attempts(q) \in Nat
  BY AttemptsType
<1>6. /\ reconciler' = [reconciler EXCEPT
              ![w] = [pc |-> "QUERY", payout |-> p, seq |-> n, job |-> b]]
      /\ sweep' = sweep
  BY DEF Prepare
<1>7. CASE q # p
  <2>1. Attempts(q)' = Attempts(q)
    BY <1>4, <1>7 DEF Attempts
  <2>2. \A v \in Reconcilers :
          reconciler'[v] # Idle /\ reconciler'[v].payout = q
            => reconciler[v] # Idle /\ reconciler'[v] = reconciler[v]
    BY <1>2, <1>6, <1>7
  <2> QED
    BY <1>1, <1>4, <1>6, <1>7, <2>1, <2>2 DEF SequenceOK
<1>8. CASE q = p
  <2>1. /\ Attempts(p)' \in Nat
        /\ exec'[p].rows = 1..Attempts(p)'
        /\ Attempts(p) <= Attempts(p)'
        /\ n <= Attempts(p)'
    <3>1. PICK j \in Nat : /\ exec[p].rows \union {n} = 1..j
                           /\ Cardinality(exec[p].rows \union {n}) = j
                           /\ Attempts(p) <= j /\ n <= j
      BY <1>1, <1>5, OneMoreRow DEF SequenceOK
    <3> QED
      BY <1>4, <3>1 DEF Attempts
  <2>3. \A v \in Reconcilers :
          reconciler'[v] # Idle /\ reconciler'[v].payout = p
            => reconciler'[v].seq <= Attempts(p)'
    <3>1. \A v \in Reconcilers :
            \/ reconciler'[v] = reconciler[v]
            \/ reconciler'[v].seq = n
      BY <1>2, <1>6
    <3>2. \A v \in Reconcilers :
            reconciler[v] # Idle => reconciler[v].seq \in Nat
      BY <1>2, LimitsAssumption DEF ReconcilerStates, Sequences
    <3>3. \A v \in Reconcilers :
            reconciler[v] # Idle /\ reconciler[v].payout = p
              => reconciler[v].seq <= Attempts(p)
      BY <1>1 DEF SequenceOK
    <3>4. \A x \in Nat : x <= Attempts(p) => x <= Attempts(p)'
      BY <1>5, <2>1
    <3> QED
      BY <2>1, <3>1, <3>2, <3>3, <3>4
  <2> QED
    <3>1. \A m \in queue' : m[1] = p => m[2] <= Attempts(p)' + 1
      <4>1. \A m \in queue : m[2] \in Nat
        BY <1>2, LimitsAssumption DEF Messages, Sequences
      <4> QED
        BY <1>1, <1>5, <2>1, <4>1 DEF SequenceOK
    <3>2. sweep' # Idle /\ sweep'.payout = p => sweep'.next <= Attempts(p)' + 1
      <4>1. sweep # Idle => sweep.next \in Nat
        BY DEF TypeOK
      <4> QED
        BY <1>1, <1>5, <1>6, <2>1, <4>1 DEF SequenceOK
    <3> QED
      BY <1>8, <2>1, <2>3, <3>1, <3>2 DEF SequenceOK
<1> QED
  BY <1>7, <1>8
LEMMA SequenceStep == TypeOK /\ SequenceInv /\ [Next]_vars => SequenceInv'
<1> SUFFICES ASSUME TypeOK, SequenceInv, [Next]_vars PROVE SequenceInv'
  OBVIOUS
<1>1. /\ exec \in [Payouts -> Execution]
      /\ reconciler \in [Reconcilers -> ReconcilerStates]
      /\ queue \subseteq Messages
  BY DEF TypeOK
<1>2. \A p \in Payouts : Attempts(p) \in Nat
  BY AttemptsType
<1>3. CASE UNCHANGED vars
  BY <1>3 DEF SequenceInv, SequenceOK, Attempts, vars, tables
<1>4. ASSUME NEW p \in Payouts, DecideNext(p)
      PROVE  SequenceInv'
  <2>1. UNCHANGED <<reconciler, queue, sweep>>
    BY <1>4 DEF DecideNext, Request, Approve, Reject, Cancel, Withdraw, ResolveLegacy
  <2>2. \A q \in Payouts : exec'[q].rows = exec[q].rows
    <3>1. CASE exec' = exec
      BY <3>1
    <3>2. ASSUME NEW i, exec' = [exec EXCEPT ![p].intent = i]
          PROVE  \A q \in Payouts : exec'[q].rows = exec[q].rows
      BY <1>1, <3>2 DEF Execution
    <3> QED
      BY <1>4, <3>1, <3>2
      DEF DecideNext, Request, Approve, Reject, Cancel, Withdraw, ResolveLegacy
  <2> QED
    BY <2>1, <2>2, NoNewRowKeeps DEF NoNewRow
<1>5. ASSUME NEW p \in Payouts, ExecuteNext(p)
      PROVE  SequenceInv'
  <2>1. UNCHANGED <<reconciler, sweep>>
    BY <1>5 DEF ExecuteNext, ClaimExecution, SendSubmit, ReceiveAnswer, FailSubmit,
           FinalizeSubmit, FinalizeUncertain, ScheduleFirst, ExecutorStops
  <2>2. \A q \in Payouts : exec'[q].rows = exec[q].rows
    <3>1. CASE exec' = exec
      BY <3>1
    <3>2. CASE ClaimExecution(p)
      BY <1>1, <3>2 DEF ClaimExecution, Execution
    <3>3. CASE FinalizeSubmit(p) \/ FinalizeUncertain(p)
      BY <3>3, FinalizeRows DEF FinalizeSubmit, FinalizeUncertain
    <3> QED
      BY <1>5, <3>1, <3>2, <3>3
      DEF ExecuteNext, SendSubmit, ReceiveAnswer, FailSubmit, ScheduleFirst, ExecutorStops,
          tables
  <2>3. \A m \in queue' : m \in queue \/ WithinReach(m)
    <3>1. CASE queue' = queue
      BY <3>1
    <3>2. CASE ScheduleFirst(p)
      <4>1. 1 <= Attempts(p) + 1
        BY <1>2
      <4> QED
        BY <3>2, <4>1, ScheduleWithinReach DEF ScheduleFirst
    <3> QED
      BY <1>5, <3>1, <3>2
      DEF ExecuteNext, ClaimExecution, SendSubmit, ReceiveAnswer, FailSubmit,
          FinalizeSubmit, FinalizeUncertain, ExecutorStops
  <2> QED
    BY <2>1, <2>2, <2>3, NoNewRowKeeps DEF NoNewRow
<1>6. ASSUME NEW w \in Reconcilers, ReconcileNext(w)
      PROVE  SequenceInv'
  <2>1. ASSUME NEW p \in Payouts, RequestReconciliation(w, p)
        PROVE  SequenceInv'
    <3>1. 1 \in Sequences /\ 1 <= Attempts(p) + 1
      BY <1>2, LimitsAssumption DEF Sequences
    <3> QED
      BY <2>1, <3>1, PrepareKeeps DEF RequestReconciliation
  <2>2. ASSUME NEW p \in Payouts, NEW n \in Sequences, DeliverJob(w, p, n)
        PROVE  SequenceInv'
    <3>1. <<p, n>> \in queue /\ <<p, n>>[1] = p /\ <<p, n>>[2] = n
      BY <2>2 DEF DeliverJob
    <3>2. n <= Attempts(p) + 1
      BY <3>1 DEF SequenceInv, SequenceOK
    <3> QED
      BY <2>2, <3>2, PrepareKeeps DEF DeliverJob
  <2>3. CASE QueryPayos(w) \/ FinalizeReconcile(w) \/ ScheduleNext(w) \/ ReconcilerStops(w)
    <3>1. sweep' = sweep
      BY <2>3 DEF QueryPayos, FinalizeReconcile, ScheduleNext, ReconcilerStops
    <3>2. \/ reconciler[w].pc = "QUERY" \/ reconciler[w].pc = "FINALIZE"
          \/ reconciler[w].pc = "SCHEDULE" \/ reconciler[w] # Idle
      BY <2>3 DEF QueryPayos, FinalizeReconcile, ScheduleNext, ReconcilerStops
    <3>3. /\ reconciler[w] # Idle /\ reconciler[w].payout \in Payouts
          /\ reconciler[w].seq \in Sequences
      <4>1. reconciler[w] \in ReconcilerStates
        BY <1>1
      <4>2. reconciler[w] # Idle
        BY <3>2
      <4> QED
        BY <4>1, <4>2 DEF ReconcilerStates
    <3>4. \A v \in Reconcilers :
            reconciler'[v] # Idle => /\ reconciler[v] # Idle
                                     /\ reconciler'[v].payout = reconciler[v].payout
                                     /\ reconciler'[v].seq = reconciler[v].seq
      <4>1. \A v \in Reconcilers \ {w} : reconciler'[v] = reconciler[v]
        BY <1>1, <2>3 DEF QueryPayos, FinalizeReconcile, ScheduleNext, ReconcilerStops
      <4>2. reconciler'[w] # Idle => /\ reconciler'[w].payout = reconciler[w].payout
                                     /\ reconciler'[w].seq = reconciler[w].seq
        BY <1>1, <2>3 DEF QueryPayos, FinalizeReconcile, ScheduleNext, ReconcilerStops
      <4> QED
        BY <3>3, <4>1, <4>2
    <3>5. \A q \in Payouts : exec'[q].rows = exec[q].rows
      <4>1. CASE exec' = exec
        BY <4>1
      <4>2. CASE FinalizeReconcile(w)
        BY <3>3, <4>2, FinalizeRows DEF FinalizeReconcile
      <4> QED
        BY <2>3, <4>1, <4>2 DEF QueryPayos, ScheduleNext, ReconcilerStops, tables
    <3>6. \A m \in queue' :
            m \in queue \/ WithinReach(m)
      <4>1. CASE queue' = queue
        BY <4>1
      <4>2. CASE ScheduleNext(w)
        <5>1. PICK p \in Payouts : p = reconciler[w].payout
          BY <3>3
        <5>2. PICK n \in Nat : n = reconciler[w].seq + 1 /\ n <= Attempts(p) + 1
          <6>1. reconciler[w].seq \in Nat
            BY <3>3, LimitsAssumption DEF Sequences
          <6>2. reconciler[w].seq <= Attempts(p)
            BY <3>3, <5>1 DEF SequenceInv, SequenceOK
          <6> QED
            BY <1>2, <6>1, <6>2
        <5> QED
          BY <4>2, <5>1, <5>2, ScheduleWithinReach DEF ScheduleNext
      <4> QED
        BY <2>3, <4>1, <4>2 DEF QueryPayos, FinalizeReconcile, ReconcilerStops
    <3> QED
      BY <3>1, <3>4, <3>5, <3>6, NoNewRowKeeps DEF NoNewRow
  <2> QED
    BY <1>6, <2>1, <2>2, <2>3 DEF ReconcileNext
<1>7. ASSUME NEW a \in Actors, DeskNext(a)
      PROVE  SequenceInv'
  <2>1. UNCHANGED <<reconciler, queue, sweep>>
    BY <1>7 DEF DeskNext, DeskRead, DeskStart, DeskFinalize, DeskStops
  <2>2. \A q \in Payouts : exec'[q].rows = exec[q].rows
    <3>1. CASE exec' = exec
      BY <3>1
    <3>2. CASE DeskFinalize(a)
      <4>1. desk[a].payout \in Payouts
        <5>1. desk[a] \in {Idle} \union [pc: {"READ"}, payout: Payouts, op: DeskOperations]
          BY DEF TypeOK
        <5>2. desk[a].pc = "READ"
          BY <3>2 DEF DeskFinalize
        <5> QED
          BY <5>1, <5>2
      <4> QED
        BY <3>2, <4>1, FinalizeRows DEF DeskFinalize
    <3> QED
      BY <1>7, <3>1, <3>2 DEF DeskNext, DeskRead, DeskStart, DeskStops, tables
  <2> QED
    BY <2>1, <2>2, NoNewRowKeeps DEF NoNewRow
<1>8. CASE SweepNext
  <2>1. UNCHANGED <<exec, reconciler>>
    BY <1>8 DEF SweepNext, SweepRead, SweepFlag, SweepSchedule, SweepStops, tables
  <2>2. sweep' # Idle => \/ sweep' = sweep
                         \/ sweep'.next <= Attempts(sweep'.payout) + 1
    BY <1>2, <1>8
    DEF SweepNext, SweepRead, SweepFlag, SweepSchedule, SweepStops, NextSequence, Attempts
  <2>3. \A m \in queue' : m \in queue \/ WithinReach(m)
    <3>1. CASE queue' = queue
      BY <3>1
    <3>2. CASE SweepSchedule
      <4>1. PICK p \in Payouts : p = sweep.payout
        BY <3>2 DEF SweepSchedule, TypeOK
      <4>2. PICK n \in Nat : n = sweep.next
        BY <3>2 DEF SweepSchedule, TypeOK
      <4>3. n <= Attempts(p) + 1
        BY <3>2, <4>1, <4>2 DEF SweepSchedule, SequenceInv, SequenceOK
      <4> QED
        BY <3>2, <4>1, <4>2, <4>3, ScheduleWithinReach DEF SweepSchedule
    <3> QED
      BY <1>8, <3>1, <3>2 DEF SweepNext, SweepRead, SweepFlag, SweepStops
  <2> QED
    BY <2>1, <2>2, <2>3, NoNewRowKeeps DEF NoNewRow
<1>9. ASSUME \/ \E p \in Payouts : OutsideNext(p)
             \/ \E p \in Payouts, n \in Sequences : DropMessage(p, n)
      PROVE  SequenceInv'
  <2>1. UNCHANGED <<exec, reconciler, sweep>> /\ queue' \subseteq queue
    BY <1>9 DEF OutsideNext, PayosAccepts, RequestLost, PayosMoves, TransferByHand,
           DropMessage, tables
  <2>2. \A m \in queue' : m \in queue \/ WithinReach(m)
    BY <2>1
  <2> QED
    BY <2>1, <2>2, NoNewRowKeeps DEF NoNewRow
<1> QED
  BY <1>3, <1>4, <1>5, <1>6, <1>7, <1>8, <1>9 DEF Next

\* SequencesAreConsecutive: whatever operators, deliveries in any order, redelivered
\* messages and sweeps on old reads there are, the RECONCILE rows have no gap.
THEOREM SequencesStayConsecutive == Spec => []SequencesAreConsecutive
<1>1. Init => SequenceInv
  <2> SUFFICES ASSUME Init, NEW p \in Payouts PROVE SequenceOK(p)
    BY DEF SequenceInv
  <2>1. exec[p].rows = {}
    <3>1. PICK import \in [Legacy -> ImportedPayouts] :
            exec = [i \in Payouts |->
                      [NoExecution EXCEPT !.submit = i \in Legacy /\ import[i].submit]]
      BY DEF Init
    <3> QED
      BY <3>1 DEF NoExecution
  <2>2. Attempts(p) = 0
    BY <2>1, FS_EmptySet DEF Attempts
  <2>3. 1..0 = {}
    OBVIOUS
  <2> QED
    BY <2>1, <2>2, <2>3 DEF Init, SequenceOK
<1>2. TypeOK /\ SequenceInv /\ [Next]_vars => SequenceInv'
  BY SequenceStep
<1>3. SequenceInv => SequencesAreConsecutive
  BY DEF SequenceInv, SequenceOK, SequencesAreConsecutive, Attempts
<1> QED
  BY <1>1, <1>2, <1>3, TypeCorrect, PTL DEF Spec

-----------------------------------------------------------------------------
(* The intent of a submitted payout requested under this version.          *)

MirrorOf(settlement) ==
  CASE settlement = "PAID" -> "CONFIRMED"
    [] settlement = "FAILED" -> "FAILED"
    [] settlement = "UNKNOWN" -> "UNKNOWN"
    [] OTHER -> "REQUESTED"

\* A submitted payout has left NOT_STARTED, and its intent says where it is.
MirrorOK(p) ==
  exec[p].submit => /\ ticket[p].settlement # "NOT_STARTED"
                    /\ exec[p].intent = MirrorOf(ticket[p].settlement)

MirrorInv == \A p \in NewPayouts : MirrorOK(p)

\* A step that touches neither, or not for a submitted payout.
LEMMA MirrorFrame ==
  ASSUME NEW q \in Payouts, MirrorOK(q), exec'[q].submit = exec[q].submit,
         exec[q].submit => /\ exec'[q].intent = exec[q].intent
                           /\ ticket'[q].settlement = ticket[q].settlement
  PROVE  MirrorOK(q)'
BY DEF MirrorOK

LEMMA FinalizeMirrors ==
  ASSUME TypeOK, NEW p \in Payouts, NEW outcome \in Settlements, NEW actor,
         Finalize(p, outcome, actor), NEW q \in Payouts, MirrorOK(q)
  PROVE  MirrorOK(q)'
<1>1. exec'[q].submit = exec[q].submit
  BY FinalizeRows
<1>2. CASE Settled(p)
  BY <1>2 DEF Finalize, tables, MirrorOK
<1>3. CASE ~Settled(p) /\ q # p
  BY <1>1, <1>3, FinalizeOpen, MirrorFrame
<1>4. CASE ~Settled(p) /\ q = p
  <2>1. /\ ticket'[p].settlement = outcome
        /\ CanTransitionSettlement(ticket[p].settlement, outcome)
        /\ exec'[p].intent = IF exec[p].intent = "NONE" THEN "NONE" ELSE IntentAfter(outcome)
    BY <1>4, FinalizeOpen
  <2> SUFFICES ASSUME exec[p].submit
               PROVE  /\ ticket'[p].settlement # "NOT_STARTED"
                      /\ exec'[p].intent = MirrorOf(ticket'[p].settlement)
    BY <1>1, <1>4 DEF MirrorOK
  <2>2. ticket[p].settlement # "NOT_STARTED" /\ exec[p].intent # "NONE"
    BY <1>4 DEF MirrorOK, MirrorOf
  <2>5. ticket[p].settlement \in Settlements
    BY DEF TypeOK, Ticket
  <2>3. outcome # "NOT_STARTED"
    <3> DEFINE s == ticket[p].settlement
    <3>1. s \in Settlements /\ s # "NOT_STARTED" /\ CanTransitionSettlement(s, outcome)
      BY <2>1, <2>2, <2>5
    <3> HIDE DEF s
    <3> QED
      BY <3>1 DEF CanTransitionSettlement, SettlementTransitions, Settlements
  <2>4. IntentAfter(outcome) = MirrorOf(outcome)
    BY <2>3 DEF IntentAfter, MirrorOf, Settlements
  <2> QED
    BY <2>1, <2>2, <2>3, <2>4
<1> QED
  BY <1>2, <1>3, <1>4

\* A request, an approval or a withdrawal touches the approval, the method, the
\* review flag and the posting of its payout.
LEMMA DecideEffect ==
  ASSUME TypeOK, NEW p \in Payouts, OutcomeOK(p), DecideNext(p), NEW q \in Payouts
  PROVE  /\ ticket'[q].settlement = ticket[q].settlement
         /\ ticket'[q].starter = ticket[q].starter
         /\ ticket'[q].resolver = ticket[q].resolver
         /\ q # p => ticket'[q] = ticket[q]
<1>1. ticket \in [Payouts -> Ticket] /\ ticket[p] \in Ticket
  BY DEF TypeOK
<1> DEFINE Keeps(row) == /\ row.settlement = ticket[p].settlement
                         /\ row.starter = ticket[p].starter
                         /\ row.resolver = ticket[p].resolver
<1>2. ASSUME NEW row, ticket' = [ticket EXCEPT ![p] = row], Keeps(row)
      PROVE  /\ ticket'[q].settlement = ticket[q].settlement
             /\ ticket'[q].starter = ticket[q].starter
             /\ ticket'[q].resolver = ticket[q].resolver
             /\ q # p => ticket'[q] = ticket[q]
  BY <1>1, <1>2
<1>3. CASE Request(p)
  <2>1. Keeps([ticket[p] EXCEPT !.approval = "PENDING"])
    BY <1>1 DEF Ticket
  <2>2. ticket' = [ticket EXCEPT ![p] = [ticket[p] EXCEPT !.approval = "PENDING"]]
    BY <1>1, <1>3 DEF Request
  <2> QED
    BY <1>2, <2>1, <2>2
<1>4. ASSUME NEW a \in Actors, NEW m \in Methods, Approve(a, p, m)
      PROVE  /\ ticket'[q].settlement = ticket[q].settlement
             /\ ticket'[q].starter = ticket[q].starter
             /\ ticket'[q].resolver = ticket[q].resolver
             /\ q # p => ticket'[q] = ticket[q]
  <2>1. Keeps([ticket[p] EXCEPT !.approval = "APPROVED", !.method = m,
                                !.review = HeldForReview(a, p)])
    BY <1>1 DEF Ticket
  <2>2. ticket' = [ticket EXCEPT ![p] =
           [ticket[p] EXCEPT !.approval = "APPROVED", !.method = m,
                             !.review = HeldForReview(a, p)]]
    BY <1>1, <1>4 DEF Approve
  <2> QED
    BY <1>2, <2>1, <2>2
<1>5. ASSUME NEW d \in {"REJECTED", "CANCELLED"}, Withdraw(p, d)
      PROVE  /\ ticket'[q].settlement = ticket[q].settlement
             /\ ticket'[q].starter = ticket[q].starter
             /\ ticket'[q].resolver = ticket[q].resolver
             /\ q # p => ticket'[q] = ticket[q]
  <2>1. Keeps([ticket[p] EXCEPT !.approval = d, !.posted = TRUE])
    BY <1>1 DEF Ticket
  <2>2. ticket' = [ticket EXCEPT ![p] = [ticket[p] EXCEPT !.approval = d, !.posted = TRUE]]
    BY <1>1, <1>5 DEF Withdraw
  <2> QED
    BY <1>2, <2>1, <2>2
<1>6. ~\E d \in LegacyDecisions, r \in BOOLEAN : ResolveLegacy(p, d, r)
  BY DEF OutcomeOK, ResolveLegacy
<1> QED
  BY <1>3, <1>4, <1>5, <1>6 DEF DecideNext, Reject, Cancel

LEMMA MirrorStep ==
  ASSUME TypeOK, ImportedInv, OutcomeInv, MirrorInv, [Next]_vars
  PROVE  MirrorInv'
<1> SUFFICES ASSUME NEW q \in NewPayouts PROVE MirrorOK(q)'
  BY DEF MirrorInv
<1> q \in Payouts
  BY DEF NewPayouts
<1>1. /\ exec \in [Payouts -> Execution] /\ exec[q] \in Execution
      /\ ticket \in [Payouts -> Ticket] /\ ticket[q] \in Ticket
      /\ MirrorOK(q)
  BY DEF TypeOK, MirrorInv
<1>2. exec[q].submit => exec[q].intent # "NONE" /\ ticket[q].settlement # "NOT_STARTED"
  BY <1>1 DEF MirrorOK, MirrorOf
<1>3. ASSUME ticket'[q].settlement = ticket[q].settlement, exec'[q] = exec[q]
      PROVE  MirrorOK(q)'
  BY <1>1, <1>3, MirrorFrame
<1>4. CASE UNCHANGED vars
  BY <1>3, <1>4 DEF vars, tables
<1>5. ASSUME NEW p \in NewPayouts, DecideNext(p)
      PROVE  MirrorOK(q)'
  <2> p \in Payouts /\ OutcomeOK(p)
    BY DEF OutcomeInv, NewPayouts
  <2>1. ticket'[q].settlement = ticket[q].settlement
    BY <1>1, <1>5, DecideEffect
  <2>2. CASE exec' = exec
    BY <1>3, <2>1, <2>2
  <2>3. CASE exec[p].intent = "NONE" /\ exec' = [exec EXCEPT ![p].intent = "READY"]
    <3>1. CASE q = p
      BY <1>1, <1>2, <2>1, <2>3, <3>1, MirrorFrame DEF Execution
    <3>2. CASE q # p
      BY <1>1, <1>3, <2>1, <2>3, <3>2
    <3> QED
      BY <3>1, <3>2
  <2> QED
    BY <1>5, <2>2, <2>3
    DEF DecideNext, Request, Approve, Reject, Cancel, Withdraw, OutcomeOK, ResolveLegacy
<1>10. ASSUME NEW p \in Payouts, p \notin NewPayouts, DecideNext(p)
       PROVE  MirrorOK(q)'
  <2>1. q # p
    BY <1>10
  <2>2. ticket'[q] = ticket[q]
    BY <1>1, <1>10, <2>1
    DEF DecideNext, Request, Approve, Reject, Cancel, Withdraw, ResolveLegacy
  <2>3. exec'[q] = exec[q]
    BY <1>1, <1>10, <2>1
    DEF DecideNext, Request, Approve, Reject, Cancel, Withdraw, ResolveLegacy
  <2> QED
    BY <1>3, <2>2, <2>3
<1>6. ASSUME NEW p \in Payouts, ExecuteNext(p)
      PROVE  MirrorOK(q)'
  <2>1. CASE ClaimExecution(p)
    <3>1. CASE q = p
      <4>1. exec'[p].intent = "REQUESTED" /\ ticket'[p].settlement = "PROCESSING"
        BY <1>1, <2>1, <3>1 DEF ClaimExecution, Execution, Ticket
      <4> QED
        BY <3>1, <4>1 DEF MirrorOK, MirrorOf
    <3>2. CASE q # p
      BY <1>1, <1>3, <2>1, <3>2 DEF ClaimExecution
    <3> QED
      BY <3>1, <3>2
  <2>2. CASE FinalizeSubmit(p) \/ FinalizeUncertain(p)
    <3>1. executor[p].pc = "ANSWERED" => executor[p].answer \in Settlements
      <4>1. executor[p] \in ExecutorStates
        BY DEF TypeOK
      <4> QED
        BY <4>1 DEF ExecutorStates
    <3> QED
      BY <1>1, <2>2, <3>1, FinalizeMirrors DEF FinalizeSubmit, FinalizeUncertain, Settlements
  <2>3. CASE ScheduleFirst(p)
    BY <1>3, <2>3, ScheduleEffect DEF ScheduleFirst
  <2> QED
    BY <1>3, <1>6, <2>1, <2>2, <2>3
    DEF ExecuteNext, SendSubmit, ReceiveAnswer, FailSubmit, ExecutorStops, tables
<1>7. ASSUME NEW w \in Reconcilers, ReconcileNext(w)
      PROVE  MirrorOK(q)'
  <2>1. reconciler[w] \in ReconcilerStates
    BY DEF TypeOK
  <2>2. ASSUME NEW p \in Payouts, NEW n \in Sequences, NEW b, Prepare(w, p, n, b)
        PROVE  MirrorOK(q)'
    <3>1. exec' = [exec EXCEPT ![p] = [exec[p] EXCEPT !.rows = exec[p].rows \union {n}]]
      BY <1>1, <2>2 DEF Prepare
    <3>2. exec'[q].intent = exec[q].intent /\ exec'[q].submit = exec[q].submit
      BY <1>1, <3>1 DEF Execution
    <3> QED
      BY <1>1, <2>2, <3>2, MirrorFrame DEF Prepare
  <2>3. CASE FinalizeReconcile(w)
    <3>1. reconciler[w].payout \in Payouts /\ reconciler[w].answer \in Settlements
      BY <2>1, <2>3 DEF FinalizeReconcile, ReconcilerStates
    <3> QED
      BY <1>1, <2>3, <3>1, FinalizeMirrors DEF FinalizeReconcile
  <2>4. CASE ScheduleNext(w)
    <3>1. PICK p \in Payouts : p = reconciler[w].payout
      BY <2>1, <2>4 DEF ScheduleNext, ReconcilerStates
    <3>2. ScheduleReconciliation(p, reconciler[w].seq + 1)
      BY <2>4, <3>1 DEF ScheduleNext
    <3> QED
      BY <1>3, <2>4, <3>2, ScheduleEffect DEF ScheduleNext
  <2>5. 1 \in Sequences
    BY LimitsAssumption DEF Sequences
  <2> QED
    BY <1>3, <1>7, <2>2, <2>3, <2>4, <2>5
    DEF ReconcileNext, RequestReconciliation, DeliverJob, QueryPayos, ReconcilerStops, tables
<1>8. ASSUME NEW a \in Actors, DeskNext(a)
      PROVE  MirrorOK(q)'
  <2>1. desk[a].pc = "READ" => desk[a].payout \in Payouts
    <3>1. desk[a] \in {Idle} \union [pc: {"READ"}, payout: Payouts, op: DeskOperations]
      BY DEF TypeOK
    <3> QED
      BY <3>1
  <2>2. CASE DeskStart(a)
    <3>1. PICK p \in Payouts : p = desk[a].payout
      BY <2>1, <2>2 DEF DeskStart
    <3>2. /\ ticket[p].settlement = "NOT_STARTED" /\ exec' = exec
          /\ q # p => ticket'[q] = ticket[q]
      BY <1>1, <2>2, <3>1 DEF DeskStart
    <3>3. q = p => ~exec[q].submit
      BY <1>2, <3>2
    <3> QED
      BY <1>1, <3>2, <3>3, MirrorFrame
  <2>3. CASE DeskFinalize(a)
    <3>1. DeskOutcome(desk[a].op) \in Settlements
      BY DEF DeskOutcome, Settlements
    <3> QED
      BY <1>1, <2>1, <2>3, <3>1, FinalizeMirrors DEF DeskFinalize
  <2> QED
    BY <1>3, <1>8, <2>2, <2>3 DEF DeskNext, DeskRead, DeskStops, tables
<1>9. ASSUME \/ SweepNext
             \/ \E p \in Payouts : OutsideNext(p)
             \/ \E p \in Payouts, n \in Sequences : DropMessage(p, n)
      PROVE  MirrorOK(q)'
  <2>1. exec' = exec
    BY <1>9 DEF SweepNext, SweepRead, SweepFlag, SweepSchedule, SweepStops, OutsideNext,
           PayosAccepts, RequestLost, PayosMoves, TransferByHand, DropMessage, tables
  <2>2. ticket'[q].settlement = ticket[q].settlement
    BY <1>1, <1>9, OthersTickets DEF Ticket
  <2> QED
    BY <1>3, <2>1, <2>2
<1> QED
  BY <1>4, <1>5, <1>6, <1>7, <1>8, <1>9, <1>10 DEF Next

\* The intent of a payout requested under this version tells its settlement, whatever
\* is imported beside it: executor, jobs, operators and approvals on stale pages leave
\* no submitted payout with an older intent.
THEOREM NewIntentsMirror ==
  Spec => [](\A p \in NewPayouts :
               exec[p].submit => exec[p].intent = MirrorOf(ticket[p].settlement))
<1>1. Init => MirrorInv
  <2> SUFFICES ASSUME Init, NEW p \in NewPayouts PROVE MirrorOK(p)
    BY DEF MirrorInv
  <2>1. ~exec[p].submit
    <3>1. \E import : exec = [r \in Payouts |->
                              [NoExecution EXCEPT !.submit = r \in Legacy /\ import[r].submit]]
      BY DEF Init
    <3>2. p \in Payouts /\ p \notin Legacy
      BY DEF NewPayouts
    <3> QED
      BY <3>1, <3>2 DEF NoExecution
  <2> QED
    BY <2>1 DEF MirrorOK
<1>2. TypeOK /\ ImportedInv /\ OutcomeInv /\ MirrorInv /\ [Next]_vars => MirrorInv'
  BY MirrorStep
<1>3. MirrorInv => \A p \in NewPayouts :
                     exec[p].submit => exec[p].intent = MirrorOf(ticket[p].settlement)
  BY DEF MirrorInv, MirrorOK
<1> QED
  BY <1>1, <1>2, <1>3, TypeCorrect, ImportedInvariant, OutcomesInvariant, PTL DEF Spec

\* IntentMirrorsSettlement, when no payout was imported: an imported one was submitted
\* without an intent.
THEOREM IntentsMirrorSettlements ==
  ASSUME Legacy = {}
  PROVE  Spec => []IntentMirrorsSettlement
<1>1. (\A p \in NewPayouts :
         exec[p].submit => exec[p].intent = MirrorOf(ticket[p].settlement))
      => IntentMirrorsSettlement
  BY DEF NewPayouts, MirrorOf, IntentMirrorsSettlement
<1> QED
  BY <1>1, NewIntentsMirror, PTL
=============================================================================
