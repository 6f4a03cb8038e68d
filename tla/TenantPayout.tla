---------------------------- MODULE TenantPayout ----------------------------
(***************************************************************************)
(* The life of a tenant payout: src/modules/tenants/payout.ts, manual.ts,  *)
(* recovery.ts, the QStash job and the daily safety sweep, over one source *)
(* account (a member wallet or a tenant treasury).                         *)
(*                                                                         *)
(* One action is one serializable transaction or one step between two      *)
(* awaits.  Whatever a process read before an await is kept in its own     *)
(* record (executor, reconciler, desk, sweep) and may be stale when used.  *)
(* PayOS, QStash, the bank and the operators are the environment.          *)
(***************************************************************************)
EXTENDS Integers, FiniteSets, FiniteSetsExt

CONSTANTS
  Payouts,            \* payout identifiers
  Legacy,             \* those imported by the hierarchical-finance migration
  Actors,             \* people with the OWNER or TENANT_MASTER role
  Owners,             \* the active owners among them
  Requester,          \* who asked for a payout
  Platform,           \* payouts of the MASTER tenant
  Methods,            \* payout methods the approvers choose from
  Amount,             \* amountVnd of a payout
  InitialBalance,     \* the source account before any payout
  DailyLimit,         \* DAILY_TENANT_PAYOUT_LIMIT_VND
  SelfApprovalLimit,  \* PLATFORM_SELF_APPROVAL_LIMIT_VND
  NoSendSelfLimit,    \* MANUAL_NO_SEND_SELF_CONFIRM_LIMIT_VND
  MaxSequence,        \* financeReconciliationDelaysSeconds().length
  Reconcilers,        \* processes that can run reconcileTenantPayout
  StaleApprovals,     \* whether an approval form is submitted for a payout
                      \* somebody else has approved in the meantime
  NoActor             \* a NULL actor column

ASSUME PayoutsAssumption ==
  /\ IsFiniteSet(Payouts)
  /\ Legacy \subseteq Payouts
  /\ Platform \subseteq Payouts

ASSUME ActorsAssumption ==
  /\ IsFiniteSet(Actors)
  /\ Owners \subseteq Actors
  /\ NoActor \notin Actors
  /\ Requester \in [Payouts -> Actors \union {NoActor}]

ASSUME MethodsAssumption == Methods \subseteq {"PAYOS", "MANUAL_BANK_TRANSFER"}

ASSUME LimitsAssumption ==
  /\ Amount \in [Payouts -> Nat \ {0}]
  /\ InitialBalance \in Nat
  /\ DailyLimit \in Nat
  /\ SelfApprovalLimit \in Nat
  /\ NoSendSelfLimit \in Nat
  /\ MaxSequence \in 1..8

ASSUME StaleApprovalsAssumption == StaleApprovals \in BOOLEAN

VARIABLES
  ticket,      \* the TenantPayout rows
  exec,        \* their TenantPayoutExecutionIntent and TenantPayoutAttempt rows
  journal,     \* the ledger entries posted for a payout, by idempotency key
  account,     \* the projection of the source account
  executor,    \* the inline executor of a payout, between its awaits
  reconciler,  \* the running calls of reconcileTenantPayout
  queue,       \* payout-reconcile messages held by QStash
  desk,        \* an operator's manual action between its read and its write
  sweep,       \* the safety sweep, between its read and its write
  payos,       \* what PayOS knows of a payout
  wire,        \* the batch.create requests: how many sent, one under way
  bank         \* transfers an operator made by hand

tables == <<ticket, exec, journal, account>>
outside == <<payos, wire, bank>>
vars == <<tables, executor, reconciler, queue, desk, sweep, outside>>

-----------------------------------------------------------------------------
(* Status values and the rows of the tables.                               *)

Approvals == {"NONE", "PENDING", "APPROVED", "REJECTED", "CANCELLED"}
Settlements == {"NOT_STARTED", "PROCESSING", "UNKNOWN", "PAID", "FAILED"}
Terminal == {"PAID", "FAILED"}
IntentStatuses == {"NONE", "READY", "REQUESTED", "CONFIRMED", "FAILED", "UNKNOWN"}
PayosStates == {"ABSENT", "QUEUED", "PROCESSING", "SUCCEEDED", "FAILED"}
Sequences == 1..MaxSequence

Ticket ==
  [approval: Approvals,
   settlement: Settlements,
   method: {"NONE", "PAYOS", "MANUAL_BANK_TRANSFER"},
   review: BOOLEAN,                        \* requiresManualReview
   starter: Actors \union {NoActor},       \* manualStartedByUserId
   resolver: Actors \union {NoActor},      \* manualResolvedByUserId
   legacy: {"NOT_REQUIRED", "PENDING", "MANUAL_REVIEW", "RESOLVED"},
   posted: BOOLEAN]                        \* terminalJournalId is not NULL

Execution ==
  [intent: IntentStatuses, submit: BOOLEAN, rows: SUBSET Sequences]

\* The CHECK constraints of the projections keep the balances from negative.
Account == [available: Nat, reserved: Nat, paid: Nat]

NoTicket ==
  [approval |-> "NONE", settlement |-> "NOT_STARTED", method |-> "NONE",
   review |-> FALSE, starter |-> NoActor, resolver |-> NoActor,
   legacy |-> "NOT_REQUIRED", posted |-> FALSE]

NoExecution == [intent |-> "NONE", submit |-> FALSE, rows |-> {}]

Idle == [pc |-> "IDLE"]
DeskOperations ==
  {"START", "COMPLETE", "MARK_UNKNOWN",
   "CONFIRMED_PAID", "CONFIRMED_NOT_SENT", "REMAIN_UNKNOWN"}

SumAmounts(S) == MapThenSumSet(LAMBDA p : Amount[p], S)

\* Money that the posted journals leave in the reserved account, and paid out.
Held == {p \in Payouts : "reserve" \in journal[p]
                         /\ journal[p] \intersect {"paid", "release"} = {}}
Spent == {p \in Payouts : "paid" \in journal[p]}

Books ==
  [available |-> InitialBalance - SumAmounts(Held) - SumAmounts(Spent),
   reserved |-> SumAmounts(Held),
   paid |-> SumAmounts(Spent)]

-----------------------------------------------------------------------------
(* The migration's image of the payouts of the previous version, paired    *)
(* with what really happened to their money: waiting, cancelled, paid with *)
(* a time, failed, paid without a time (its journal posted or not), and    *)
(* those whose outcome is not known.                                       *)

ImportedRow(approval, settlement, legacy, review) ==
  [NoTicket EXCEPT !.approval = approval, !.settlement = settlement,
                   !.legacy = legacy, !.review = review]

\* Only PayOS knows what became of them.
Undecided(settlement) ==
  {[row |-> ImportedRow("PENDING", settlement, "MANUAL_REVIEW", TRUE),
    submit |-> TRUE, entries |-> {"reserve"}, payos |-> s] : s \in PayosStates}

ImportedPayouts ==
  {[row |-> ImportedRow("PENDING", "NOT_STARTED", "PENDING", FALSE),
    submit |-> FALSE, entries |-> {"reserve"}, payos |-> "ABSENT"],
   [row |-> ImportedRow("CANCELLED", "NOT_STARTED", "PENDING", FALSE),
    submit |-> FALSE, entries |-> {"reserve", "release"}, payos |-> "ABSENT"],
   [row |-> ImportedRow("APPROVED", "PAID", "RESOLVED", FALSE),
    submit |-> TRUE, entries |-> {"reserve", "paid"}, payos |-> "SUCCEEDED"],
   [row |-> ImportedRow("PENDING", "UNKNOWN", "MANUAL_REVIEW", TRUE),
    submit |-> TRUE, entries |-> {"reserve", "release"}, payos |-> "FAILED"],
   [row |-> ImportedRow("PENDING", "NOT_STARTED", "MANUAL_REVIEW", TRUE),
    submit |-> TRUE, entries |-> {"reserve", "paid"}, payos |-> "SUCCEEDED"]}
  \union Undecided("UNKNOWN") \union Undecided("NOT_STARTED")

Init ==
  /\ \E import \in [Legacy -> ImportedPayouts] :
       /\ ticket = [p \in Payouts |->
                      IF p \in Legacy THEN import[p].row ELSE NoTicket]
       /\ exec = [p \in Payouts |->
                    [NoExecution EXCEPT !.submit = p \in Legacy /\ import[p].submit]]
       /\ journal = [p \in Payouts |->
                       IF p \in Legacy THEN import[p].entries ELSE {}]
       /\ payos = [p \in Payouts |->
                     IF p \in Legacy THEN import[p].payos ELSE "ABSENT"]
  /\ account = Books
  /\ account \in Account
  /\ executor = [p \in Payouts |-> Idle]
  /\ reconciler = [w \in Reconcilers |-> Idle]
  /\ queue = {}
  /\ desk = [a \in Actors |-> Idle]
  /\ sweep = Idle
  /\ wire = [p \in Payouts |-> [sent |-> 0, inFlight |-> FALSE]]
  /\ bank = [p \in Payouts |-> 0]

-----------------------------------------------------------------------------
(* payout-state.ts and payout-policy.ts.                                   *)

ApprovalTransitions ==
  [NONE |-> {}, PENDING |-> {"APPROVED", "REJECTED", "CANCELLED"},
   APPROVED |-> {}, REJECTED |-> {}, CANCELLED |-> {}]

SettlementTransitions ==
  [NOT_STARTED |-> {"PROCESSING"},
   PROCESSING |-> {"PAID", "FAILED", "UNKNOWN"},
   UNKNOWN |-> {"PROCESSING", "PAID", "FAILED"},
   PAID |-> {}, FAILED |-> {}]

CanTransitionApproval(from, to) == from = to \/ to \in ApprovalTransitions[from]
CanTransitionSettlement(from, to) == from = to \/ to \in SettlementTransitions[from]

\* Whom the role checks let approve, reject, reconcile and transfer by hand.
Operators(p) == IF p \in Platform THEN Owners ELSE Actors

Settled(p) == ticket[p].settlement \in Terminal

-----------------------------------------------------------------------------
(* Requesting, approving, rejecting, cancelling.                           *)

CountedOnceApproved ==
  {p \in Payouts \ Legacy : /\ ticket[p].approval = "APPROVED"
                            /\ ticket[p].settlement # "FAILED"}

\* The payouts of today that the daily limit counts; imported ones are older.
CountedToday ==
  {p \in Payouts \ Legacy : /\ ticket[p].approval \notin {"NONE", "REJECTED", "CANCELLED"}
                            /\ ticket[p].settlement # "FAILED"}

Request(p) ==
  /\ ticket[p].approval = "NONE"
  /\ SumAmounts(CountedToday) + Amount[p] <= DailyLimit
  /\ account.available >= Amount[p]
  /\ ticket' = [ticket EXCEPT ![p].approval = "PENDING"]
  /\ journal' = [journal EXCEPT ![p] = @ \union {"reserve"}]
  /\ account' = [account EXCEPT !.available = @ - Amount[p],
                                !.reserved = @ + Amount[p]]
  /\ UNCHANGED <<exec, executor, reconciler, queue, desk, sweep, outside>>

AccountReleasingNothing(outcome, amount) ==
  IF outcome = "PAID"
  THEN [account EXCEPT !.reserved = @ - amount, !.paid = @ + amount]
  ELSE [account EXCEPT !.reserved = @ - amount]

AccountPayingFromAvailable(outcome, amount) ==
  IF outcome = "PAID"
  THEN [account EXCEPT !.available = @ - amount, !.paid = @ + amount]
  ELSE [account EXCEPT !.reserved = @ - amount, !.available = @ + amount]

AccountAfter(outcome, amount) ==
  IF outcome = "PAID"
  THEN [account EXCEPT !.reserved = @ - amount, !.paid = @ + amount]
  ELSE [account EXCEPT !.reserved = @ - amount, !.available = @ + amount]

\* applyTerminalOutcome: post the entry of a terminal outcome once, and move
\* the projection with it.  The table's CHECKs abort a negative balance.
PostOutcome(p, outcome) ==
  LET entry == IF outcome = "PAID" THEN "paid" ELSE "release"
  IN  IF outcome \notin Terminal \/ entry \in journal[p]
      THEN UNCHANGED <<journal, account>>
      ELSE /\ account.reserved >= Amount[p]
           /\ journal' = [journal EXCEPT ![p] = @ \union {entry}]
           /\ account' = AccountAfter(outcome, Amount[p])

\* A self-approval of a platform payout needs that no other owner is active,
\* and is held for review above the limit.
SelfApproval(a, p) == p \in Platform /\ Requester[p] = a
HeldForReview(a, p) == SelfApproval(a, p) /\ Amount[p] > SelfApprovalLimit

Approve(a, p, method) ==
  LET held == HeldForReview(a, p)
      needsIntent == method = "PAYOS" /\ ~held
  IN  /\ a \in Operators(p)
      /\ ticket[p].legacy = "NOT_REQUIRED"
      /\ CanTransitionApproval(ticket[p].approval, "APPROVED")
      /\ ticket[p].approval = "APPROVED" => StaleApprovals
      /\ SelfApproval(a, p) => Cardinality(Owners) <= 1
      /\ needsIntent => exec[p].intent = "NONE"      \* unique tenantPayoutId
      /\ ticket' = [ticket EXCEPT ![p].approval = "APPROVED",
                                  ![p].method = method,
                                  ![p].review = held]
      /\ exec' = IF needsIntent THEN [exec EXCEPT ![p].intent = "READY"] ELSE exec
      /\ UNCHANGED <<journal, account, executor, reconciler, queue, desk, sweep, outside>>

WithdrawApproved(p, approval) ==
  /\ ticket[p].legacy = "NOT_REQUIRED"
  /\ ticket[p].approval \in {"PENDING", "APPROVED"}
  /\ PostOutcome(p, "FAILED")
  /\ ticket' = [ticket EXCEPT ![p].approval = approval, ![p].posted = TRUE]
  /\ UNCHANGED <<exec, executor, reconciler, queue, desk, sweep, outside>>

\* rejectPayout and cancelPayout: give the reservation back.
Withdraw(p, approval) ==
  /\ ticket[p].legacy = "NOT_REQUIRED"
  /\ ticket[p].approval = "PENDING"
  /\ PostOutcome(p, "FAILED")
  /\ ticket' = [ticket EXCEPT ![p].approval = approval, ![p].posted = TRUE]
  /\ UNCHANGED <<exec, executor, reconciler, queue, desk, sweep, outside>>

Reject(p) == Withdraw(p, "REJECTED")
Cancel(p) == Withdraw(p, "CANCELLED")

-----------------------------------------------------------------------------
(* finalizeTenantPayoutSettlement: the one way to a settlement outcome.    *)

IntentLeftOpen(outcome) ==
  CASE outcome = "PAID" -> "CONFIRMED"
    [] outcome \in {"FAILED", "UNKNOWN"} -> "UNKNOWN"
    [] OTHER -> "REQUESTED"

IntentAfter(outcome) ==
  CASE outcome = "PAID" -> "CONFIRMED"
    [] outcome = "FAILED" -> "FAILED"
    [] outcome = "UNKNOWN" -> "UNKNOWN"
    [] OTHER -> "REQUESTED"

\* A settled payout is returned as it is; an illegal transition throws, and
\* the formula is then false.
Finalize(p, outcome, actor) ==
  IF Settled(p) THEN UNCHANGED tables
  ELSE /\ CanTransitionSettlement(ticket[p].settlement, outcome)
       /\ PostOutcome(p, outcome)
       /\ ticket' = [ticket EXCEPT
                       ![p].settlement = outcome,
                       ![p].resolver = IF actor = NoActor THEN @ ELSE actor,
                       ![p].posted = @ \/ outcome \in Terminal]
       /\ exec' = [exec EXCEPT ![p].intent =
                     IF @ = "NONE" THEN @ ELSE IntentAfter(outcome)]

FinalizeThrows(p, outcome) ==
  ~Settled(p) /\ ~CanTransitionSettlement(ticket[p].settlement, outcome)

SchedulePastTheEnd(p, n) ==
  \/ /\ n > MaxSequence + 1
     /\ ticket' = [ticket EXCEPT ![p].review = TRUE]
     /\ queue' = queue
  \/ /\ n <= MaxSequence + 1
     /\ exec[p].intent # "NONE"
     /\ ticket' = ticket /\ queue' = queue \union {<<p, n>>}

\* schedulePayoutReconciliation: past the last delay, with recovery switched
\* off or the QStash budget used up the payout goes to manual review; a failed
\* publication changes nothing here; a payout without intent makes it throw.
ScheduleReconciliation(p, n) ==
  \/ /\ n > MaxSequence
     /\ ticket' = [ticket EXCEPT ![p].review = TRUE]
     /\ queue' = queue
  \/ /\ n <= MaxSequence
     /\ exec[p].intent # "NONE"
     /\ \/ ticket' = [ticket EXCEPT ![p].review = TRUE] /\ queue' = queue
        \/ ticket' = ticket /\ queue' = queue \union {<<p, n>>}
        \/ ticket' = ticket /\ queue' = queue

-----------------------------------------------------------------------------
(* executeApprovedPayosPayout, inline after the approval or resumed later. *)

ClaimAgain(p) ==
  /\ ticket[p].approval = "APPROVED"
  /\ ticket[p].method = "PAYOS"
  /\ ~ticket[p].review
  /\ ~Settled(p)
  /\ exec[p].intent \in {"READY", "UNKNOWN"}
  /\ exec' = [exec EXCEPT ![p].intent = "REQUESTED", ![p].submit = TRUE]
  /\ ticket' = [ticket EXCEPT ![p].settlement = "PROCESSING"]
  /\ executor' = [executor EXCEPT ![p] = [pc |-> "CLAIMED"]]
  /\ UNCHANGED <<journal, account, reconciler, queue, desk, sweep, outside>>

\* The claim transaction: only a READY intent is ever submitted.
ClaimExecution(p) ==
  /\ ticket[p].approval = "APPROVED"
  /\ ticket[p].method = "PAYOS"
  /\ "reserve" \in journal[p] /\ p \notin Legacy   \* reservationJournalId
  /\ ~ticket[p].review
  /\ ~Settled(p)
  /\ exec[p].intent = "READY"
  /\ exec' = [exec EXCEPT ![p].intent = "REQUESTED", ![p].submit = TRUE]
  /\ ticket' = [ticket EXCEPT ![p].settlement = "PROCESSING"]
  /\ executor' = [executor EXCEPT ![p] = [pc |-> "CLAIMED"]]
  /\ UNCHANGED <<journal, account, reconciler, queue, desk, sweep, outside>>

SendSubmit(p) ==
  /\ executor[p].pc = "CLAIMED"
  /\ executor' = [executor EXCEPT ![p] = [pc |-> "CALLING"]]
  /\ wire' = [wire EXCEPT ![p] = [sent |-> @.sent + 1, inFlight |-> TRUE]]
  /\ UNCHANGED <<tables, reconciler, queue, desk, sweep, payos, bank>>

ObservationMissingAsFailed(state) ==
  CASE state = "SUCCEEDED" -> "PAID"
    [] state = "PROCESSING" -> "PROCESSING"
    [] state = "QUEUED" -> "UNKNOWN"
    [] OTHER -> "FAILED"

\* mapPayOSState, with NOT_STARTED read as UNKNOWN as both callers do.
Observation(state) ==
  CASE state = "SUCCEEDED" -> "PAID"
    [] state = "FAILED" -> "FAILED"
    [] state = "PROCESSING" -> "PROCESSING"
    [] OTHER -> "UNKNOWN"

ReceiveAnswer(p) ==
  /\ executor[p].pc = "CALLING"
  /\ payos[p] # "ABSENT"
  /\ executor' = [executor EXCEPT
                    ![p] = [pc |-> "ANSWERED", answer |-> Observation(payos[p])]]
  /\ UNCHANGED <<tables, reconciler, queue, desk, sweep, outside>>

\* A timeout, a refusal, a lost connection, or a failed transaction of the
\* finalization: whatever is thrown inside the try block.
FailSubmit(p) ==
  /\ executor[p].pc \in {"CALLING", "ANSWERED"}
  /\ executor' = [executor EXCEPT ![p] = [pc |-> "CAUGHT"]]
  /\ UNCHANGED <<tables, reconciler, queue, desk, sweep, outside>>

FinalizeSubmit(p) ==
  /\ executor[p].pc = "ANSWERED"
  /\ Finalize(p, executor[p].answer, NoActor)
  /\ executor' = [executor EXCEPT ![p] =
                    IF ticket'[p].settlement \in {"PROCESSING", "UNKNOWN"}
                    THEN [pc |-> "SCHEDULE"] ELSE Idle]
  /\ UNCHANGED <<reconciler, queue, desk, sweep, outside>>

FinalizeUncertain(p) ==
  /\ executor[p].pc = "CAUGHT"
  /\ Finalize(p, "UNKNOWN", NoActor)
  /\ executor' = [executor EXCEPT ![p] = [pc |-> "SCHEDULE"]]
  /\ UNCHANGED <<reconciler, queue, desk, sweep, outside>>

ScheduleFirst(p) ==
  /\ executor[p].pc = "SCHEDULE"
  /\ ScheduleReconciliation(p, 1)
  /\ executor' = [executor EXCEPT ![p] = Idle]
  /\ UNCHANGED <<exec, journal, account, reconciler, desk, sweep, outside>>

\* The process dies, or throws outside the try block: the PayOS client cannot
\* be built, the account number cannot be decrypted, a write fails.
ExecutorStops(p) ==
  /\ executor[p] # Idle
  /\ executor' = [executor EXCEPT ![p] = Idle]
  /\ UNCHANGED <<tables, reconciler, queue, desk, sweep, outside>>

-----------------------------------------------------------------------------
(* reconcileTenantPayout, called by an operator or by the QStash job.      *)

\* The prepare transaction: the RECONCILE row of a sequence is upserted.
Prepare(w, p, n, byJob) ==
  /\ reconciler[w] = Idle
  /\ exec[p].intent # "NONE"
  /\ ~Settled(p)
  /\ exec' = [exec EXCEPT ![p].rows = @ \union {n}]
  /\ reconciler' = [reconciler EXCEPT
                      ![w] = [pc |-> "QUERY", payout |-> p, seq |-> n, job |-> byJob]]
  /\ UNCHANGED <<ticket, journal, account, executor, desk, sweep, outside>>

RequestReconciliation(w, p) == Prepare(w, p, 1, FALSE) /\ queue' = queue

\* The job: a delivery for a payout with its SUBMIT attempt.  The message may
\* be delivered again until it is dropped; a settled payout ignores it.
DeliverJob(w, p, n) ==
  /\ <<p, n>> \in queue
  /\ exec[p].submit
  /\ Prepare(w, p, n, TRUE)
  /\ queue' = queue

\* A message goes at an attempt to deliver it, which takes a free process here.
DropMessage(p, n) ==
  /\ <<p, n>> \in queue
  /\ \E w \in Reconcilers : reconciler[w] = Idle
  /\ queue' = queue \ {<<p, n>>}
  /\ UNCHANGED <<tables, executor, reconciler, desk, sweep, outside>>

\* payouts.get or payouts.list; the list may not show a recent payout yet.
QueryPayos(w) ==
  /\ reconciler[w].pc = "QUERY"
  /\ \E answer \in {Observation(payos[reconciler[w].payout]), "UNKNOWN"} :
       reconciler' = [reconciler EXCEPT
                        ![w] = [pc |-> "FINALIZE", payout |-> @.payout, seq |-> @.seq,
                                job |-> @.job, answer |-> answer]]
  /\ UNCHANGED <<tables, executor, queue, desk, sweep, outside>>

FinalizeReconcile(w) ==
  LET task == reconciler[w]
  IN  /\ task.pc = "FINALIZE"
      /\ Finalize(task.payout, task.answer, NoActor)
      /\ reconciler' = [reconciler EXCEPT ![w] =
           IF task.job /\ ticket'[task.payout].settlement \notin Terminal
           THEN [pc |-> "SCHEDULE", payout |-> task.payout, seq |-> task.seq, job |-> TRUE]
           ELSE Idle]
      /\ UNCHANGED <<executor, queue, desk, sweep, outside>>

ScheduleNext(w) ==
  /\ reconciler[w].pc = "SCHEDULE"
  /\ ScheduleReconciliation(reconciler[w].payout, reconciler[w].seq + 1)
  /\ reconciler' = [reconciler EXCEPT ![w] = Idle]
  /\ UNCHANGED <<exec, journal, account, executor, desk, sweep, outside>>

\* The query fails, the finalization throws, or the process dies.
ReconcilerStops(w) ==
  /\ reconciler[w] # Idle
  /\ reconciler' = [reconciler EXCEPT ![w] = Idle]
  /\ UNCHANGED <<tables, executor, queue, desk, sweep, outside>>

-----------------------------------------------------------------------------
(* manual.ts: every operation reads the payout before its transaction.     *)

ReadyForDesk(p, op) ==
  /\ ticket[p].method = "MANUAL_BANK_TRANSFER"
  /\ CASE op = "START" -> /\ ticket[p].approval = "APPROVED"
                          /\ ticket[p].settlement = "NOT_STARTED"
                          /\ ~ticket[p].review
       [] op = "COMPLETE" -> /\ ticket[p].settlement = "PROCESSING"
                             /\ ticket[p].starter # NoActor
       [] op = "MARK_UNKNOWN" -> ticket[p].settlement = "PROCESSING"
       [] OTHER -> ticket[p].settlement = "UNKNOWN"

\* What the operators are trusted with: evidence of a transfer exists for what
\* they call paid, and none was or will be made for what they call not sent.
Truthful(p, op) ==
  /\ op \in {"COMPLETE", "CONFIRMED_PAID"} => bank[p] > 0
  /\ op = "CONFIRMED_NOT_SENT" => bank[p] = 0

TwoEyeOnRequester(a, p, op) ==
  op = "CONFIRMED_NOT_SENT" /\ Requester[p] = a => Amount[p] <= NoSendSelfLimit

TwoEyePolicy(a, p, op) ==
  op = "CONFIRMED_NOT_SENT" /\ ticket[p].starter = a => Amount[p] <= NoSendSelfLimit

DeskRead(a, p, op) ==
  /\ desk[a] = Idle
  /\ a \in Operators(p)
  /\ ReadyForDesk(p, op)
  /\ Truthful(p, op)
  /\ TwoEyePolicy(a, p, op)
  /\ desk' = [desk EXCEPT ![a] = [pc |-> "READ", payout |-> p, op |-> op]]
  /\ UNCHANGED <<tables, executor, reconciler, queue, sweep, outside>>

DeskOutcome(op) ==
  CASE op \in {"COMPLETE", "CONFIRMED_PAID"} -> "PAID"
    [] op = "CONFIRMED_NOT_SENT" -> "FAILED"
    [] OTHER -> "UNKNOWN"

DeskStartUnchecked(a) ==
  LET p == desk[a].payout
  IN  /\ desk[a].pc = "READ" /\ desk[a].op = "START"
      /\ ticket' = [ticket EXCEPT ![p].settlement = "PROCESSING", ![p].starter = a]
      /\ desk' = [desk EXCEPT ![a] = Idle]
      /\ UNCHANGED <<exec, journal, account, executor, reconciler, queue, sweep, outside>>

\* startManualPayout rechecks the settlement only.
DeskStart(a) ==
  LET p == desk[a].payout
  IN  /\ desk[a].pc = "READ" /\ desk[a].op = "START"
      /\ ticket[p].settlement = "NOT_STARTED"
      /\ ticket' = [ticket EXCEPT ![p].settlement = "PROCESSING", ![p].starter = a]
      /\ desk' = [desk EXCEPT ![a] = Idle]
      /\ UNCHANGED <<exec, journal, account, executor, reconciler, queue, sweep, outside>>

DeskFinalize(a) ==
  /\ desk[a].pc = "READ" /\ desk[a].op # "START"
  /\ Finalize(desk[a].payout, DeskOutcome(desk[a].op), a)
  /\ desk' = [desk EXCEPT ![a] = Idle]
  /\ UNCHANGED <<executor, reconciler, queue, sweep, outside>>

DeskStops(a) ==
  /\ desk[a] # Idle
  /\ desk' = [desk EXCEPT ![a] = Idle]
  /\ UNCHANGED <<tables, executor, reconciler, queue, sweep, outside>>

-----------------------------------------------------------------------------
(* resolveLegacyPayout: an owner decides what became of an imported payout. *)

LegacyDecisions ==
  {"CONFIRMED_PAID", "CONFIRMED_FAILED", "CONFIRMED_NOT_SUBMITTED", "REMAIN_UNKNOWN"}

\* The owner's evidence: what PayOS itself shows.
TruthfulDecision(p, decision) ==
  /\ decision = "CONFIRMED_PAID" => payos[p] = "SUCCEEDED"
  /\ decision \in {"CONFIRMED_FAILED", "CONFIRMED_NOT_SUBMITTED"} =>
       payos[p] \in {"ABSENT", "FAILED"}

\* The approval, settlement and journal outcome of a decision.
LegacyApproval(decision) ==
  CASE decision = "CONFIRMED_NOT_SUBMITTED" -> "CANCELLED"
    [] decision = "REMAIN_UNKNOWN" -> "PENDING"
    [] OTHER -> "APPROVED"
LegacySettlement(decision) ==
  CASE decision = "CONFIRMED_PAID" -> "PAID"
    [] decision = "CONFIRMED_FAILED" -> "FAILED"
    [] decision = "CONFIRMED_NOT_SUBMITTED" -> "NOT_STARTED"
    [] OTHER -> "UNKNOWN"
LegacyOutcomeReleasingUnknown(decision) ==
  IF decision = "CONFIRMED_PAID" THEN "PAID" ELSE "FAILED"

LegacyOutcome(decision) ==
  IF decision = "CONFIRMED_NOT_SUBMITTED" THEN "FAILED" ELSE LegacySettlement(decision)
LegacyIntent(settlement) ==
  CASE settlement = "PAID" -> "CONFIRMED"
    [] settlement = "FAILED" -> "FAILED"
    [] OTHER -> "UNKNOWN"

ResolveLegacy(p, decision, withReference) ==
  LET open == decision = "REMAIN_UNKNOWN"
  IN  /\ ticket[p].legacy \in {"PENDING", "MANUAL_REVIEW"}
      /\ TruthfulDecision(p, decision)
      /\ PostOutcome(p, LegacyOutcome(decision))
      /\ ticket' = [ticket EXCEPT
                      ![p].approval = LegacyApproval(decision),
                      ![p].settlement = LegacySettlement(decision),
                      ![p].legacy = IF open THEN "MANUAL_REVIEW" ELSE "RESOLVED",
                      ![p].review = open,
                      ![p].posted = @ \/ ~open]
      /\ exec' = [exec EXCEPT ![p].intent =
                    IF withReference /\ @ = "NONE"
                    THEN LegacyIntent(LegacySettlement(decision)) ELSE @]
      /\ UNCHANGED <<executor, reconciler, queue, desk, sweep, outside>>

-----------------------------------------------------------------------------
(* The daily safety sweep: each selected payout is handled on what the     *)
(* batch query returned for it.                                            *)

SweptWhenUnknown(p) ==
  \/ ticket[p].approval = "APPROVED" /\ ticket[p].settlement = "NOT_STARTED"
  \/ ticket[p].settlement = "UNKNOWN"
  \/ Settled(p) /\ ~ticket[p].posted

Swept(p) ==
  \/ ticket[p].approval = "APPROVED" /\ ticket[p].settlement = "NOT_STARTED"
  \/ /\ ticket[p].approval = "APPROVED" /\ ticket[p].settlement = "PROCESSING"
     /\ exec[p].submit                      \* submittedAt is set by the claim only
  \/ ticket[p].settlement = "UNKNOWN"
  \/ Settled(p) /\ ~ticket[p].posted

SequenceAfterAllAttempts(p) ==
  Cardinality(exec[p].rows) + (IF exec[p].submit THEN 2 ELSE 1)

NextSequence(p) == Cardinality(exec[p].rows) + 1

SweepRead(p) ==
  /\ sweep = Idle
  /\ Swept(p)
  /\ sweep' = [pc |-> "READ", payout |-> p, settlement |-> ticket[p].settlement,
               submit |-> exec[p].submit, next |-> NextSequence(p)]
  /\ UNCHANGED <<tables, executor, reconciler, queue, desk, outside>>

SweepSchedules ==
  sweep.settlement \in {"PROCESSING", "UNKNOWN"} /\ sweep.submit /\ sweep.next <= MaxSequence

SweepFlag ==
  /\ sweep # Idle /\ ~SweepSchedules
  /\ ticket' = [ticket EXCEPT ![sweep.payout].review = TRUE]
  /\ sweep' = Idle
  /\ UNCHANGED <<exec, journal, account, executor, reconciler, queue, desk, outside>>

SweepSchedule ==
  /\ sweep # Idle /\ SweepSchedules
  /\ ScheduleReconciliation(sweep.payout, sweep.next)
  /\ sweep' = Idle
  /\ UNCHANGED <<exec, journal, account, executor, reconciler, desk, outside>>

SweepStops ==
  /\ sweep # Idle
  /\ sweep' = Idle
  /\ UNCHANGED <<tables, executor, reconciler, queue, desk, outside>>

-----------------------------------------------------------------------------
(* PayOS and the bank.  PayOS makes one payout of the requests that carry  *)
(* the same idempotency key.                                               *)

PayosAccepts(p) ==
  /\ wire[p].inFlight
  /\ wire' = [wire EXCEPT ![p].inFlight = FALSE]
  /\ payos' = [payos EXCEPT ![p] = IF @ = "ABSENT" THEN "QUEUED" ELSE @]
  /\ UNCHANGED <<tables, executor, reconciler, queue, desk, sweep, bank>>

RequestLost(p) ==
  /\ wire[p].inFlight
  /\ wire' = [wire EXCEPT ![p].inFlight = FALSE]
  /\ UNCHANGED <<tables, executor, reconciler, queue, desk, sweep, payos, bank>>

PayosProgress ==
  [ABSENT |-> {}, QUEUED |-> {"PROCESSING", "FAILED"},
   PROCESSING |-> {"SUCCEEDED", "FAILED"}, SUCCEEDED |-> {}, FAILED |-> {}]

PayosMoves(p) ==
  /\ \E s \in PayosProgress[payos[p]] : payos' = [payos EXCEPT ![p] = s]
  /\ UNCHANGED <<tables, executor, reconciler, queue, desk, sweep, wire, bank>>

\* An operator reads the beneficiary (revealBeneficiaryForManualPayout) of a
\* started payout and transfers once.
TransferByHand(p) ==
  /\ ticket[p].approval = "APPROVED"
  /\ ticket[p].method = "MANUAL_BANK_TRANSFER"
  /\ ticket[p].settlement = "PROCESSING"
  /\ bank[p] = 0
  /\ bank' = [bank EXCEPT ![p] = 1]
  /\ UNCHANGED <<tables, executor, reconciler, queue, desk, sweep, payos, wire>>

-----------------------------------------------------------------------------
DecideNext(p) ==
  \/ Request(p)
  \/ \E a \in Actors, m \in Methods : Approve(a, p, m)
  \/ Reject(p)
  \/ Cancel(p)
  \/ \E d \in LegacyDecisions, r \in BOOLEAN : ResolveLegacy(p, d, r)

ExecuteNext(p) ==
  \/ ClaimExecution(p)
  \/ SendSubmit(p)
  \/ ReceiveAnswer(p)
  \/ FailSubmit(p)
  \/ FinalizeSubmit(p)
  \/ FinalizeUncertain(p)
  \/ ScheduleFirst(p)
  \/ ExecutorStops(p)

ReconcileNext(w) ==
  \/ \E p \in Payouts : RequestReconciliation(w, p)
  \/ \E p \in Payouts, n \in Sequences : DeliverJob(w, p, n)
  \/ QueryPayos(w)
  \/ FinalizeReconcile(w)
  \/ ScheduleNext(w)
  \/ ReconcilerStops(w)

DeskNext(a) ==
  \/ \E p \in Payouts, op \in DeskOperations : DeskRead(a, p, op)
  \/ DeskStart(a)
  \/ DeskFinalize(a)
  \/ DeskStops(a)

SweepNext ==
  \/ \E p \in Payouts : SweepRead(p)
  \/ SweepFlag
  \/ SweepSchedule
  \/ SweepStops

OutsideNext(p) ==
  \/ PayosAccepts(p)
  \/ RequestLost(p)
  \/ PayosMoves(p)
  \/ TransferByHand(p)

Next ==
  \/ \E p \in Payouts : DecideNext(p)
  \/ \E p \in Payouts : ExecuteNext(p)
  \/ \E w \in Reconcilers : ReconcileNext(w)
  \/ \E a \in Actors : DeskNext(a)
  \/ SweepNext
  \/ \E p \in Payouts : OutsideNext(p)
  \/ \E p \in Payouts, n \in Sequences : DropMessage(p, n)

Spec == Init /\ [][Next]_vars

-----------------------------------------------------------------------------
(* Types.                                                                  *)

Messages == Payouts \X Sequences

ExecutorStates ==
  {Idle}
  \union [pc: {"CLAIMED", "CALLING", "CAUGHT", "SCHEDULE"}]
  \union [pc: {"ANSWERED"}, answer: Settlements]

ReconcilerStates ==
  {Idle}
  \union [pc: {"QUERY", "SCHEDULE"}, payout: Payouts, seq: Sequences, job: BOOLEAN]
  \union [pc: {"FINALIZE"}, payout: Payouts, seq: Sequences, job: BOOLEAN,
          answer: Settlements]

\* Every variable has its type: rows hold column values, a process between two
\* awaits remembers a payout and what it read, and the balances are numbers
\* the CHECK constraints of the projections admit.
TypeOK ==
  /\ ticket \in [Payouts -> Ticket]
  /\ exec \in [Payouts -> Execution]
  /\ journal \in [Payouts -> SUBSET {"reserve", "paid", "release"}]
  /\ account \in Account
  /\ executor \in [Payouts -> ExecutorStates]
  /\ reconciler \in [Reconcilers -> ReconcilerStates]
  /\ queue \subseteq Messages
  /\ desk \in [Actors -> {Idle} \union [pc: {"READ"}, payout: Payouts, op: DeskOperations]]
  /\ sweep \in {Idle} \union [pc: {"READ"}, payout: Payouts, settlement: Settlements,
                              submit: BOOLEAN, next: Nat \ {0}]
  /\ payos \in [Payouts -> PayosStates]
  /\ wire \in [Payouts -> [sent: Nat, inFlight: BOOLEAN]]
  /\ bank \in [Payouts -> Nat]

-----------------------------------------------------------------------------
(* Safety.                                                                 *)

\* The projection that requests are checked against (reserveTenantPayout) is
\* what the append-only ledger adds up to: no path moves one without the other.
BooksAgree == account = Books

\* A reservation ends once: it is never both paid out and given back, although
\* rejection, cancellation, the executor, the job, the operators and the legacy
\* workflow can each end it (applyTerminalOutcome, finalizeTenantPayoutSettlement).
ReservationEndsOnce ==
  \A p \in Payouts : ~({"paid", "release"} \subseteq journal[p])

\* How often money has left for a payout, by PayOS and by hand.
TimesPaid(p) == bank[p] + (IF payos[p] = "SUCCEEDED" THEN 1 ELSE 0)

\* Money and ledger tell the same story: what the ledger calls paid has left
\* once, what it gave back has not left and cannot leave any more, because no
\* request, claim, transfer or PayOS payout is still on its way.
MoneyMatchesLedger ==
  \A p \in Payouts :
    /\ "paid" \in journal[p] => TimesPaid(p) = 1
    /\ "release" \in journal[p] => /\ TimesPaid(p) = 0
                                   /\ payos[p] \in {"ABSENT", "FAILED"}
                                   /\ ~wire[p].inFlight
                                   /\ executor[p].pc # "CLAIMED"

\* No payout is paid by two channels or twice by one (context.md:90).
PaidAtMostOnce == \A p \in Payouts : TimesPaid(p) <= 1

\* batch.create is called once in the life of a payout, whatever crashes, is
\* resumed, reconciled or approved again: UNKNOWN is never resent (README.md:10).
SubmittedAtMostOnce == \A p \in Payouts : wire[p].sent <= 1

\* The intent row mirrors the settlement of a payout that was submitted, so
\* that neither the resume path nor a reader acts on a stale one.
IntentMirrorsSettlement ==
  \A p \in Payouts :
    exec[p].submit =>
      exec[p].intent = CASE ticket[p].settlement = "PAID" -> "CONFIRMED"
                         [] ticket[p].settlement = "FAILED" -> "FAILED"
                         [] ticket[p].settlement = "UNKNOWN" -> "UNKNOWN"
                         [] OTHER -> "REQUESTED"

\* The sweep counts the RECONCILE rows to choose the next sequence: they are
\* always 1..n without a gap, and no message is more than one ahead of them.
SequencesAreConsecutive ==
  \A p \in Payouts :
    LET n == Cardinality(exec[p].rows)
    IN  /\ exec[p].rows = 1..n
        /\ \A m \in queue : m[1] = p => m[2] <= n + 1

\* Whatever order payouts are requested, dropped and paid in, the money paid
\* or still reserved for one day stays within the daily limit.
WithinDailyLimit ==
  SumAmounts((Held \union Spent) \ Legacy) <= DailyLimit

\* An amount above the limit that an operator declared not sent was declared
\* by somebody else than the operator who started the transfer.
TwoPeopleConfirmNotSent ==
  \A p \in Payouts :
    /\ ticket[p].settlement = "FAILED"
    /\ ticket[p].starter # NoActor
    /\ Amount[p] > NoSendSelfLimit
    => ticket[p].resolver # ticket[p].starter

-----------------------------------------------------------------------------
(* What a step may never do.                                               *)

\* PAID and FAILED are final (payout-state.ts, "keeps terminal outcomes
\* terminal"), against every stale read and late answer.
TerminalIsFinal ==
  [][\A p \in Payouts :
       ticket[p].settlement \in Terminal =>
         ticket'[p].settlement = ticket[p].settlement]_vars

-----------------------------------------------------------------------------
(* The contract of PayoutContract, read off the ledger entries and what    *)
(* really left.                                                            *)

Phase(p) ==
  IF "paid" \in journal[p] THEN "spent"
  ELSE IF "release" \in journal[p] THEN "returned"
  ELSE IF "reserve" \in journal[p] THEN "held"
  ELSE "none"

Contract == INSTANCE PayoutContract
  WITH phase <- [p \in Payouts |-> Phase(p)],
       left <- [p \in Payouts |-> TimesPaid(p)],
       available <- account.available

\* Executor, jobs, sweep and operators together keep the contract: every step
\* is one of its steps or changes nothing it speaks of.
KeepsContract == Contract!Spec

-----------------------------------------------------------------------------
(* Liveness.                                                               *)

\* The cron runs every day and comes to every selected payout; it is not
\* stopped for ever, and QStash neither refuses nor loses a message for ever.
SweepRequests == SweepSchedule /\ (queue' # queue \/ ticket' # ticket)
ReconcilerEnds(w) ==
  QueryPayos(w) \/ FinalizeReconcile(w) \/ ScheduleNext(w) \/ ReconcilerStops(w)

Fairness ==
  /\ \A p \in Payouts : SF_vars(SweepRead(p))
  /\ WF_vars(SweepFlag \/ SweepSchedule \/ SweepStops)
  /\ SF_vars(SweepFlag)
  /\ SF_vars(SweepRequests)
  /\ \A p \in Payouts, n \in Sequences :
       SF_vars(\E w \in Reconcilers : DeliverJob(w, p, n))
  /\ \A w \in Reconcilers : WF_vars(ReconcilerEnds(w))

FairSpec == Spec /\ Fairness

\* A payout handed to PayOS does not hang: it settles or a person is told to
\* look at it, even if the executor died at the worst moment, every answer was
\* lost, and PayOS never makes up its mind.
SubmittedIsResolvedOrReviewed ==
  \A p \in Payouts :
    exec[p].submit ~> Settled(p) \/ ticket[p].review
=============================================================================
