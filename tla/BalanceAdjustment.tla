-------------------------- MODULE BalanceAdjustment --------------------------
(***************************************************************************)
(* Manual adjustments of a core user's available cashback: drafted by one  *)
(* person of the staff, reviewed by a second and posted by a third         *)
(* (src/modules/admin/adjustments.ts), on the wallet of CoreConversion.    *)
(*                                                                         *)
(* A review reads the adjustment and writes it without a lock, hence two   *)
(* steps; an approval is one Serializable transaction.  The passkey that   *)
(* every call asks for is a guard that the caller meets or not.            *)
(***************************************************************************)
EXTENDS CoreConversion

CONSTANTS
  Adjustments,        \* ids of adjustments
  Staff,              \* people with a finance role
  AdjustmentAmounts   \* amounts an adjustment may have

ASSUME AdjustmentAssumption == AdjustmentAmounts \subseteq Int \ {0}

VARIABLES
  adjustment,   \* BalanceAdjustment rows
  reviewing,    \* adjustments a person has read as a draft to review
  posting       \* the journal adjustment:<id>:posted, if there is one

adjustmentVars == <<adjustment, reviewing, posting>>

NoAdjustment == [status |-> "NONE"]

AdjustmentInit ==
  /\ adjustment = [a \in Adjustments |-> NoAdjustment]
  /\ reviewing = [s \in Staff |-> {}]
  /\ posting = [a \in Adjustments |-> {}]

-----------------------------------------------------------------------------
\* createAdjustment.
DraftAdjustment(a, s, u, amount) ==
  /\ adjustment[a] = NoAdjustment
  /\ adjustment' = [adjustment EXCEPT ![a] =
       [status |-> "DRAFT", user |-> u, amount |-> amount, creator |-> s,
        reviewer |-> {}, approver |-> {}]]
  /\ UNCHANGED <<reviewing, posting, coreVars>>

\* reviewAdjustment reads ...
ReviewRead(a, s) ==
  /\ adjustment[a].status = "DRAFT"
  /\ adjustment[a].creator # s
  /\ reviewing' = [reviewing EXCEPT ![s] = @ \union {a}]
  /\ UNCHANGED <<adjustment, posting, coreVars>>

\* ... and writes, by the id alone.
ReviewWrite(a, s) ==
  /\ a \in reviewing[s]
  /\ adjustment' = [adjustment EXCEPT ![a].status = "REVIEWED", ![a].reviewer = {s}]
  /\ reviewing' = [reviewing EXCEPT ![s] = @ \ {a}]
  /\ UNCHANGED <<posting, coreVars>>

ApprovableByReviewer(a, s) ==
  /\ adjustment[a].status = "REVIEWED"
  /\ adjustment[a].reviewer # {}
  /\ adjustment[a].creator # s

Approvable(a, s) ==
  /\ adjustment[a].status = "REVIEWED"
  /\ adjustment[a].reviewer # {}
  /\ s \notin adjustment[a].reviewer
  /\ adjustment[a].creator # s

\* The user's available column and its account, against the platform's
\* expense (or revenue) account for adjustments.
MoveAdjusted(u, amount) ==
  /\ coreWallet' = [coreWallet EXCEPT ![u].available = @ + amount]
  /\ coreLedger' = [coreLedger EXCEPT ![<<"available", u>>] = @ + amount,
                                      ![<<"adjustment">>] = @ - amount]

Posting(a, s) ==
  {[amount |-> adjustment[a].amount, creator |-> adjustment[a].creator,
    reviewer |-> adjustment[a].reviewer, approver |-> s]}

PostAgain(a, s) ==
  /\ Approvable(a, s)
  /\ coreWallet[adjustment[a].user].available + adjustment[a].amount >= 0
  /\ MoveAdjusted(adjustment[a].user, adjustment[a].amount)
  /\ posting' = [posting EXCEPT ![a] = Posting(a, s)]
  /\ adjustment' = [adjustment EXCEPT ![a].status = "POSTED", ![a].approver = {s}]
  /\ UNCHANGED <<reviewing, conversion, identity, ingest, holdJob, clock>>

\* approveAndPostAdjustment: with a journal in place nothing is written.
PostAdjustment(a, s) ==
  /\ Approvable(a, s)
  /\ coreWallet[adjustment[a].user].available + adjustment[a].amount >= 0
  /\ posting[a] = {}
  /\ MoveAdjusted(adjustment[a].user, adjustment[a].amount)
  /\ posting' = [posting EXCEPT ![a] = Posting(a, s)]
  /\ adjustment' = [adjustment EXCEPT ![a].status = "POSTED", ![a].approver = {s}]
  /\ UNCHANGED <<reviewing, conversion, identity, ingest, holdJob, clock>>

AdjustmentNext ==
  \E a \in Adjustments, s \in Staff :
    \/ \E u \in CoreUsers, amount \in AdjustmentAmounts : DraftAdjustment(a, s, u, amount)
    \/ ReviewRead(a, s)
    \/ ReviewWrite(a, s)
    \/ PostAdjustment(a, s)

-----------------------------------------------------------------------------
(* The core's books: conversions and adjustments on one wallet.            *)

booksVars == <<coreVars, adjustmentVars>>

BooksInit == CoreInit /\ AdjustmentInit

BooksNext ==
  \/ CoreNext /\ UNCHANGED adjustmentVars
  \/ AdjustmentNext

BooksSpec == BooksInit /\ [][BooksNext]_booksVars

-----------------------------------------------------------------------------
AdjustmentRow ==
  [status: {"DRAFT", "REVIEWED", "POSTED"}, user: CoreUsers, amount: AdjustmentAmounts,
   creator: Staff, reviewer: SUBSET Staff, approver: SUBSET Staff]

PostingRow ==
  [amount: AdjustmentAmounts, creator: Staff, reviewer: SUBSET Staff, approver: Staff]

\* Adjustments, their journals and the calls under way have their types.
AdjustmentTypeOK ==
  /\ adjustment \in [Adjustments -> AdjustmentRow \union {NoAdjustment}]
  /\ reviewing \in [Staff -> SUBSET Adjustments]
  /\ posting \in [Adjustments -> SUBSET PostingRow]

\* The books' variables have their types, those of the conversions too.
BooksTypeOK == CoreTypeOK /\ AdjustmentTypeOK

\* Money moves by an adjustment only with three people behind it, however
\* reviews and approvals of the same adjustment overlap.
PostedByThreePeople ==
  \A a \in Adjustments : \A j \in posting[a] :
    /\ j.reviewer # {}
    /\ j.approver # j.creator
    /\ j.approver \notin j.reviewer
    /\ j.creator \notin j.reviewer

Adjusted(u) ==
  MapThenSumSet(LAMBDA a : adjustment[a].amount,
                {a \in Adjustments : posting[a] # {} /\ adjustment[a].user = u})

\* What was settled or adjusted to a user is in the wallet, went to the
\* treasury, or was taken back; what could not be taken back is a debt.  So a
\* conversion is released once and an adjustment posted once, even where a
\* stale review puts a posted adjustment back to REVIEWED.
AvailableIsAccountedFor ==
  \A u \in CoreUsers :
    coreWallet[u].available + coreLedger[<<"treasury", u>>] + coreLedger[<<"recovery", u>>]
      = Released(u) + Adjusted(u)
=============================================================================
