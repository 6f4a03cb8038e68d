--------------------------- MODULE CoreConversion ----------------------------
(***************************************************************************)
(* Conversions of core users: what affiliate networks report, the holds on *)
(* it, the settlement that makes cashback available, and the wallet and    *)
(* ledger behind it (src/modules/conversions/service.ts,                   *)
(* settlement/service.ts, ledger/service.ts).                              *)
(*                                                                         *)
(* A call of ingestConversion looks for the order's identity outside its   *)
(* transaction, hence two steps, between which other calls run; so does    *)
(* the hold job, which works on a list it has read.  Conversions of        *)
(* tenants move no core money; what they do is in TenantFinance.           *)
(***************************************************************************)
EXTENDS Integers, FiniteSets, FiniteSetsExt

CONSTANTS
  CoreUsers,        \* users whose clicks lead to orders
  CoreOrders,       \* order items, as every network names them
  ClickedBy,        \* the user behind an order's click
  CoreSources,      \* connectors that may report an order
  Authority,        \* the weight of a source's word
  Ingesters,        \* concurrent calls of ingestConversion
  ReportStatuses,   \* what networks say of an order: a subset of KnownStatuses
  Commissions,      \* commissions a network may report
  DailyRelease,     \* BETA_DAILY_AVAILABLE_LIMIT_VND
  MaxClock,         \* bound: days
  MaxRevisions,     \* bound: revisions of a conversion
  RejectedFirst     \* may an order be first reported when already rejected?

KnownStatuses == {"tracked", "delivered", "review_required", "validated", "rejected"}

ASSUME CoreConstantsAssumption ==
  /\ ClickedBy \in [CoreOrders -> CoreUsers]
  /\ Authority \in [CoreSources -> 1..3]
  /\ ReportStatuses \subseteq KnownStatuses
  /\ Commissions \subseteq Nat
  /\ DailyRelease \in Nat /\ MaxClock \in Nat /\ MaxRevisions \in Nat
  /\ RejectedFirst \in BOOLEAN

VARIABLES
  conversion,   \* Conversion rows with their RiskHold, by the identity that made them
  identity,     \* ExternalConversionIdentity: {} or the conversion of an order and source
  ingest,       \* what a call of ingestConversion has read
  holdJob,      \* what releaseDueSafetyHolds has decided for a conversion
  coreWallet,   \* WalletProjection
  coreLedger,   \* balances of the ledger accounts, credits positive
  clock         \* days

coreVars == <<conversion, identity, ingest, holdJob, coreWallet, coreLedger, clock>>

-----------------------------------------------------------------------------
(* Rows.                                                                   *)

ConversionIds == CoreOrders \X CoreSources
NoConversion == [made |-> FALSE]
NoDate == -1
HoldDays == 1

Reports == [status: ReportStatuses, net: Commissions]

ConversionRow ==
  [made: {TRUE},
   status: {"PENDING", "VALIDATED", "REJECTED"},
   validation: {"TRACKED", "VALIDATION_HOLD", "VALIDATED", "REVIEW_REQUIRED", "REJECTED"},
   settlement: {"UNBILLED", "RELEASED", "REVERSED"},
   authority: 1..3, net: Nat, cashback: Nat, availableOn: Nat \union {NoDate},
   due: Nat \union {NoDate}, captured: Nat, revisions: Nat,
   hold: {"NONE", "HELD", "RELEASED", "CANCELLED", "REVIEW_REQUIRED"}, openCase: BOOLEAN]

UserOf(c) == ClickedBy[c[1]]
MadeConversions == {c \in ConversionIds : conversion[c].made}
LessOf(x, y) == IF x < y THEN x ELSE y

\* Ledger accounts of a user, and of the platform.
UserAccounts == {"pending", "available", "recovery", "treasury"} \X CoreUsers
PlatformAccounts == {<<"receivable">>, <<"revenue">>, <<"adjustment">>}

Idle == [step |-> "IDLE"]

CoreInit ==
  /\ conversion = [c \in ConversionIds |-> NoConversion]
  /\ identity = [i \in ConversionIds |-> {}]
  /\ ingest = [w \in Ingesters |-> Idle]
  /\ holdJob = [c \in ConversionIds |-> Idle]
  /\ coreWallet = [u \in CoreUsers |-> [pending |-> 0, available |-> 0]]
  /\ coreLedger = [a \in UserAccounts \union PlatformAccounts |-> 0]
  /\ clock = 0

-----------------------------------------------------------------------------
(* What a report says.                                                     *)

\* cashbackFromCommission, with a share of one half and rounded down.
CashbackOf(net) == net \div 2

ConversionStatusOf(report) ==
  CASE report.status = "validated" -> "VALIDATED"
    [] report.status = "rejected" -> "REJECTED"
    [] OTHER -> "PENDING"

\* validationStatus: a delivery with its date starts the hold; without a date
\* or with an account that has no hold days it is reported as review_required.
ValidationStatusOf(report) ==
  CASE report.status = "validated" -> "VALIDATED"
    [] report.status = "rejected" -> "REJECTED"
    [] report.status = "review_required" -> "REVIEW_REQUIRED"
    [] report.status = "delivered" -> "VALIDATION_HOLD"
    [] OTHER -> "TRACKED"

\* validationDueAt.  Orders are delivered on the first day.
DueOf(report) == IF report.status = "delivered" THEN HoldDays ELSE NoDate

\* A report of a rejection takes the money away.
EffectiveNet(report) == IF report.status = "rejected" THEN 0 ELSE report.net

\* correctedSettlementStatus; nothing ever sets the statuses between UNBILLED
\* and RELEASED.
CorrectedSettlement(row, status) ==
  IF status = "REJECTED" /\ (row.settlement = "RELEASED" \/ row.availableOn # NoDate)
  THEN "REVERSED" ELSE row.settlement

-----------------------------------------------------------------------------
(* applyConversionRevision, on the current row and under its lock.         *)

Unchanged(row, report, weight) ==
  /\ ConversionStatusOf(report) = row.status
  /\ ValidationStatusOf(report) = row.validation
  /\ EffectiveNet(report) = row.net
  /\ CashbackOf(EffectiveNet(report)) = row.cashback
  /\ weight = row.authority

\* Where a correction of the cashback goes: into the bucket the cashback is in,
\* and as a debt of the user when the bucket has not enough.
BucketOf(row) == IF row.availableOn # NoDate THEN "available" ELSE "pending"

ShiftUncapped(row, balance, report) ==
  LET net == EffectiveNet(report) - row.net
      cashback == CashbackOf(EffectiveNet(report)) - row.cashback
  IN  [net |-> net, cashback |-> cashback, balance |-> cashback, recovery |-> 0]

Shift(row, balance, report) ==
  LET net == EffectiveNet(report) - row.net
      cashback == CashbackOf(EffectiveNet(report)) - row.cashback
      debit == IF cashback < 0 THEN LessOf(-cashback, balance) ELSE 0
  IN  [net |-> net, cashback |-> cashback,
       balance |-> IF cashback < 0 THEN -debit ELSE cashback,
       recovery |-> IF cashback < 0 THEN -cashback - debit ELSE 0]

HoldAfter(row, report) ==
  CASE report.status = "rejected" -> IF row.hold = "NONE" THEN "NONE" ELSE "CANCELLED"
    [] /\ report.status = "delivered"
       /\ row.availableOn = NoDate
       /\ CashbackOf(report.net) > 0 -> "HELD"
    [] OTHER -> row.hold

\* What the bucket cannot cover makes a case for the desk (and suspends the user).
LeavesDebt(shift) == shift.recovery > 0

RowAfter(row, report, weight, shift) ==
  [row EXCEPT
     !.status = ConversionStatusOf(report),
     !.validation = ValidationStatusOf(report),
     !.settlement = CorrectedSettlement(row, ConversionStatusOf(report)),
     !.authority = weight,
     !.net = EffectiveNet(report),
     !.cashback = CashbackOf(EffectiveNet(report)),
     !.due = DueOf(report),
     !.captured = clock,
     !.revisions = @ + 1,
     !.hold = HoldAfter(row, report),
     !.openCase = @ \/ LeavesDebt(shift)]

Revise(c, report, weight, reviewed) ==
  LET row == conversion[c]
      u == UserOf(c)
      bucket == BucketOf(row)
      shift == Shift(row, coreWallet[u][bucket], report)
  IN  IF Unchanged(row, report, weight)
      THEN /\ conversion' = [conversion EXCEPT ![c].captured = clock,
                                               ![c].openCase = @ \/ reviewed]
           /\ UNCHANGED <<coreWallet, coreLedger>>
      ELSE /\ row.revisions < MaxRevisions
           /\ conversion' = [conversion EXCEPT ![c] =
                [RowAfter(row, report, weight, shift) EXCEPT !.openCase = @ \/ reviewed]]
           /\ coreWallet' = [coreWallet EXCEPT ![u][bucket] = @ + shift.balance]
           /\ coreLedger' = [coreLedger EXCEPT
                ![<<"receivable">>] = @ - shift.net,
                ![<<bucket, u>>] = @ + shift.balance,
                ![<<"recovery", u>>] = @ - shift.recovery,
                ![<<"revenue">>] = @ + shift.net - shift.cashback]

-----------------------------------------------------------------------------
(* ingestConversion and ingestValidation.                                  *)

KnownAs(o) == UNION {identity[<<o, s>>] : s \in CoreSources}

\* The exact identity exists, and no identity is ever deleted: one step.
IngestKnown(o, s, report) ==
  /\ \E c \in identity[<<o, s>>] : Revise(c, report, Authority[s], FALSE)
  /\ UNCHANGED <<identity, ingest, holdJob, clock>>

\* ingestValidation: AccessTrade's order list confirms or rejects an item, or
\* leaves it to a review.  Only the exact identity counts: an order that is not
\* known is a case for the desk and nothing else.
IngestValidation(o, s, report) ==
  /\ report.status \in {"validated", "rejected", "review_required"}
  /\ \E c \in identity[<<o, s>>] : Revise(c, report, Authority[s], FALSE)
  /\ UNCHANGED <<identity, ingest, holdJob, clock>>

\* Another source may have reported the order, or nobody.
IngestRead(w, o, s, report) ==
  /\ ingest[w] = Idle
  /\ identity[<<o, s>>] = {}
  /\ \/ /\ KnownAs(o) = {}
        /\ RejectedFirst \/ report.status # "rejected"
        /\ ingest' = [ingest EXCEPT ![w] =
             [step |-> "NEW", order |-> o, source |-> s, report |-> report]]
     \/ \E c \in KnownAs(o) :
          ingest' = [ingest EXCEPT ![w] =
            [step |-> "SAME", order |-> o, source |-> s, report |-> report, of |-> c,
             authority |-> conversion[c].authority, net |-> conversion[c].net,
             status |-> conversion[c].status]]
  /\ UNCHANGED <<conversion, identity, holdJob, coreWallet, coreLedger, clock>>

\* The unique index refuses a second identity: the transaction fails.
IngestRefused(w) ==
  /\ ingest[w] # Idle
  /\ identity[<<ingest[w].order, ingest[w].source>>] # {}
  /\ ingest' = [ingest EXCEPT ![w] = Idle]
  /\ UNCHANGED <<conversion, identity, holdJob, coreWallet, coreLedger, clock>>

NewRow(report, weight) ==
  [made |-> TRUE, status |-> ConversionStatusOf(report),
   validation |-> ValidationStatusOf(report), settlement |-> "UNBILLED",
   authority |-> weight, net |-> report.net, cashback |-> CashbackOf(report.net),
   availableOn |-> NoDate, due |-> DueOf(report), captured |-> clock, revisions |-> 0,
   hold |-> IF report.status = "delivered" THEN "HELD" ELSE "NONE", openCase |-> FALSE]

PostPendingAlways(u, report) ==
  /\ coreWallet' = [coreWallet EXCEPT ![u].pending = @ + report.net]
  /\ coreLedger' = [coreLedger EXCEPT
       ![<<"receivable">>] = @ - report.net,
       ![<<"pending", u>>] = @ + CashbackOf(report.net),
       ![<<"revenue">>] = @ + report.net - CashbackOf(report.net)]

\* postPendingCashback.  A conversion that comes in rejected posts nothing, but
\* keeps its amounts.
PostPending(u, report) ==
  IF CashbackOf(report.net) = 0 \/ report.status = "rejected"
  THEN UNCHANGED <<coreWallet, coreLedger>>
  ELSE /\ coreWallet' = [coreWallet EXCEPT ![u].pending = @ + CashbackOf(report.net)]
       /\ coreLedger' = [coreLedger EXCEPT
            ![<<"receivable">>] = @ - report.net,
            ![<<"pending", u>>] = @ + CashbackOf(report.net),
            ![<<"revenue">>] = @ + report.net - CashbackOf(report.net)]

IngestCreate(w) ==
  LET c == <<ingest[w].order, ingest[w].source>>
  IN  /\ ingest[w].step = "NEW"
      /\ identity[c] = {}
      /\ conversion' = [conversion EXCEPT ![c] = NewRow(ingest[w].report, Authority[c[2]])]
      /\ identity' = [identity EXCEPT ![c] = {c}]
      /\ PostPending(UserOf(c), ingest[w].report)
      /\ ingest' = [ingest EXCEPT ![w] = Idle]
      /\ UNCHANGED <<holdJob, clock>>

\* The second source of an order: it revises the conversion if its word weighs
\* more than what the first read has seen, and asks for a review if it differs.
IngestMerge(w) ==
  LET call == ingest[w]
      weight == Authority[call.source]
  IN  /\ call.step = "SAME"
      /\ identity[<<call.order, call.source>>] = {}
      /\ identity' = [identity EXCEPT ![<<call.order, call.source>>] = {call.of}]
      /\ IF weight > call.authority
         THEN Revise(call.of, call.report, weight,
                     \/ call.report.net # call.net
                     \/ ConversionStatusOf(call.report) # call.status)
         ELSE UNCHANGED <<conversion, coreWallet, coreLedger>>
      /\ ingest' = [ingest EXCEPT ![w] = Idle]
      /\ UNCHANGED <<holdJob, clock>>

-----------------------------------------------------------------------------
(* releaseDueSafetyHolds.                                                  *)

GraceDays == 1

\* The list, the health of the connector and the open cases decide; what is
\* neither healthy nor seen after its hold has a grace.
HoldJobRead(c, healthy) ==
  LET row == conversion[c]
      sure == healthy /\ row.captured >= row.due
  IN  /\ holdJob[c] = Idle
      /\ row.made
      /\ row.validation = "VALIDATION_HOLD"
      /\ row.due # NoDate /\ row.due <= clock
      /\ sure \/ clock >= row.due + GraceDays
      /\ holdJob' = [holdJob EXCEPT ![c] =
           [step |-> IF sure /\ row.authority >= 2 /\ ~row.openCase
                     THEN "VALIDATE" ELSE "REVIEW",
            held |-> row.hold # "NONE"]]
      /\ UNCHANGED <<conversion, identity, ingest, coreWallet, coreLedger, clock>>

HoldJobReview(c) ==
  /\ holdJob[c].step = "REVIEW"
  /\ conversion' = [conversion EXCEPT
       ![c].validation = "REVIEW_REQUIRED",
       ![c].hold = IF holdJob[c].held THEN "REVIEW_REQUIRED" ELSE @]
  /\ holdJob' = [holdJob EXCEPT ![c] = Idle]
  /\ UNCHANGED <<identity, ingest, coreWallet, coreLedger, clock>>

HoldJobValidateBlindly(c) ==
  /\ holdJob[c].step = "VALIDATE"
  /\ conversion' = [conversion EXCEPT
       ![c].status = "VALIDATED",
       ![c].validation = "VALIDATED",
       ![c].hold = IF holdJob[c].held THEN "RELEASED" ELSE @]
  /\ holdJob' = [holdJob EXCEPT ![c] = Idle]
  /\ UNCHANGED <<identity, ingest, coreWallet, coreLedger, clock>>

\* Only this branch locks the row and looks again.
HoldJobValidate(c) ==
  /\ holdJob[c].step = "VALIDATE"
  /\ conversion' =
       IF conversion[c].validation # "VALIDATION_HOLD" THEN conversion
       ELSE [conversion EXCEPT
               ![c].status = "VALIDATED",
               ![c].validation = "VALIDATED",
               ![c].hold = IF holdJob[c].held THEN "RELEASED" ELSE @]
  /\ holdJob' = [holdJob EXCEPT ![c] = Idle]
  /\ UNCHANGED <<identity, ingest, coreWallet, coreLedger, clock>>

-----------------------------------------------------------------------------
(* createFinanceSettlementBatch, one transaction.                          *)

CashbackSum(cs) == MapThenSumSet(LAMBDA c : conversion[c].cashback, cs)
OfUser(cs, u) == {c \in cs : UserOf(c) = u}

ReleasedToday(u) ==
  CashbackSum({c \in MadeConversions : UserOf(c) = u /\ conversion[c].availableOn = clock})

Settleable(c) ==
  /\ conversion[c].validation = "VALIDATED"
  /\ conversion[c].settlement = "UNBILLED"
  /\ conversion[c].net > 0

\* What the file must fulfil: every line is known by this account and may be
\* settled, no user is released more than a day's share, and the pending column
\* covers it (a CHECK constraint).
MayBeSettled(cs, amount) ==
  /\ \A c \in cs : Settleable(c)
  /\ \A u \in CoreUsers :
       /\ OfUser(cs, u) # {} => ReleasedToday(u) + amount[u] <= DailyRelease
       /\ amount[u] <= coreWallet[u].pending

\* releaseCashback for every line: from pending to available, in the wallets and
\* in the ledger.
ReleaseCashback(amount) ==
  /\ coreWallet' = [u \in CoreUsers |->
       [pending |-> coreWallet[u].pending - amount[u],
        available |-> coreWallet[u].available + amount[u]]]
  /\ coreLedger' = [a \in DOMAIN coreLedger |->
       IF a[1] = "pending" THEN coreLedger[a] - amount[a[2]]
       ELSE IF a[1] = "available" THEN coreLedger[a] + amount[a[2]]
       ELSE coreLedger[a]]

\* A conversion is released once, as it leaves UNBILLED and has one settlement
\* line; the batch, its evidence and its lines are RELEASED with it.
CloseBatch(cs) ==
  conversion' = [c \in ConversionIds |->
    IF c \notin cs THEN conversion[c]
    ELSE [conversion[c] EXCEPT !.settlement = "RELEASED", !.availableOn = clock]]

Settle(s, orders) ==
  LET cs == UNION {identity[<<o, s>>] : o \in orders}
      amount == [u \in CoreUsers |-> CashbackSum(OfUser(cs, u))]
  IN  /\ orders # {}
      /\ \A o \in orders : identity[<<o, s>>] # {}
      /\ MayBeSettled(cs, amount)
      /\ CloseBatch(cs)
      /\ ReleaseCashback(amount)
      /\ UNCHANGED <<identity, ingest, holdJob, clock>>

-----------------------------------------------------------------------------
\* resolveReconciliationAction.
ResolveCase(c) ==
  /\ conversion[c].made /\ conversion[c].openCase
  /\ conversion' = [conversion EXCEPT ![c].openCase = FALSE]
  /\ UNCHANGED <<identity, ingest, holdJob, coreWallet, coreLedger, clock>>

\* transferMasterWalletToTreasury, seen from the core wallet: what makes a
\* later correction exceed the bucket.
SpendAvailable(u) ==
  LET x == coreWallet[u].available
  IN  /\ x > 0
      /\ coreWallet' = [coreWallet EXCEPT ![u].available = 0]
      /\ coreLedger' = [coreLedger EXCEPT ![<<"available", u>>] = @ - x,
                                          ![<<"treasury", u>>] = @ + x]
      /\ UNCHANGED <<conversion, identity, ingest, holdJob, clock>>

NextDay ==
  /\ clock < MaxClock
  /\ clock' = clock + 1
  /\ UNCHANGED <<conversion, identity, ingest, holdJob, coreWallet, coreLedger>>

IngestNext ==
  \/ \E o \in CoreOrders, s \in CoreSources, report \in Reports :
       \/ IngestKnown(o, s, report)
       \/ IngestValidation(o, s, report)
       \/ \E w \in Ingesters : IngestRead(w, o, s, report)
  \/ \E w \in Ingesters : IngestRefused(w) \/ IngestCreate(w) \/ IngestMerge(w)

HoldJobNext ==
  \E c \in ConversionIds :
    \/ \E healthy \in BOOLEAN : HoldJobRead(c, healthy)
    \/ HoldJobReview(c)
    \/ HoldJobValidate(c)

CoreNext ==
  \/ IngestNext
  \/ HoldJobNext
  \/ \E s \in CoreSources, orders \in SUBSET CoreOrders : Settle(s, orders)
  \/ \E c \in ConversionIds : ResolveCase(c)
  \/ \E u \in CoreUsers : SpendAvailable(u)
  \/ NextDay

CoreSpec == CoreInit /\ [][CoreNext]_coreVars

-----------------------------------------------------------------------------
(* Types.                                                                  *)

IngestCalls ==
  {Idle}
  \union [step: {"NEW"}, order: CoreOrders, source: CoreSources, report: Reports]
  \union [step: {"SAME"}, order: CoreOrders, source: CoreSources, report: Reports,
          of: ConversionIds, authority: 1..3, net: Nat,
          status: {"PENDING", "VALIDATED", "REJECTED"}]

\* Rows, calls and balances have their types; no wallet column is negative.
CoreTypeOK ==
  /\ conversion \in [ConversionIds -> ConversionRow \union {NoConversion}]
  /\ identity \in [ConversionIds -> SUBSET ConversionIds]
  /\ ingest \in [Ingesters -> IngestCalls]
  /\ holdJob \in [ConversionIds ->
                    {Idle} \union [step: {"VALIDATE", "REVIEW"}, held: BOOLEAN]]
  /\ coreWallet \in [CoreUsers -> [pending: Nat, available: Nat]]
  /\ coreLedger \in [UserAccounts \union PlatformAccounts -> Int]
  /\ clock \in 0..MaxClock

-----------------------------------------------------------------------------
(* Properties.                                                             *)

Owed(u) ==
  CashbackSum({c \in MadeConversions : /\ UserOf(c) = u
                                       /\ conversion[c].status # "REJECTED"
                                       /\ conversion[c].availableOn = NoDate})

Released(u) ==
  CashbackSum({c \in MadeConversions : UserOf(c) = u /\ conversion[c].availableOn # NoDate})

\* What a wallet shows as pending is the cashback of the user's conversions that
\* are neither rejected nor settled, whoever reported and corrected them and in
\* whatever order: rejected orders leave nothing and take nothing.
PendingIsOwed == \A u \in CoreUsers : coreWallet[u].pending = Owed(u)

\* Cashback becomes available only for an order validated at that moment, and
\* a hold ends in a validation only once it is due; correction, hold job and
\* settlement work on the same rows.
ReleasesValidated ==
  [][\A c \in ConversionIds : conversion[c].made =>
       /\ /\ conversion[c].availableOn = NoDate
          /\ conversion'[c].availableOn # NoDate
          => conversion[c].status = "VALIDATED"
       /\ /\ conversion[c].status # "VALIDATED"
          /\ conversion'[c].status = "VALIDATED"
          /\ conversion'[c].revisions = conversion[c].revisions
          => conversion[c].due # NoDate /\ conversion[c].due <= clock]_coreVars
=============================================================================
