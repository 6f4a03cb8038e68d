--------------------------- MODULE TenantFunding -----------------------------
(***************************************************************************)
(* A top-up of a tenant's treasury by payOS: the order, the payment link,  *)
(* the webhook that credits it, and the reconciliation of an order whose   *)
(* link may or may not exist (createTenantFundingOrder and                 *)
(* creditTenantFundingOrder of src/modules/tenants/finance.ts, recovery.ts *)
(* and the funding-reconcile job).                                         *)
(*                                                                         *)
(* payOS may make a link and its answer be lost; QStash delivers a message *)
(* never, once or again, and does not retry; every process may die.        *)
(***************************************************************************)
EXTENDS Integers, FiniteSets

CONSTANTS
  Topups,         \* TenantFundingOrder rows
  Delays          \* length of FINANCE_RECONCILIATION_DELAYS

ASSUME FundingAssumption == Delays \in Nat

VARIABLES
  topup,          \* TenantFundingOrder rows
  maker,          \* the request that creates an order
  payosLink,      \* orders payOS has a link for
  customerPaid,   \* orders paid at payOS
  fundingJournal, \* orders whose funding journal is posted
  credited,       \* times the treasury was raised for an order
  recheck,        \* QStash messages
  rechecker,      \* the job, between its read and its write
  forgotten,      \* orders whose creator, job or message was lost
  tenantFlags,    \* financeEnabled and topupEnabled of the tenant, and whether it is closed
  switchedOn      \* the environment's and the feature flags' word on top-ups

fundingVars ==
  <<topup, maker, payosLink, customerPaid, fundingJournal, credited, recheck,
    rechecker, forgotten, tenantFlags, switchedOn>>
gateVars == <<tenantFlags, switchedOn>>

NoTopup == [status |-> "NONE", link |-> FALSE, review |-> FALSE]
AtRest == [at |-> "REST"]

FundingInit ==
  /\ topup = [o \in Topups |-> NoTopup]
  /\ maker = [o \in Topups |-> "NONE"]
  /\ payosLink = {} /\ customerPaid = {} /\ fundingJournal = {}
  /\ credited = [o \in Topups |-> 0]
  /\ recheck = {}
  /\ rechecker = [o \in Topups |-> AtRest]
  /\ forgotten = {}
  /\ tenantFlags = [finance |-> FALSE, topup |-> FALSE, closed |-> FALSE]
  /\ switchedOn = TRUE

MakerGoes(o, at) == maker' = [maker EXCEPT ![o] = at]

-----------------------------------------------------------------------------
(* The gate.                                                               *)

topupVars == <<topup, maker, payosLink, customerPaid, fundingJournal, credited, recheck,
               rechecker, forgotten>>

\* updateTenantFinanceFlagsAdminAction: no top-up without finance, nothing for a
\* closed tenant.
SetFinanceFlags(finance, mayTopup) ==
  /\ mayTopup => finance
  /\ ~tenantFlags.closed
  /\ tenantFlags' = [tenantFlags EXCEPT !.finance = finance, !.topup = mayTopup]
  /\ UNCHANGED <<topupVars, switchedOn>>

\* changeTenantStatusAdminAction: the flags stay as they are.
CloseTenant ==
  /\ tenantFlags' = [tenantFlags EXCEPT !.closed = TRUE]
  /\ UNCHANGED <<topupVars, switchedOn>>

\* A feature flag, or a deployment with another environment.
SwitchTopups ==
  /\ switchedOn' = ~switchedOn
  /\ UNCHANGED <<topupVars, tenantFlags>>

\* assertTenantFinanceGate(tenant, "topup").
GateOpen == switchedOn /\ tenantFlags.finance /\ tenantFlags.topup

-----------------------------------------------------------------------------
(* createTenantFundingOrder.  A second request with the same key finds the *)
(* row and returns what it holds.                                          *)

CreateTopup(o) ==
  /\ topup[o] = NoTopup /\ GateOpen
  /\ topup' = [topup EXCEPT ![o].status = "PENDING"]
  /\ MakerGoes(o, "CALL")
  /\ UNCHANGED <<payosLink, customerPaid, fundingJournal, credited, recheck, rechecker, forgotten, gateVars>>

\* createTenantFundingPaymentLink: made and answered, made and not
\* answered, not made.
AskForLink(o) ==
  /\ maker[o] = "CALL"
  /\ \/ payosLink' = payosLink \union {o} /\ (MakerGoes(o, "WRITE") \/ MakerGoes(o, "CAUGHT"))
     \/ UNCHANGED payosLink /\ MakerGoes(o, "CAUGHT")
  /\ UNCHANGED <<topup, customerPaid, fundingJournal, credited, recheck, rechecker, forgotten, gateVars>>

\* The update with the link is in the same try: it may commit and still fail.
WriteLink(o) ==
  /\ maker[o] = "WRITE"
  /\ topup' = [topup EXCEPT ![o].link = TRUE]
  /\ MakerGoes(o, "NONE") \/ MakerGoes(o, "CAUGHT")
  /\ UNCHANGED <<payosLink, customerPaid, fundingJournal, credited, recheck, rechecker, forgotten, gateVars>>

\* The catch writes whatever the order has become.
MarkUnknown(o) ==
  /\ maker[o] = "CAUGHT"
  /\ topup' = [topup EXCEPT ![o].status = "UNKNOWN", ![o].review = FALSE]
  /\ MakerGoes(o, "SCHEDULE")
  /\ UNCHANGED <<payosLink, customerPaid, fundingJournal, credited, recheck, rechecker, forgotten, gateVars>>

-----------------------------------------------------------------------------
(* scheduleFundingReconciliation: no delay left, flags or budget in the    *)
(* way, QStash refusing, or a message.                                     *)

Refuse(o) == topup' = [topup EXCEPT ![o].review = TRUE]

Schedule(o, n) ==
  \/ Refuse(o) /\ UNCHANGED recheck
  \/ n <= Delays /\ recheck' = recheck \union {[of |-> o, sequence |-> n]} /\ UNCHANGED topup

ScheduleFirst(o) ==
  /\ maker[o] = "SCHEDULE"
  /\ Schedule(o, 1)
  /\ MakerGoes(o, "NONE")
  /\ UNCHANGED <<payosLink, customerPaid, fundingJournal, credited, rechecker, forgotten, gateVars>>

MakerDies(o) ==
  /\ maker[o] # "NONE"
  /\ MakerGoes(o, "NONE")
  /\ forgotten' = forgotten \union {o}
  /\ UNCHANGED <<topup, payosLink, customerPaid, fundingJournal, credited, recheck, rechecker, gateVars>>

-----------------------------------------------------------------------------
(* The funding-reconcile job.                                              *)

RecheckReads(m) ==
  /\ m \in recheck /\ rechecker[m.of] = AtRest
  /\ rechecker' = [rechecker EXCEPT ![m.of] =
       IF topup[m.of].status \in {"PAID", "FAILED"} THEN AtRest
       ELSE [at |-> "QUERY", sequence |-> m.sequence]]
  /\ recheck' = recheck \ {m} \/ UNCHANGED recheck
  /\ UNCHANGED <<topup, maker, payosLink, customerPaid, fundingJournal, credited, forgotten, gateVars>>

\* A link found is written down for a person; a failing query looks like no
\* link.
RecheckFinds(o) ==
  /\ rechecker[o].at = "QUERY" /\ o \in payosLink
  /\ topup' = [topup EXCEPT ![o].link = TRUE, ![o].review = TRUE]
  /\ rechecker' = [rechecker EXCEPT ![o] = AtRest]
  /\ UNCHANGED <<maker, payosLink, customerPaid, fundingJournal, credited, recheck, forgotten, gateVars>>

RecheckFindsNothing(o) ==
  /\ rechecker[o].at = "QUERY"
  /\ Schedule(o, rechecker[o].sequence + 1)
  /\ rechecker' = [rechecker EXCEPT ![o] = AtRest]
  /\ UNCHANGED <<maker, payosLink, customerPaid, fundingJournal, credited, forgotten, gateVars>>

\* The job dies or answers an error; a message is lost.
RecheckLost(o) ==
  /\ \/ /\ rechecker[o] # AtRest
        /\ rechecker' = [rechecker EXCEPT ![o] = AtRest]
        /\ UNCHANGED recheck
     \/ \E m \in recheck : m.of = o /\ recheck' = recheck \ {m} /\ UNCHANGED rechecker
  /\ forgotten' = forgotten \union {o}
  /\ UNCHANGED <<topup, maker, payosLink, customerPaid, fundingJournal, credited, gateVars>>

-----------------------------------------------------------------------------
\* Who has been shown the link may pay.
PayTopup(o) ==
  /\ topup[o].link /\ o \in payosLink
  /\ customerPaid' = customerPaid \union {o}
  /\ UNCHANGED <<topup, maker, payosLink, fundingJournal, credited, recheck, rechecker, forgotten, gateVars>>

\* creditTenantFundingOrder, one serializable transaction; the journal key
\* says whether the treasury was raised before.
RaisesAlways(o) == TRUE                   \* mutant: every posting raises it
Raises(o) == o \notin fundingJournal

FundingWebhook(o) ==
  /\ GateOpen
  /\ o \in customerPaid /\ topup[o].status \in {"PENDING", "UNKNOWN"}
  /\ fundingJournal' = fundingJournal \union {o}
  /\ credited' = IF Raises(o) THEN [credited EXCEPT ![o] = @ + 1] ELSE credited
  /\ topup' = [topup EXCEPT ![o] = [status |-> "PAID", link |-> TRUE, review |-> FALSE]]
  /\ UNCHANGED <<maker, payosLink, customerPaid, recheck, rechecker, forgotten, gateVars>>

FundingNext ==
  \/ \E o \in Topups :
       \/ CreateTopup(o) \/ AskForLink(o) \/ WriteLink(o) \/ MarkUnknown(o)
       \/ ScheduleFirst(o) \/ MakerDies(o)
       \/ RecheckFinds(o) \/ RecheckFindsNothing(o) \/ RecheckLost(o)
       \/ PayTopup(o) \/ FundingWebhook(o)
  \/ \E m \in recheck : RecheckReads(m)
  \/ \E finance, mayTopup \in BOOLEAN : SetFinanceFlags(finance, mayTopup)
  \/ CloseTenant \/ SwitchTopups

FundingSpec == FundingInit /\ [][FundingNext]_fundingVars

-----------------------------------------------------------------------------
\* Every variable holds a value of its kind.
FundingTypeOK ==
  /\ \A o \in Topups : topup[o].status \in {"NONE", "PENDING", "UNKNOWN", "PAID"}
  /\ maker \in [Topups -> {"NONE", "CALL", "WRITE", "CAUGHT", "SCHEDULE"}]
  /\ payosLink \union customerPaid \union fundingJournal \union forgotten \subseteq Topups
  /\ credited \in [Topups -> Nat]
  /\ recheck \subseteq [of : Topups, sequence : 1..Delays]
  /\ tenantFlags \in [finance : BOOLEAN, topup : BOOLEAN, closed : BOOLEAN]
  /\ switchedOn \in BOOLEAN

\* A top-up raises the treasury once, and only after it was paid: not again
\* when the failing request writes UNKNOWN over the paid order and payOS
\* repeats its webhook (finance.ts:688-696, 730-766).
ToppedUpOnce ==
  \A o \in Topups : credited[o] <= 1 /\ (credited[o] = 1 => o \in customerPaid)

\* Unless a process or a message was lost, an order nobody knows the link of
\* is being looked at: a message is on its way, a job is at it, or a person
\* is told (recovery.ts:134-193, funding-reconcile/route.ts:24-60).
UnknownTopupsAreWatched ==
  \A o \in Topups \ forgotten :
    topup[o].status = "UNKNOWN" =>
      \/ topup[o].review
      \/ maker[o] = "SCHEDULE" \/ rechecker[o] # AtRest
      \/ \E m \in recheck : m.of = o

\* Both: whatever is lost, repeated or overwritten between the request, payOS's
\* webhook and the reconciliation job, money is neither credited twice nor lost
\* sight of (finance.ts:674-766).
TopupsAreSafe == ToppedUpOnce /\ UnknownTopupsAreWatched
=============================================================================
