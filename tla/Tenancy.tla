------------------------------ MODULE Tenancy --------------------------------
(***************************************************************************)
(* Shops as customers of the platform: registration with a trial, the     *)
(* subscription and its invoices, PayOS's webhook, the expiry job, the     *)
(* administrators' changes, and members joining while there are seats      *)
(* (src/lib/tenant.ts, src/modules/tenants/membership.ts, plans.ts,        *)
(* billing-policy.ts, src/app/api/webhooks/payos, src/app/admin/tenants).  *)
(*                                                                         *)
(* The webhook and a join are serializable transactions that first read    *)
(* and then write: here they are two steps, and the second aborts when     *)
(* what the first read has changed.  PayOS repeats its webhooks.           *)
(***************************************************************************)
EXTENDS Integers, FiniteSets, FiniteSetsExt

CONSTANTS
  Shops,          \* tenants of kind STANDARD
  Joiners,        \* users who may join a shop
  Bills,          \* SaaSInvoice rows
  Transactions,   \* concurrent webhooks and joins
  TrialDays, BillDays, BillLife, AdjustDays,
  Seats,          \* maxUsers of each plan
  MaxDay          \* bound: time

PlanCodes == {"TRIAL_14D", "PRO"}
Unattached == "NOT_A_MEMBER"

ASSUME TenancyAssumption ==
  /\ IsFiniteSet(Joiners) /\ IsFiniteSet(Bills)
  /\ Unattached \notin Shops
  /\ TrialDays \in Nat /\ BillDays \in Nat \ {0} /\ BillLife \in Nat /\ AdjustDays \in Nat
  /\ MaxDay \in Nat
  /\ Seats \in [PlanCodes -> Nat]

VARIABLES
  shop,           \* Tenant rows
  memberOf,       \* User.tenantId
  bill,           \* SaaSInvoice rows
  paidBill,       \* invoices the customer paid at PayOS
  transaction,    \* webhooks and joins between their reads and writes
  adjusted,       \* days an administrator added to each shop
  day

tenancyVars == <<shop, memberOf, bill, paidBill, transaction, adjusted, day>>

Quiet == [at |-> "QUIET"]
NoShop == [status |-> "NONE", plan |-> "TRIAL_14D", until |-> 0]
NoBill == [status |-> "NONE"]

TenancyInit ==
  /\ shop = [t \in Shops |-> NoShop]
  /\ memberOf = [u \in Joiners |-> Unattached]
  /\ bill = [b \in Bills |-> NoBill]
  /\ paidBill = {}
  /\ transaction = [x \in Transactions |-> Quiet]
  /\ adjusted = [t \in Shops |-> 0]
  /\ day = 0

-----------------------------------------------------------------------------
\* registerTenantWithTrial, by the owner or by an administrator; the owner's
\* unique key refuses a second shop.
RegisterShop(t) ==
  /\ shop[t] = NoShop
  /\ shop' = [shop EXCEPT ![t] =
                [status |-> "TRIAL", plan |-> "TRIAL_14D", until |-> day + TrialDays]]
  /\ UNCHANGED <<memberOf, bill, paidBill, transaction, adjusted, day>>

Exists(t) == shop[t].status # "NONE"

\* createTenantCheckoutSession: the invoice, then the link at PayOS.  The
\* same Idempotency-Key finds the same invoice and changes nothing.
Checkout(t, b) ==
  /\ Exists(t) /\ shop[t].status \notin {"CLOSED", "SUSPENDED"}
  /\ bill[b] = NoBill
  /\ bill' = [bill EXCEPT ![b] = [status |-> "PENDING", of |-> t, until |-> day + BillLife,
                                  link |-> FALSE, opening |-> TRUE]]
  /\ UNCHANGED <<shop, memberOf, paidBill, transaction, adjusted, day>>

Opening(b) == bill[b] # NoBill /\ bill[b].opening

LinkCreated(b) ==
  /\ Opening(b)
  /\ bill' = [bill EXCEPT ![b].link = TRUE, ![b].opening = FALSE]
  /\ UNCHANGED <<shop, memberOf, paidBill, transaction, adjusted, day>>

LinkRefused(b) ==
  /\ Opening(b)
  /\ bill' = [bill EXCEPT ![b].status = "FAILED", ![b].opening = FALSE]
  /\ UNCHANGED <<shop, memberOf, paidBill, transaction, adjusted, day>>

\* PayOS takes money until the link expires.
CustomerPays(b) ==
  /\ bill[b] # NoBill /\ bill[b].link /\ day < bill[b].until
  /\ paidBill' = paidBill \union {b}
  /\ UNCHANGED <<shop, memberOf, bill, transaction, adjusted, day>>

-----------------------------------------------------------------------------
(* POST /api/webhooks/payos.                                               *)

WebhookReads(x, b) ==
  /\ transaction[x] = Quiet /\ b \in paidBill
  /\ transaction' = [transaction EXCEPT ![x] =
       [at |-> "WEBHOOK", bill |-> b, saw |-> bill[b], shop |-> shop[bill[b].of], now |-> day]]
  /\ UNCHANGED <<shop, memberOf, bill, paidBill, adjusted, day>>

\* PAID is answered as a duplicate; billingWebhookMismatchReasons refuses the
\* rest.
PayableAgain(row, now) == row.link /\ row.until > now    \* mutant: no look at the status
Payable(row, now) == row.status = "PENDING" /\ row.link /\ row.until > now

\* nextSubscriptionExpiry.
Extended(until, days, now) == Max({until, now}) + days

\* What a transaction read is still so: else it is aborted.
Unchecked(x) == TRUE                        \* mutant: the default isolation
Serializable(x) ==
  LET tx == transaction[x] IN
  /\ tx.at = "WEBHOOK" => bill[tx.bill] = tx.saw /\ shop[tx.saw.of] = tx.shop
  /\ tx.at = "JOIN" =>
       /\ memberOf[tx.user] = Unattached
       /\ shop[tx.of] = tx.shop
       /\ {u \in Joiners : memberOf[u] = tx.of} = tx.members

WebhookCommits(x) ==
  /\ transaction[x].at = "WEBHOOK"
  /\ LET tx == transaction[x]  t == tx.saw.of IN
     IF Serializable(x) /\ Payable(tx.saw, tx.now)
     THEN /\ bill' = [bill EXCEPT ![tx.bill].status = "PAID"]
          /\ shop' = [shop EXCEPT ![t] =
               [status |-> "ACTIVE", plan |-> "PRO",
                until |-> Extended(tx.shop.until, BillDays, tx.now)]]
     ELSE UNCHANGED <<bill, shop>>
  /\ transaction' = [transaction EXCEPT ![x] = Quiet]
  /\ UNCHANGED <<memberOf, paidBill, adjusted, day>>

-----------------------------------------------------------------------------
\* expireSaaSInvoicesAndTenants.
ExpireAll ==
  /\ bill' = [b \in Bills |->
       IF bill[b].status = "PENDING" /\ bill[b].until <= day
       THEN [bill[b] EXCEPT !.status = "EXPIRED"] ELSE bill[b]]
  /\ shop' = [t \in Shops |->
       IF shop[t].status \in {"TRIAL", "ACTIVE"} /\ shop[t].until <= day
       THEN [shop[t] EXCEPT !.status = "PAST_DUE"] ELSE shop[t]]
  /\ UNCHANGED <<memberOf, paidBill, transaction, adjusted, day>>

\* changeTenantStatusAdminAction.
Restored(row) ==
  IF row.until <= day THEN "PAST_DUE"
  ELSE IF row.plan = "TRIAL_14D" THEN "TRIAL" ELSE "ACTIVE"

SetShopStatus(t) ==
  /\ Exists(t) /\ shop[t].status # "CLOSED"
  /\ \E next \in {"SUSPENDED", "CLOSED"} \union
                 (IF shop[t].status = "SUSPENDED" THEN {Restored(shop[t])} ELSE {}) :
       shop' = [shop EXCEPT ![t].status = next]
  /\ UNCHANGED <<memberOf, bill, paidBill, transaction, adjusted, day>>

\* adjustTenantPlanAdminAction; bound: once per shop.
AdjustPlan(t) ==
  /\ Exists(t) /\ shop[t].status # "CLOSED" /\ adjusted[t] = 0
  /\ shop' = [shop EXCEPT ![t] = [status |-> "ACTIVE", plan |-> "PRO",
                                  until |-> Extended(shop[t].until, AdjustDays, day)]]
  /\ adjusted' = [adjusted EXCEPT ![t] = @ + AdjustDays]
  /\ UNCHANGED <<memberOf, bill, paidBill, transaction, day>>

-----------------------------------------------------------------------------
(* joinTenantBySlug, and the join that comes with a first sign-in.         *)

\* tenantSubscriptionIsEffective.
Effective(row, now) == row.status \in {"TRIAL", "ACTIVE"} /\ row.until > now

JoinReads(x, u, t) ==
  /\ transaction[x] = Quiet /\ Exists(t)
  /\ memberOf[u] = Unattached /\ Effective(shop[t], day)
  /\ LET members == {v \in Joiners : memberOf[v] = t} IN
     /\ Cardinality(members) < Seats[shop[t].plan]
     /\ transaction' = [transaction EXCEPT ![x] =
          [at |-> "JOIN", user |-> u, of |-> t, shop |-> shop[t], members |-> members]]
  /\ UNCHANGED <<shop, memberOf, bill, paidBill, adjusted, day>>

JoinCommits(x) ==
  /\ transaction[x].at = "JOIN"
  /\ LET tx == transaction[x] IN
     memberOf' = IF Serializable(x) THEN [memberOf EXCEPT ![tx.user] = tx.of] ELSE memberOf
  /\ transaction' = [transaction EXCEPT ![x] = Quiet]
  /\ UNCHANGED <<shop, bill, paidBill, adjusted, day>>

NextDay ==
  /\ day < MaxDay
  /\ day' = day + 1
  /\ UNCHANGED <<shop, memberOf, bill, paidBill, transaction, adjusted>>

-----------------------------------------------------------------------------
TenancyNext ==
  \/ \E t \in Shops : RegisterShop(t) \/ SetShopStatus(t) \/ AdjustPlan(t)
  \/ \E t \in Shops, b \in Bills : Checkout(t, b)
  \/ \E b \in Bills : LinkCreated(b) \/ LinkRefused(b) \/ CustomerPays(b)
  \/ \E x \in Transactions, b \in Bills : WebhookReads(x, b)
  \/ \E x \in Transactions, u \in Joiners, t \in Shops : JoinReads(x, u, t)
  \/ \E x \in Transactions : WebhookCommits(x) \/ JoinCommits(x)
  \/ ExpireAll \/ NextDay

TenancySpec == TenancyInit /\ [][TenancyNext]_tenancyVars

-----------------------------------------------------------------------------
ShopStatuses == {"NONE", "TRIAL", "ACTIVE", "PAST_DUE", "SUSPENDED", "CLOSED"}

\* Every variable holds a value of its kind.
TenancyTypeOK ==
  /\ \A t \in Shops : shop[t].status \in ShopStatuses /\ shop[t].plan \in PlanCodes
                      /\ shop[t].until \in Nat /\ adjusted[t] \in Nat
  /\ memberOf \in [Joiners -> Shops \union {Unattached}]
  /\ \A b \in Bills : bill[b].status \in {"NONE", "PENDING", "PAID", "EXPIRED", "FAILED"}
  /\ paidBill \subseteq Bills
  /\ \A x \in Transactions : transaction[x].at \in {"QUIET", "WEBHOOK", "JOIN"}
  /\ day \in 0..MaxDay

\* The days a shop was given: trial, paid invoices, adjustments.
DaysGiven(t) ==
  TrialDays + adjusted[t]
    + BillDays * Cardinality({b \in Bills : bill[b].status = "PAID" /\ bill[b].of = t})

\* The days a shop is served are the days it was given: every paid invoice and
\* every adjustment lengthens the subscription, also when two payments, or a
\* payment and an adjustment, arrive together; and a repeated webhook adds
\* nothing, so the subscription never reaches further than what was given,
\* counted from today (webhooks/payos/route.ts:31-133).
PaidDaysAreServed ==
  \A t \in Shops : Exists(t) => shop[t].until \in DaysGiven(t)..(day + DaysGiven(t))

\* Nobody joins a shop that is full, although two joins both see the last
\* free seat; only a smaller plan leaves a shop with too many
\* (membership.ts:28-32).
SeatsAreRespected ==
  [][\A t \in Shops :
       LET now == {u \in Joiners : memberOf[u] = t}
           next == {u \in Joiners : memberOf'[u] = t} IN
       Cardinality(next) > Cardinality(now) =>
         Cardinality(next) <= Seats[shop[t].plan]]_tenancyVars

\* A closed shop is closed for good (admin/tenants/actions.ts:220).
ClosedShopsStayClosed ==
  [][\A t \in Shops : shop[t].status = "CLOSED" => shop'[t].status = "CLOSED"]_tenancyVars
=============================================================================
