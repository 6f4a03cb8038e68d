# A TLA+ model of the affiliate cashback platform

The repository is a cashback platform for affiliate links: users and the members of
tenant shops earn cashback on conversions that affiliate networks report, and withdraw it
to their bank. This project models what decides over money and access: what brings
orders in, the books they end up in, the payouts made from the books, who may come in
and act, and what goes out to people. It says what is modelled, what TLC checks, what
TLAPS proves, and what is left.

Paths below are relative to the repository (`src/modules/...` is `src/src/modules/...`
in PROJECT.json, which puts the repository under `src/`).

## 1. Inventory

| Part | State | Operations | What is hard | Module |
|---|---|---|---|---|
| Tenant payout (`tenants/payout.ts`, `payout-state.ts`, `payout-policy.ts`) | `TenantPayout` (approval and settlement axes), execution intent, attempts, terminal journal | request, approve, reject, cancel, execute inline, resume, reconcile, finalize, resolve legacy | payOS is called between transactions; crash, timeout, late and stale answers | `TenantPayout` |
| Manual desk (`tenants/manual.ts`) | the same rows, starter and resolver | start, reveal bank details, complete, mark unknown, resolve | checks before the lock; two people | `TenantPayout` |
| Recovery (`tenants/recovery.ts`, job and cron routes) | QStash messages, sweep cursor, daily budget | schedule, deliver, next in the chain, sweep | lost and repeated messages, finite chains, flags | `TenantPayout`, `TenantFunding` |
| Treasury top-ups (`tenants/finance.ts`, `api/webhooks/payos`) | funding orders, their journal | create, call payOS, webhook, reconcile | a link made whose answer is lost, late webhooks, gates | `TenantFunding` |
| Tenant finance (`tenants/finance.ts`) | treasury and member wallets, obligations | sync, correct, allocate, credit, transfer from core | long sequences of legal corrections; debts | `TenantFinance` |
| Conversions, settlement, core ledger (`conversions/service.ts`, `settlement/service.ts`, `ledger/service.ts`) | conversions, identities, risk holds, core wallet, journals | ingest, revise, promote, hold, release | two sources for one order, batch read then per-row write, daily limit | `CoreConversion` |
| Balance adjustments (`admin/adjustments.ts`) | adjustment rows | draft, review, approve and post | three people, no lock on review | `BalanceAdjustment` |
| Jobs and provider adapters (`jobs/runner.ts`, `connectors/*`) | sync runs, cursors | sync window, clicks, order round | windows that move, late networks, overlapping and killed runs | `ProviderSync` |
| Provider accounts and connector health (`settings/actions.ts`, `runner.ts`) | accounts, credential versions, connector modes, health | open, rotate, switch, ping, sync, judge holds | modes and credentials that change under a job | `Connectors` |
| Offers and the pages that show them (`runner.ts` `syncOffersJob`, `app/deals`) | snapshots with a time to live, runs | ask a page, store row by row, retry, show | runs that overlap and die, a network that changes what it said | `Offers` |
| Order imports (`imports/*`, `evidence/*`, reconciliation desk) | import rows, the stored file and its evidence row, orders, cases | upload, store, ingest rows, finish, resolve | killed imports, the same orders in two files | `OrderImport` |
| Links and rates (`links/*`, `rates/*`) | clicks, provider accounts, rules, shop terms | request a link, change terms | idempotency across settings that change | `Links` |
| Identity (`lib/clerk-identity.ts`, `identity/*`, `admin/users`) | users, invitations, blocks | Clerk webhook, sign-in, invite, block, unblock | unordered events, two administrators, calls to Clerk outside transactions | `Identity` |
| Administrators' sessions (`lib/authz.ts`) | role, session, cache | admit, revoke, bar | concurrent requests fill a cache | `AdminAccess` |
| Account deletion (`identity/deletion.ts`, `webhook.ts`) | deletion requests | ask, look, approve, delete at Clerk, anonymize | a look that is not a transaction, money moving | `AccountDeletion` |
| Shops and subscriptions (`lib/tenant.ts`, `tenants/membership.ts`, `plans.ts`, `billing-policy.ts`, payOS webhook) | tenants, invoices, members | register, check out, pay, expire, adjust, join, close | webhook against change, last seat | `Tenancy` |
| Financial actors (`tenants/persona.ts`, `payout-policy.ts`) | roles and memberships | enter a page, resolve, resolve again, act | authority that changes while a page answers | `FinancialActors` |
| Outbox (`notifications/dispatch.ts`, `push/service.ts`, `lib/zalo.ts`) | events, deliveries | list, claim, send, retry, dead letter | lease expiry, late failure writes | `Outbox` |
| Zalo assistant (`lib/zalo.ts`) | codes, tokens, bindings, receipts | bind, identify, serve, reply | repeated and concurrent deliveries, rebinding | `ZaloAssistant` |
| HTTP and signatures, schedules, reconciliation invoice, beneficiaries, tools, UI | data and I/O | | | section 7 |

How they meet. Links bring clicks, networks and files report orders for them
(`ProviderSync`, `OrderImport`); each report is a call of `ingestConversion`
(`CoreConversion`), which for a tenant's order calls `syncTenantCashbackObligation`
(`TenantFinance`) in its own transaction. A payOS top-up (`TenantFunding`) credits the
treasury, which funds waiting obligations. A withdrawal, by someone `FinancialActors`
lets act, reserves funded obligations and creates a payout (`TenantPayout`); its
terminal outcome pays or releases them. Conversions and adjustments work on one core
wallet (`BalanceAdjustment` extends `CoreConversion`). Much of this writes outbox events
(`Outbox`), and so do the answers of the chat (`ZaloAssistant`). `Identity`,
`AdminAccess`, `Tenancy` and `AccountDeletion` say who is there. payOS, QStash, Clerk,
the affiliate networks, Zalo, the bank and the operators are outside: each module has
what it needs of them, as nondeterministic steps.

Concurrency is between HTTP handlers, QStash's jobs and the daily cron. Most database
steps are Serializable transactions under row locks; what races are the gaps between
transactions, at every `await` of an outside call and between an unlocked read and a
later write.

## 2. Modules

One action is one transaction, or one step between two awaits. A process that has read
something and will write later keeps what it read in its own record (`executor`,
`reconciler`, `ingest`, `dispatcher`, `call`, `linkCall`, `syncRun`, `desk`, ...), so that
stale reads are in the model, and it may die at every such step. In most modules a few
operators no action uses stand beside the ones they vary (a guard dropped, a limit off by
one): the mutants of PROJECT.json put them in place of the real ones to see that each
property notices.

### TenantPayout and PayoutContract

`ticket`, `exec`, `journal`, `account` are the rows, with the intent and its attempts,
the ledger entries of a payout by idempotency key, and the projection. `executor[p]` is
`executeApprovedPayosPayout` as IDLE → CLAIMED (intent REQUESTED committed) → CALLING →
ANSWERED or CAUGHT → SCHEDULE; it may stop anywhere. `reconciler[w]` is
`reconcileTenantPayout` as QUERY → FINALIZE → SCHEDULE, started by a request or a QStash
message; `desk[a]` an operator's read (`authorizedManualActor`) before the locked write;
`sweep` the daily sweep between read and write; `payos`, `wire`, `bank` the outside. The
migration's imported payouts are initial states (`ImportedPayouts`), each paired with what
really happened to its money. `PayoutContract` is what a payout promises: reserve, then
pay once or give back once, and money leaves at most once, only while it is reserved.
`KeepsContract` is the refinement.

### TenantFinance

`books` holds obligations in creation order, member wallets, the treasury, the ledger
balances and the journal keys in use; `payout` what each payout has reserved, by
obligation; `done` the credited orders and the transfers. Loops of the code are folds or
a greedy split over the obligations. A transaction that throws, or that a CHECK
constraint refuses (`Commits`), changes nothing: its action is disabled. It takes a
payout's outcome as one step; that an outcome comes once is `ReservationEndsOnce` of
`TenantPayout`. What a reader may not expect, all in the code:

- An obligation starts LOCKED and nothing unlocks it by design: `released` is never true
  for a tenant conversion, as `createFinanceSettlementBatch` refuses them
  (`settlement/service.ts:158`). What reaches PENDING_FUNDING does so by a downward
  correction, which derives a status afresh (`finance.ts:577-590`); an increase locks it
  again (429-447).
- Funding goes from the oldest obligation to the youngest (`fifoFundingPlan`), but a run
  skips one whose funding key was used before (`finance.ts:346`, the key holds the funded
  amount) and goes on with younger ones.
- `reserveMemberObligations` sees AVAILABLE obligations only: what is left of a partly
  reserved one cannot be withdrawn until the first payout ends.

### TenantFunding

`topup` is the funding order, `maker` the request that creates it (CALL payOS, WRITE, or
CAUGHT an error, SCHEDULE a job), `recheck` the QStash messages, `rechecker` the job.
`payosLink` and `customerPaid` are payOS's side; `fundingJournal` is the journal by its
key and `credited` counts what really reached the treasury. The three gates
(`tenantFlags`, `switchedOn`) change at any time. There is no sweep here: an order whose
creator, job or message was lost is `forgotten`, and nothing is promised of it but that it is
credited at most once.

### CoreConversion and BalanceAdjustment

A call of `ingestConversion` (`ingest[w]`) looks for the identity of the order outside its
transaction, then creates, revises or promotes under the rules of authority between
sources; the hold job works on rows it has listed; settlement releases what the daily
limit allows; `coreWallet` is kept in step with `coreLedger` by hand. `BalanceAdjustment`
adds `adjustment`, the reviews that were read and not yet written (`reviewing`) and the
journals (`posting`), on the same wallet.

### ProviderSync, Connectors and Offers

`soldAt` and `rowStamp` are when a row was sold and when it last changed at the network, and
`Shown` the rows it has (each may show up to `Lag` late). The networks are asked by the time
of the sale (AccessTrade by the time of the change as well), so that an old row that changes
comes into no window any more; `due` is the newest change that one shows without fail. A run
takes its window, pages through whatever the window holds at each request, and stores
`cursorEnd` only after the last page. Without a cursor, or on a backfill, a window reaches
`Reach` days back. `feed` says which of the networks is read, as they differ in paging and
in how a run ends. The order round reads one page per run, of the orders of the last `Reach`
days before that run, with the page to read as a cursor that any of the overlapping runs
overwrites; `lists` remembers the order lists of a round, and `overtaken` that a run begun
in an earlier round has set the cursor. `slipped` holds the rows a run passed over because
its window changed under it. An order has at least one line: the code counts lines, so that
a page of orders without any would end a round. `Connectors` follows an account: credential
versions, the mode an administrator sets, jobs that work with the mode and the credential
they took (the account's own key, or the one of the environment where the network allows
it), and the hold that `holdJob` judges by the health they report and writes later, without
a second look at the connector. `Offers` is the job that stores
what a network offers: pages of the moving `market`, rows written one by one by runs that
overlap, each `snapshot` with its own time to live, and the page that shows what has not
ended.

### OrderImport and Links

`upload[u]` is one call that stores its file and the evidence row of it, ingests row by row
and ends in one transaction; a tenant's file is recognised by its hash, a platform's or the
desk's is not, and what was quarantined has a case. `linkCall[c]` is one request for a link: terms, provider account
(`accountOwner`, made once for an affiliate id, whoever named it first), provider, click.

### Identity, AdminAccess, AccountDeletion, Tenancy, FinancialActors

`Identity` has the user at Clerk and the account here side by side, with unordered and
repeated webhooks, sign-ins, invitations and two administrators whose writes and calls to
Clerk interleave. `AdminAccess` follows one administrator's session, the cache of Clerk's
answers, and the time each of them may be old. `AccountDeletion` reads one place of money
after another while money moves. `Tenancy` has the webhook and the join as two steps of a
serializable transaction, of which the second aborts when what the first read has changed.
`FinancialActors` resolves a person's role at a tenant twice, while roles change.

### Outbox and ZaloAssistant

A dispatcher lists, and then claims by the status and the attempts it has seen; a claimed
reply is hidden for the lease, a notice is published in the claiming transaction. Failures
are written by id. `doubts` counts the attempts whose end nobody knows. `ZaloAssistant`
has the bindings, tokens and codes, and per webhook call the stage it has reached
(`call`); a reply has the message's key, and the receipt is written last. `stood` remembers
the users the sender of a message has stood for since it came. A command keeps the grant
of its first delivery, but the key of a link is unique per user: a message repeated after
its sender was bound to somebody else gets a second link. A command a shop has switched off
is answered as LOCKED.

### Platform and MCPlatform

The thirteen modules around the money share no variable. `Platform` extends them all and
composes their fourteen parts (`ProviderSync` has two, the windows and the order rounds)
side by side: `focus` names the part that moves, the others rest. One run therefore covers
them without multiplying their states, and the proofs show that nothing is lost by it: the
composition behaves as every part alone (`PartsKeepTheirSpecs`). `MCPlatform` is its
instance for TLC.

## 3. Runs

All runs set `CHECK_DEADLOCK FALSE`: when every payout has ended, or every bound is used
up, the system stops.

| Run | Instance | Distinct states | Shows |
|---|---|---|---|
| `payout_core` | 1 payout, 2 operators, 2 reconcilers, both methods, chain of 2 | 613,014 | submitted once, outcomes final, ledger follows the money, intent mirrors settlement, sequences without gaps, two people confirm a no-send, and the refinement of `PayoutContract` |
| `payout_liveness` | 1 payOS payout, fair | 43,634 | a submitted payout settles or is flagged |
| `payout_ledger` | 3 payouts of one account, manual, one of the platform | 650,017 | projection = journals, daily limit, a reservation ends once |
| `payout_legacy` | 1 imported payout, every image of the migration | 8,059 | ledger follows the money |
| `finance_books` | 2 members, 2 payouts, 2 conversions, 1 order, 1 transfer, amounts to 2 | 260,107 | ledger = projections, wallets = obligations, members get their cashback, cash covers promises |
| `core_books` | 1 user, 1 order, 2 sources, 2 ingesters, 1 adjustment, 3 people | 361,795 | pending = what is owed, available accounted for, releases only of validated orders, three people |
| `platform` | 14 parts, two processes each | 617,112 | see below |
| `payout_reapproval`, `payout_legacy_terminal`, `finance_release`, `finance_backing`, `shop_closed` | small | violation | findings 1 to 5 |

What `platform` asks of each part:

| Part | Property | Question |
|---|---|---|
| syncs | `NothingMissedBehindTheCursor` | can a sale fall behind the cursor unread, or a change that came in time, with late networks and runs that overlap or die? |
| order rounds | `RoundsAreComplete` | has a round that starts over checked every order that did not move to another page, with windows that move and runs that overlap or die? |
| imports | `ImportsTellTheTruth` | does an import that reports success have all its orders, every omission a case, and its file the evidence? |
| links | `LinksAreIdempotent`, `LinksPayTheirShop` | one link per key, though terms change; never another shop's account |
| connectors, offers | `ProvidersAreTrustedInTime` (`ConnectorsAreTrustedInTime` and `DealsAreCurrent`) | syncs read with the account's own credential; a hold is not validated on a mode long switched off, whatever was read before it was; no page shows an offer the network has not said within its life |
| outbox | `MessagesAreNotRepeated` | repeated only for an attempt whose end nobody knows |
| chat | `ReceiptsMeanReplies`, `ChatsServeTheirOwn` | is a message that counts as handled answered; can it be served for somebody its sender never stood for, or of another shop? |
| identity | `AccountsFollowClerk` (`NobodySlipsIn` and `IdentityNeverOlder`), `BlockedIsBarred` | can an old event, a sign-in or an invitation let a blocked or uninvited person in, or set a profile back; is who is blocked here barred at Clerk? |
| shops | `PaidDaysAreServed`, `SeatsAreRespected` | is every paid day served once; can two joins take one seat? |
| top-ups | `TopupsAreSafe` | credited twice, or an unknown link nobody watches? |
| deletion | `DeletionsWereClear` | deleted while owed something that did not move during the look? |
| sessions, actors | `AuthorityIsCurrent` (`AdmissionIsCurrent` and `ActorsAreCurrent`) | how old may the authority be that somebody is admitted or acts with? |

### Bounds

Two processes of a kind are enough for any pair of concurrent calls, and a third can only
repeat one of the two; a chain of two has a first, a next and an end. One payout is
enough where payouts do not share state; three share account and limit in
`payout_ledger`, where the amounts (2, 1, 1 against a balance of 4 and a limit of 3) make
the limit refuse and where one payout's second ending could feed on what others reserved.
Amounts up to 2 in `finance_books` allow a partial correction, a partial funding and a
partial reservation; two obligations allow a debt of one paid from the other.

`core_books`: commissions 2 and 4 against a daily release of 2 make the limit refuse and
a correction go either way; `RacesAreEarly` (a CONSTRAINT) lets two calls of
`ingestConversion` overlap only at the start, before any conversion was made, and stops
the rest when that race has made two conversions of one order. `RejectedFirst = FALSE`
leaves out an order whose first report is a rejection, see "Recorded" below.

`payout_legacy`: the images are those of the migration's CASEs, each with every state payOS
may have the payout in; an old PAID without `paidAt` is imported as NOT_STARTED under review,
with or without its `paid` posting.

`platform`: the two processes `p1`, `p2` are symmetric and serve every module; times,
delays and lives are 1 or 2, chosen so that each limit lies below the clock's bound and is
passed: a clock of 5 outlives a window of `Reach` = 4, which is longer than the overlap of 2
and the lag of 1, so that rows enter late and leave a window while it is read; a clock of 4
passes the freshness and two jobs' times that a hold may be validated on. Three versions at
Clerk allow a sign-up, an unban and a ban in any order of their events. One shop of the chat
has two members, the other one, so that a sender is bound again inside a shop and across
shops. The CONSTRAINTs leave out combinations that only multiply states, each stated in
`MCPlatform`: two readers only of AccessTrade, and at once only while its report has one row
and is young, the others' rows staying within the longest window (`OneReader`); order rounds only from the day their first rows may leave the list
(`LateRounds`); an invitation before further profile changes, two of a webhook, a
sign-in and the administrators at once (`InvitesFirst`); notices or
replies (`OneKindAtATime`); a second invoice, days an administrator gives, or members
(`JoinsOrBills`); numbered rows, invoices and requests in order (`FirstComesFirst`); one
message that binds and one that asks, of which only one call has served (`BindAndAsk`); a group's code or a member's token
(`GroupsOrMembers`); one account in use, set up before its connector, with one hold job at a
time and two other jobs only at first (`SetUpFirst`); a session revoked or an account barred
(`RevokedOrBarred`); two
runs of the offers job over one offer, or one run over two (`PlainOffers`); one share for
the merchant (`PlainMerchant`); a master owner without other memberships, whom nobody takes
a role from (`PlainBoss`). Symmetry is used with invariants and action properties only; the
liveness run has none.

### Fairness

Only `payout_liveness` states fairness. The cron fires daily and its batch comes round to
every selected payout, so reading a payout that stays eligible is strongly fair; the sweep
finishes what it started; QStash neither refuses nor loses messages for ever (strong
fairness on publication and delivery); a reconciler returns. Nothing is assumed of the
executor, of payOS or of an operator. The other modules have bounded promises instead
(`TopupsAreSafe`: somebody always still looks; `RoundsAreComplete`), which need none.

### Findings

1. **A second approval pays twice** (`payout.ts:773`). `canTransitionPayoutApproval` is
   true for an unchanged status, so an APPROVED payout can be approved again with the
   other method.
2. **A terminal payout becomes UNKNOWN again** (`payout.ts:1445`): a legacy decision looks
   only at `legacyResolutionStatus`.
3. **A payout that cannot be released** (`payout.ts:245`): a conversion corrected while its
   cashback is reserved makes the release drive `fundedVnd` below zero; the CHECK
   constraint aborts it, every time.
4. **Available money without an obligation** (`finance.ts:566`): a correction of a
   reserved obligation is taken from another one; if the payout fails, the wallet's money
   has no funded obligation behind it and can be neither withdrawn nor taken back.
5. **A closed shop opens again** (`api/webhooks/payos/route.ts:108`): the webhook sets the
   tenant ACTIVE whatever its status, though `changeTenantStatusAdminAction` calls CLOSED
   final; an invoice opened before the closing is enough.

The passing payout runs set `StaleApprovals = FALSE`, that is, they assume that nobody
submits an approval form for a payout already approved: with it, finding 1 breaks
`MoneyMatchesLedger` as well. Section 4 says which theorems need it.

**Recorded**, where no text of the repository says otherwise: a tenant import that is
killed stays RUNNING and its file cannot be uploaded again; mail is sent twice by two
dispatchers that list one delivery, as nothing claims it; a conversion first reported as
rejected keeps its cashback without a posting, and a later revision settles it out of
nothing; a paid top-up that arrives while the gate is paused is answered 503
(`finance.ts:719`) and counts on payOS's repetition; two administrators who take
SUPER_ADMIN from each other at once can both succeed, as the count comes before the
transaction (`users/actions.ts:291-322`; in `FinancialActors`: `counted`);
`revokeAllClerkSessions` reads at most 100 sessions; the MERCHANT_DEFAULT rules are never
read; `syncOffers` puts a quarantined offer back in service; a health ping of an account
without its own credential uses the platform's (`runner.ts:478`); an old order that changes comes into
no window but a backfill's, as the networks are asked by the time of the sale, where the
research report recommends to poll "by upstream `updated_at`, not only creation time"
(`docs/research/cashback_affiliate_research_report.md:372`); a safety hold is released on
the word of a connector that failed after it was read (`conversions/service.ts:739-811`);
and a chat message repeated after its sender was bound to somebody else makes a second link.

## 4. Proofs

TLC checks the instances of section 3. The theorems below hold for every value of the
constants that the named `ASSUME`s of the modules allow: any number of payouts, members,
rows, people, any amounts and times. Every passing run's invariants and action properties
are stated by one of them. The assumptions are about shapes (amounts are naturals, a master
tenant is not a shop) but for these, which the code relies on: `Lag <= Overlap`
(`LagWithinOverlap`: a network is not later than the window's overlap) and `Lifetime <
Lease` (in `OutboxAssumption`: a function ends before the lease of its claim does).

### What is proved

**Payouts** (`PayoutOutcomeProofs`, `PayoutMoneyProofs`)

| Theorem | Property | Besides, assumes |
|---|---|---|
| `TypeCorrect` | `TypeOK` | |
| `SubmitsOnce` | `SubmittedAtMostOnce` | |
| `SequencesStayConsecutive` | `SequencesAreConsecutive` | |
| `ReservationsEndOnce` | `ReservationEndsOnce` | |
| `NewOutcomesAreFinal` | no payout requested here leaves PAID or FAILED | |
| `OutcomesAreFinal` | `TerminalIsFinal` | `Legacy = {}` |
| `NewIntentsMirror` | the intent of a payout requested here tells its settlement | |
| `IntentsMirrorSettlements` | `IntentMirrorsSettlement` | `Legacy = {}` |
| `BooksAlwaysAgree` | `BooksAgree` | |
| `DailyLimitHolds` | `WithinDailyLimit` | |
| `MoneyFollowsLedger` | `MoneyMatchesLedger` | `~StaleApprovals` |
| `NeverPaidTwice` | a payout is transferred at most once | `~StaleApprovals` |
| `TwoPeopleForNotSent` | `TwoPeopleConfirmNotSent` | `~StaleApprovals` |
| `ContractKept` | `KeepsContract`, the refinement of `PayoutContract` | `~StaleApprovals` |

These hold with any mixture of payouts requested under this version and payouts the migration
imported. `Legacy = {}`, nothing was imported, is needed by two: an imported payout can leave
a terminal state (finding 2, run `payout_legacy_terminal`) and was submitted without an
intent. The two theorems before them say the same of each payout that was not imported,
without that assumption. `~StaleApprovals`: nobody approves what is approved (finding 1;
`payout_reapproval` shows what happens otherwise). `NeverPaidTwice` says that this is the only
way to pay twice.

**The shop's books** (`TenantFinanceProofs`), without further assumption

| Theorem | Property |
|---|---|
| `BooksTyped` | `TypeOK`: nothing goes below zero |
| `LedgerIsTheBalance` | `LedgerMatchesProjections` |
| `WalletsAreTheirObligations` | `WalletsMatchObligations` |
| `CashbackReachesItsMember` | `MembersGetTheirCashback` |
| `PromisesAreCovered` | `CashCoversPromises` |

**The core's books** (`CoreBooksProofs`)

| Theorem | Property | Besides, assumes |
|---|---|---|
| `BooksAreTyped` | `BooksTypeOK` | |
| `OnlyValidatedIsReleased` | `ReleasesValidated` | |
| `ThreePeoplePost` | `PostedByThreePeople` | |
| `PendingIsWhatIsOwed` | `PendingIsOwed` | `~RejectedFirst` |
| `AvailableIsSettledOrAdjusted` | `AvailableIsAccountedFor` | `~RejectedFirst` |

`~RejectedFirst`: no order is first heard of as rejected; with it the two are false, see
"Recorded" in section 3.

**What brings orders in** (`IntakeProofs`), **who may come in and act** (`DoorProofs`),
**what goes out, and the whole** (`PlatformProofs`), without further assumption

| Theorem | Property |
|---|---|
| `NothingStaysMissed`, `RoundsStayComplete` | `NothingMissedBehindTheCursor`, `RoundsAreComplete` |
| `ImportsStayTruthful` | `ImportsTellTheTruth` |
| `KeysStandForOneLink`, `ShopsAreNotCrossed` | `LinksAreIdempotent`, `LinksPayTheirShop` |
| `ProvidersStayTrustedInTime`, from `TrustIsNoOlderThanHealth` and `ShownOffersAreCurrent` | `ProvidersAreTrustedInTime` |
| `BlockedStayBarred`, `AccountsKeepFollowingClerk` | `BlockedIsBarred`, `AccountsFollowClerk` |
| `AuthorityStaysCurrent` | `AuthorityIsCurrent` |
| `PaidDaysStayServed`, `NoSeatIsTakenTwice` | `PaidDaysAreServed`, `SeatsAreRespected` |
| `TopupsStaySafe` | `TopupsAreSafe` |
| `DeletesOnlyTheClear` | `DeletionsWereClear` |
| `NobodyIsToldTwice` | `MessagesAreNotRepeated` |
| `ChatsStayInTheirShop`, `ReceiptsFollowReplies` | `ChatsServeTheirOwn`, `ReceiptsMeanReplies` |
| `PlatformTyped` | `PlatformTypeOK` |
| `PartsKeepTheirSpecs` | `PlatformSpec` implies each part's own specification |
| `PlatformKeepsItsPromises` | all of the above, of the platform as a whole |

### How

Hardly any of these is inductive. Each part has an invariant that is: it holds at the start,
every step keeps it (one lemma per action, or per group of actions alike), and it implies the
property. What it adds to the property is the reason why the code works:

- *Submitted once* (`SubmitInv`). What was sent does not tell what may still be sent: an
  executor that holds a claim has sent nothing yet, and a claim or a sent request means that
  the intent is used up, which only a READY intent can become and nothing undoes. Every
  step outside the executor is `Quiet`.
- *Imported payouts* (`ImportedInv`). They are born with an outcome, a reservation or both,
  and only an owner's decision and reconciliations reach them: they have no method, so that
  no executor and no desk does. Their ledger entries then follow what PayOS says, and no
  step of theirs touches a payout requested under this version.
- *Outcomes* (`OutcomeInv`, of those). Only an approved payout is ever worked on; a `paid` entry exists
  exactly when it is PAID, a `release` entry exactly when it is FAILED, rejected or cancelled.
  A withdrawal therefore meets nobody who could still settle the payout. `MirrorInv` says the
  same of the intent, `SequenceInv` of the numbers a chain may still schedule.
- *The account* (`ReservedInv`). A step touches the ledger of one payout at a time, and the
  projection by its amount. That the sums over all payouts follow needs no induction
  over data: `SumLemmas` proves that a sum over a finite set changes by what one summand
  changes, with a minimal counterexample in place of an induction.
- *The money* (`SoundInv`). `Fresh`: what is not approved has no method and has moved
  nothing. `Asked`: every answer in somebody's hands is still true at payOS, whose terminal
  states stay. `ByPayos` and `ByHand`: the two ways exclude each other, so that no desk ever
  holds a payOS payout and no executor a manual one; and a desk that has read a row
  remembers of it what the locked write will check. With that a ledger entry can only follow
  the money. `ContractKept` maps `Init`, and each step to one step of `PayoutContract`'s or
  to none, with it.
- *The shop's books* (`IInv`, of `Fits` and `AddUp`). Each obligation is split, offset,
  consumed or reserved by a greedy split over a sequence; `SplitSum` says that the parts
  add up to the whole. `AddUp` ties a payout's reservation to the columns of the obligations it
  took from, which is what a release must find again after corrections in between.
- *The core's books* (`BooksInv`, `MoneyInv`). `NamesHold`: whatever an identity, a call of
  `ingestConversion` or the hold job names is there, and a conversion has its own name before
  anything else can find it; `RowsHold`: what the columns of a row say of each other, so that
  what is released was validated. `MoneyInv` ties each wallet column to the rows and postings
  it sums up. The creator of an adjustment never changes, and a review that
  was read or written is not the creator's own (`ReviewsAreByOthers`): a stale review may
  even put a posted adjustment back to REVIEWED, without harm to the rule.
- *Windows* (`WindowsInv`). A run's window begins where everything older is settled, or at
  its reach, and its list holds what was due of every row sold an overlap before its end
  (`RunIsSound`): such a row can neither appear nor have a change come due any more. The run
  has read what it listed in the pages behind it, or the list moved; the pages of a list
  that stands still cover it, by the bijection of its rows with their ranks. What a run
  leaves behind its cursor, whichever run sets it, is therefore settled (`CursorIsSound`):
  ingested, slipped, or out of any window's reach.
- *Order rounds* (`OrdersInv`). Runs that overlap keep no order among themselves, so each
  vouches for the pages before its own: an order that stands on one page in every list of the
  round has been checked once that page lies behind the cursor or behind any run of the round
  (`RoundIsKept`). An empty page lies behind all orders of its list
  (`NothingBehindAnEmptyPage`), so the run that finds one vouches for them all.
- *Imports* (`ImportInv`). Each stage of an upload knows what the earlier ones have written,
  and a stored file and its evidence are not undone by anybody else.
- *Links* (`LinkInv`). What a request writes is an account its own shop owns, an account
  never changes hands, and every answer is a copy of the one click its key made.
- *Connectors and offers* (`ConnectorsInv`, `OffersInv`). A job knows the mode and credential
  of a time that the model remembers; the health it writes is of that time, no older than
  a job lives (`HealthIsOfTheMode`); and a hold job that means to validate had seen a fresh
  success, and lives no longer than a job either (`HoldsAreJudgedInTime`). A hold's trust
  is therefore as old as a report stays fresh and two jobs last, and the middle one of the
  three is what the unlocked read before the await costs. A snapshot ends within its life after what the network
  said (`RowsEndInTime`).
- *Identity* (`IdentityInv`). Whoever is blocked and not yet barred at Clerk has somebody under
  way who will bar, or make the account active again (`BarsAreOnTheWay`); two
  administrators, a block and an unblock at once, are what it is about. That nobody slips in
  and no profile goes back follows from each step by itself.
- *Sessions and actors* (`AccessInv`, `HeldInv`). A cached answer was true at the time it
  carries (`CacheIsOfItsTime`), and so was what a request checked.
- *Shops* (`TenancyInv`). What a transaction has read was so (`ReadsWereTrue`: seats were free, the day had
  come), and it commits only if that has not changed: the seats and the days rest on the
  conflict check of the serializable isolation.
- *Top-ups* (`FundingInv`). The count of what was credited is what the journal remembers,
  whose key refuses a second one; and an order whose link is unknown stays `Watched`: by
  the request that will schedule, a message, a running job or the review flag.
- *Deletion* (`DeletionInv`). Unless money arrived or moved meanwhile, what is owed is among
  the places a call has not read yet, or it has found something (`LooksAreHonest`).
- *Outbox* (`OutboxInv`). A claim is hidden for longer than its holder lives, so nobody can
  list the event while it is held (`ClaimsExclude`), and whoever listed it earlier saw fewer
  attempts and fails the conditional update. The proof fails with `Lifetime <= Lease`: ten
  minutes of lease against `maxDuration` are what the code relies on.
- *Chat* (`ZaloInv`). A call handles exactly what its message says; the one user it found is
  of the shop of the group, and the sender has stood for them (`UserIsFit`); whoever a sender
  stands for now, it has stood for since its messages came (`SendersStand`); a bound group
  never changes shop, and a command keeps its first grant (`ServedAtHome`).
- *Platform*. A step of the platform is a step of one part and leaves the variables of the
  others alone, so it is a step or a stutter of each (`PartsKeepTheirSpecs`); every theorem
  about a part then holds there by its name.

### Only model-checked

`SubmittedIsResolvedOrReviewed`, liveness under fairness, which needs ENABLED. The runs that
expect a violation are counterexamples and stay with TLC.

## 5. Assumptions and abstractions

- Serializable transactions are atomic, with row locks and retries inside; where the code
  uses a weaker isolation, read and write are two steps.
- payOS keeps an idempotency key: `batch.create` with the same key makes one payout. Its
  list may lag and its states may stall, and a successful payout is not reversed. Its
  webhooks repeat.
- QStash may lose, delay and repeat messages.
- A function ends within `maxDuration`: `Lifetime`, `CallTime`, `JobTime`.
- Operators say the truth (`Truthful`, `TruthfulDecision`): who confirms a payment has
  made it, who confirms a no-send has not. A manual transfer is made once.
- Clerk delivers its events in any order and more than once; a user's versions grow.
- A network numbers its pages over what the window holds at that moment. Rows may slip
  between two pages when the window changes under the run: this is in the model, and
  `slipped` says which. In the order list, orders keep their order; it only grows and loses
  orders at any place.
- `NothingMissedBehindTheCursor` promises no change that comes to the network's report after
  the windows of its row's sale have been asked for, and `RoundsAreComplete` no order that
  moved to another page within the round, nor a round whose cursor was set by a run of an
  earlier one. These misses are in the model and happen in the code: what repairs them is
  `backfill-conversions`, which reads `Reach` days again, or the next round.
- Feature gates, passkeys and role checks are guards: a closed gate is an action not
  taken. Where who acts matters, people are named (`Operators`, `Staff`, `Persons`).
- Statuses that nothing reads back (`dispatchStatus`, an attempt's own status, audit
  rows, the legacy `status` mirror) are left out; texts, amounts without effect, hashes
  and identifiers are model values.
- In `TenantPayout` a member's debts are left out: a release returns the whole amount.
  `TenantFinance` has the debts. There, correction event keys are unique (a conversion
  revision has its own), while the keys of funding and offset, which can collide, are kept.
- Imported payouts do not count against today's limit.
- The modules of `platform` share no variable and are composed side by side: what one passes
  to the next in the code (an ingested order, a queued reply, a role) is a nondeterministic
  input there.

## 6. Plan

Done: `TenantPayout` with `PayoutContract`, `TenantFinance`, `TenantFunding`,
`CoreConversion` with `BalanceAdjustment`, `ProviderSync`, `Connectors`, `Offers`,
`OrderImport`, `Links`, `Identity`, `AdminAccess`, `AccountDeletion`, `Tenancy`,
`FinancialActors`, `Outbox`, `ZaloAssistant`, composed in `Platform`; and the theorems of
section 4.

Next, where they add a question: `CoreConversion` and `TenantFinance` over one conversion;
the sweep's batch and cursor; the daily budget of QStash messages. The hazards without a
property in PROJECT.json each say what is missing.

## 7. Not modelled

- *Provider HTTP, signatures and URL policy* (`connectors/*` transport and
  `connectors/url-policy.ts`): encoding and I/O. What the answers do to state is in
  `ProviderSync`.
- *QStash schedules and the failure callback*: configuration; a job may start at any time.
- *Shopee reconciliation invoice*: switched off in the code, reads and compares only.
- *Beneficiaries*: encrypted data; a payout knows only whether its gate is open.
- *Legacy core payout*: answers 410 everywhere.
- *Tools, UI, public API, redirect*: text, reads, or a single write nothing else depends on.
- Of modelled parts: the sweep's batch and cursor (one payout that throws stops the batch,
  `recovery.ts:69`), the numbers of QStash's daily budget, the
  passkey ceremony, and a link request that names its provider account (`links/service.ts:47-64`),
  which is only taken when it is of the request's shop.

PROJECT.json lists every part with its reason and, under `hazards`, what is hard to test,
with the properties that look at it or the reason why none does.
