--------------------------- MODULE TenantFinance ----------------------------
(***************************************************************************)
(* The books of one tenant: src/modules/tenants/finance.ts and the parts   *)
(* of payout.ts that move money between its treasury, the wallets of its   *)
(* members and their cashback obligations.                                 *)
(*                                                                         *)
(* Every operation is one serializable transaction under row locks, hence  *)
(* one action; the interest is in sequences of them.  A transaction that   *)
(* throws, or that a CHECK constraint refuses, changes nothing: its action *)
(* is then disabled.                                                       *)
(***************************************************************************)
EXTENDS Integers, Sequences, FiniteSets, FiniteSetsExt

CONSTANTS
  Members,          \* members of the tenant
  Payouts,          \* payout identifiers
  Orders,           \* funding orders of the tenant
  Transfers,        \* transfer requests of the tenant master, by client key
  CreditAmount,     \* the amount of an order or a transfer
  CoreBalance,      \* what the tenant master's core wallet holds at first
  MaxAmount,        \* bound: the largest cashback and payout amount
  MaxObligations    \* bound: conversions that are ever validated

ASSUME ConstantsAssumption ==
  /\ IsFiniteSet(Members)
  /\ CreditAmount \in [Orders \union Transfers -> Nat \ {0}]
  /\ CoreBalance \in Nat
  /\ MaxAmount \in Nat \ {0}
  /\ MaxObligations \in Nat

VARIABLES
  books,    \* obligations, projections, ledger balances, journal keys in use
  payout,   \* what the payouts hold, and their allocations
  done      \* the orders credited and the transfers made

vars == <<books, payout, done>>

Amounts == 1..MaxAmount
Smaller(x, y) == IF x < y THEN x ELSE y

-----------------------------------------------------------------------------
(* The tables.                                                             *)

ObligationStatuses ==
  {"LOCKED", "PENDING_FUNDING", "AVAILABLE", "RESERVED", "PAID",
   "RECOVERY_REQUIRED", "CANCELLED"}

\* TenantCashbackObligation; due is recoveryRequiredVnd.
Obligation ==
  [owner: Members, amount: Nat, funded: Nat, recovered: Nat, due: Nat,
   reserved: Nat, paid: Nat, status: ObligationStatuses]

\* TenantMemberWalletProjection, TenantTreasuryProjection.
Wallet == [pending: Nat, available: Nat, reserved: Nat, paid: Nat, recovery: Nat]
Treasury == [available: Nat, reserved: Nat, paid: Nat, withdrawn: Nat]

\* Ledger accounts; a debit adds to the balance and a credit takes from it.
Cash == <<"cash">>
Core == <<"core">>
TreasuryAccount == <<"treasury">>
Available(m) == <<"available", m>>
Recovery(m) == <<"recovery", m>>
Reserved(p) == <<"reserved", p>>
\* Idempotency keys of the journals an allocation posts.
Keys == ({"offset"} \X Nat \X Nat \X Nat) \union ({"fund"} \X Nat \X Nat)

Accounts ==
  {Cash, Core, TreasuryAccount} \union {Reserved(p) : p \in Payouts}
  \union {Available(m) : m \in Members} \union {Recovery(m) : m \in Members}

Post(ledger, debit, credit, x) == [ledger EXCEPT ![debit] = @ + x, ![credit] = @ - x]

\* Unfunded cashback of an obligation, and what a payout can take from it.
Pending(r) == r.amount - r.funded - r.recovered
Spendable(r) == IF r.funded > r.reserved + r.paid
                THEN r.funded - r.reserved - r.paid ELSE 0

\* A quantity summed over the obligations of a member.
SumOf(f) == MapThenSumSet(LAMBDA i : f[i], DOMAIN f)
SumOwned(b, m, f(_)) ==
  SumOf([i \in DOMAIN b.obl |-> IF b.obl[i].owner = m THEN f(b.obl[i]) ELSE 0])

NoPayout == [state |-> "NONE"]

Init ==
  /\ books =
       [obl |-> <<>>,
        wallet |-> [m \in Members |-> [pending |-> 0, available |-> 0, reserved |-> 0,
                                       paid |-> 0, recovery |-> 0]],
        treasury |-> [available |-> 0, reserved |-> 0, paid |-> 0, withdrawn |-> 0],
        core |-> CoreBalance,
        ledger |-> [a \in Accounts |-> IF a = Core THEN -CoreBalance ELSE 0],
        keys |-> {}]
  /\ payout = [p \in Payouts |-> NoPayout]
  /\ done = {}

-----------------------------------------------------------------------------
(* Loops over obligations, oldest first.  obl holds them in that order.    *)

SumBefore(caps, i) == MapThenSumSet(LAMBDA j : caps[j], 1..(i - 1))

SplitUncapped(caps, amount) ==
  [i \in DOMAIN caps |-> IF amount <= SumBefore(caps, i) THEN 0 ELSE caps[i]]

\* How much each entry of caps gives when they are emptied in order until the
\* amount is reached.
Split(caps, amount) ==
  [i \in DOMAIN caps |->
     LET left == amount - SumBefore(caps, i)
     IN  IF left <= 0 THEN 0 ELSE Smaller(caps[i], left)]

\* The status every update derives, once recovery and cancellation are ruled out.
Derived(r, settled) ==
  IF r.reserved > 0 THEN "RESERVED"
  ELSE IF settled THEN "PAID"
  ELSE IF Pending(r) > 0 THEN "PENDING_FUNDING"
  ELSE IF r.funded > r.paid THEN "AVAILABLE" ELSE "CANCELLED"

PaidUp(r) == r.paid >= r.funded /\ r.funded > 0

Debt(r) == r.due
DebtOf(b, m) == SumOwned(b, m, Debt)

\* settleTenantRecovery: pay back what the member owes, oldest debt first.
SettleRecovery(obl, m, amount) ==
  LET back == Split([i \in DOMAIN obl |-> IF obl[i].owner = m THEN obl[i].due ELSE 0], amount)
  IN  [i \in DOMAIN obl |->
         LET r == [obl[i] EXCEPT !.due = @ - back[i]]
         IN  IF back[i] = 0 THEN obl[i]
             ELSE [r EXCEPT !.status =
                     IF r.due > 0 THEN "RECOVERY_REQUIRED"
                     ELSE IF r.amount = 0 THEN "CANCELLED"
                     ELSE Derived(r, PaidUp(r))]]

\* consumeOtherAvailableCashback: take back from the member's other obligations.
OtherSpendable(obl, source) ==
  [i \in DOMAIN obl |->
     IF i # source /\ obl[i].owner = obl[source].owner THEN Spendable(obl[i]) ELSE 0]

ConsumeOthers(obl, source, amount) ==
  LET taken == Split(OtherSpendable(obl, source), amount)
  IN  [i \in DOMAIN obl |->
         LET r == [obl[i] EXCEPT !.funded = @ - taken[i], !.recovered = @ + taken[i]]
         IN  IF taken[i] = 0 THEN obl[i]
             ELSE [r EXCEPT !.status = IF r.due > 0 THEN "RECOVERY_REQUIRED"
                                       ELSE Derived(r, PaidUp(r))]]

-----------------------------------------------------------------------------
(* allocatePendingTenantCashback.  A run carries the books, whether the    *)
(* loop has stopped, and whether it has thrown.                            *)

\* What the member owes is taken from the cashback first.
Offset(b, i, x) ==
  LET m == b.obl[i].owner
      w == b.wallet[m]
      settled == SettleRecovery(b.obl, m, x)
  IN  [b EXCEPT !.obl = [settled EXCEPT ![i].recovered = @ + x],
                !.wallet[m] = [w EXCEPT !.pending = @ - x, !.recovery = @ - x],
                !.ledger = Post(@, TreasuryAccount, Recovery(m), x),
                !.keys = @ \union {<<"offset", i, b.obl[i].recovered, x>>}]

FundWithoutDebit(b, i, x) ==
  LET m == b.obl[i].owner
      w == b.wallet[m]
  IN  [b EXCEPT !.obl[i].funded = @ + x,
                !.obl[i].status = "AVAILABLE",
                !.wallet[m] = [w EXCEPT !.pending = @ - x, !.available = @ + x],
                !.ledger = Post(@, TreasuryAccount, Available(m), x)]

Fund(b, i, x) ==
  LET m == b.obl[i].owner
      w == b.wallet[m]
  IN  [b EXCEPT !.obl[i].funded = @ + x,
                !.obl[i].status = "AVAILABLE",
                !.wallet[m] = [w EXCEPT !.pending = @ - x, !.available = @ + x],
                !.treasury.available = @ - x,
                !.treasury.paid = @ + x,
                !.ledger = Post(@, TreasuryAccount, Available(m), x),
                !.keys = @ \union {<<"fund", i, b.obl[i].funded>>}]

AllocateOne(run, i) ==
  LET b == run.books
      r == b.obl[i]
      owed == Smaller(b.wallet[r.owner].recovery, Pending(r))
      rest == Pending(r) - owed
      after == IF owed > 0 THEN Offset(b, i, owed) ELSE b
  IN  IF run.stopped \/ run.thrown \/ Pending(r) <= 0 THEN run
      ELSE IF \/ owed > 0 /\ <<"offset", i, r.recovered, owed>> \in b.keys
              \/ owed > DebtOf(b, r.owner)
      THEN [run EXCEPT !.thrown = TRUE]
      ELSE IF rest = 0
      THEN [run EXCEPT !.books = [after EXCEPT !.obl[i].status = "CANCELLED"]]
      ELSE IF b.treasury.available < rest
      THEN [run EXCEPT !.books = after, !.stopped = TRUE]
      ELSE IF <<"fund", i, r.funded>> \in b.keys
      THEN [run EXCEPT !.books = after]
      ELSE [run EXCEPT !.books = Fund(after, i, rest)]

Waiting(b) == {i \in DOMAIN b.obl : b.obl[i].status = "PENDING_FUNDING"}

Allocate(b) ==
  LET run[i \in 0..Len(b.obl)] ==
        IF i = 0 THEN [books |-> b, stopped |-> FALSE, thrown |-> FALSE]
        ELSE IF i \in Waiting(b) THEN AllocateOne(run[i - 1], i)
        ELSE run[i - 1]
  IN  run[Len(b.obl)]

-----------------------------------------------------------------------------
(* The CHECK constraints: no column goes below zero.                       *)

CommitsWithoutObligations(b) ==
  /\ \A m \in Members : b.wallet[m] \in Wallet
  /\ b.treasury \in Treasury
  /\ b.core >= 0

Commits(b) ==
  /\ \A i \in DOMAIN b.obl : b.obl[i] \in Obligation
  /\ \A m \in Members : b.wallet[m] \in Wallet
  /\ b.treasury \in Treasury
  /\ b.core >= 0

-----------------------------------------------------------------------------
(* syncTenantCashbackObligation, called by applyConversionRevision and     *)
(* ingestConversion when a provider validates or corrects a conversion.    *)
(* No tenant conversion carries availableAt (createFinanceSettlementBatch, *)
(* which sets it, refuses them), so `released` is never true.              *)

Validate(m, amount) ==
  /\ Len(books.obl) < MaxObligations
  /\ books' = [books EXCEPT
       !.obl = Append(@, [owner |-> m, amount |-> amount, funded |-> 0, recovered |-> 0,
                          due |-> 0, reserved |-> 0, paid |-> 0, status |-> "LOCKED"]),
       !.wallet[m].pending = @ + amount]
  /\ UNCHANGED <<payout, done>>

IncreaseByTarget(b, i, target) ==
  [b EXCEPT !.obl[i].amount = target,
            !.obl[i].status = "LOCKED",
            !.wallet[b.obl[i].owner].pending = @ + target]

Increase(b, i, target) ==
  [b EXCEPT !.obl[i].amount = target,
            !.obl[i].status = "LOCKED",
            !.wallet[b.obl[i].owner].pending = @ + target - b.obl[i].amount]

\* A correction downwards takes unfunded cashback first, then what had been
\* withheld for debts, then funded cashback: from the wallet if it is there,
\* from this obligation and then from others, and as a debt otherwise.
Correction(b, i, target) ==
  LET r == b.obl[i]
      reduction == r.amount - target
      pending == Smaller(reduction, Pending(r))
      recovered == Smaller(reduction - pending, r.recovered)
      funded == reduction - pending - recovered
      reclaimed == Smaller(b.wallet[r.owner].available, funded)
  IN  [pending |-> pending, recovered |-> recovered, funded |-> funded,
       reclaimed |-> reclaimed,
       others |-> reclaimed - Smaller(Spendable(r), reclaimed),
       debt |-> recovered + funded - reclaimed]

Reduce(b, i, target) ==
  LET c == Correction(b, i, target)
      m == b.obl[i].owner
      w == b.wallet[m]
      r == [b.obl[i] EXCEPT !.amount = target,
                            !.funded = @ - c.funded,
                            !.recovered = @ - c.recovered,
                            !.due = @ + c.debt]
      status == IF c.debt > 0 THEN "RECOVERY_REQUIRED"
                ELSE IF target = 0 THEN "CANCELLED"
                ELSE Derived(r, PaidUp(r))
  IN  [b EXCEPT !.obl = [ConsumeOthers(@, i, c.others) EXCEPT
                           ![i] = [r EXCEPT !.status = status]],
                !.wallet[m] = [w EXCEPT !.pending = @ - c.pending, !.available = @ - c.reclaimed,
                                        !.recovery = @ + c.debt],
                !.treasury.available = @ + c.reclaimed,
                !.ledger = Post(Post(@, Available(m), TreasuryAccount, c.reclaimed),
                                Recovery(m), TreasuryAccount, c.debt)]

Raise(i, target) ==
  /\ i \in DOMAIN books.obl
  /\ target > books.obl[i].amount
  /\ books' = Increase(books, i, target)
  /\ UNCHANGED <<payout, done>>

Correct(i, target) ==
  /\ i \in DOMAIN books.obl
  /\ target < books.obl[i].amount
  /\ Correction(books, i, target).others <= SumOf(OtherSpendable(books.obl, i))
  /\ books' = Reduce(books, i, target)
  /\ Commits(books')
  /\ UNCHANGED <<payout, done>>

-----------------------------------------------------------------------------
(* Money into the treasury, allocated at once.                             *)

Credited(b, from, x) ==
  Allocate([b EXCEPT !.treasury.available = @ + x,
                     !.ledger = Post(@, from, TreasuryAccount, x)])

\* creditTenantFundingOrder; a webhook for a PAID order is a duplicate.
CreditFundingOrder(o) ==
  LET run == Credited(books, Cash, CreditAmount[o])
  IN  /\ o \notin done
      /\ ~run.thrown
      /\ books' = run.books
      /\ Commits(books')
      /\ done' = done \union {o}
      /\ payout' = payout

TransferWithoutDebit(t) ==
  LET run == Credited(books, Core, CreditAmount[t])
  IN  /\ t \notin done
      /\ books.core >= CreditAmount[t]
      /\ ~run.thrown
      /\ books' = run.books
      /\ Commits(books')
      /\ done' = done \union {t}
      /\ payout' = payout

\* transferMasterWalletToTreasury; a repeated client key returns at once.
TransferFromCore(t) ==
  LET run == Credited([books EXCEPT !.core = @ - CreditAmount[t]], Core, CreditAmount[t])
  IN  /\ t \notin done
      /\ books.core >= CreditAmount[t]
      /\ ~run.thrown
      /\ books' = run.books
      /\ Commits(books')
      /\ done' = done \union {t}
      /\ payout' = payout

-----------------------------------------------------------------------------
(* Payouts: reserveTenantPayout and applyTerminalOutcome.                  *)

\* reserveMemberObligations looks at AVAILABLE obligations only.
Reservable(b, m) ==
  [i \in DOMAIN b.obl |->
     IF b.obl[i].owner = m /\ b.obl[i].status = "AVAILABLE" THEN Spendable(b.obl[i]) ELSE 0]

ReserveShares(obl, share) ==
  [i \in DOMAIN obl |->
     IF share[i] = 0 THEN obl[i]
     ELSE [obl[i] EXCEPT !.reserved = @ + share[i], !.status = "RESERVED"]]

RequestWithdrawal(p, m, x) ==
  LET caps == Reservable(books, m)
      share == Split(caps, x)
      w == books.wallet[m]
  IN  /\ payout[p] = NoPayout
      /\ w.available >= x
      /\ SumOf(caps) >= x
      /\ books' = [books EXCEPT
           !.obl = ReserveShares(@, share),
           !.wallet[m] = [w EXCEPT !.available = @ - x, !.reserved = @ + x],
           !.ledger = Post(@, Available(m), Reserved(p), x)]
      /\ payout' = [payout EXCEPT ![p] = [state |-> "HELD", kind |-> "MEMBER", member |-> m,
                                          amount |-> x, share |-> share]]
      /\ done' = done

RequestTreasury(p, x) ==
  /\ payout[p] = NoPayout
  /\ books.treasury.available >= x
  /\ books' = [books EXCEPT !.treasury.available = @ - x,
                            !.treasury.reserved = @ + x,
                            !.ledger = Post(@, TreasuryAccount, Reserved(p), x)]
  /\ payout' = [payout EXCEPT ![p] = [state |-> "HELD", kind |-> "TREASURY", amount |-> x]]
  /\ done' = done

\* settlePayoutAllocations, of a payout that was paid or of one that was not.
\* Obligations younger than the payout have no share.
SettleAllocations(obl, share, isPaid, recovered) ==
  LET taken == Split(share, recovered)
  IN  [i \in DOMAIN obl |->
         IF i \notin DOMAIN share THEN obl[i]
         ELSE IF share[i] = 0 THEN obl[i]
         ELSE LET r == [obl[i] EXCEPT !.reserved = @ - share[i],
                                      !.paid = @ + IF isPaid THEN share[i] ELSE 0,
                                      !.funded = @ - taken[i],
                                      !.recovered = @ + taken[i]]
              IN  [r EXCEPT !.status =
                     IF r.due > 0 THEN "RECOVERY_REQUIRED"
                     ELSE Derived(r, isPaid /\ r.paid >= r.funded)]]

Paid(b, p) ==
  LET t == payout[p]
      m == t.member
      w == b.wallet[m]
      ledger == Post(b.ledger, Reserved(p), Cash, t.amount)
  IN  IF t.kind = "MEMBER"
      THEN [b EXCEPT !.obl = SettleAllocations(@, t.share, TRUE, 0),
                     !.wallet[m] = [w EXCEPT !.reserved = @ - t.amount, !.paid = @ + t.amount],
                     !.ledger = ledger]
      ELSE [b EXCEPT !.treasury.reserved = @ - t.amount,
                     !.treasury.withdrawn = @ + t.amount,
                     !.ledger = ledger]

\* What the member owes stays with the treasury.
Withheld(b, p) == Smaller(b.wallet[payout[p].member].recovery, payout[p].amount)

CanPayBack(b, p) ==
  payout[p].kind = "MEMBER" => Withheld(b, p) <= DebtOf(b, payout[p].member)

Released(b, p) ==
  LET t == payout[p]
      m == t.member
      w == b.wallet[m]
      owed == Withheld(b, p)
  IN  IF t.kind = "MEMBER"
      THEN [b EXCEPT !.obl = SettleAllocations(SettleRecovery(@, m, owed), t.share, FALSE, owed),
                     !.wallet[m] = [w EXCEPT !.reserved = @ - t.amount, !.available = @ + t.amount - owed,
                                             !.recovery = @ - owed],
                     !.treasury.available = @ + owed,
                     !.ledger = Post(Post(@, Reserved(p), Available(m), t.amount - owed),
                                     Reserved(p), Recovery(m), owed)]
      ELSE [b EXCEPT !.treasury.reserved = @ - t.amount,
                     !.treasury.available = @ + t.amount,
                     !.ledger = Post(@, Reserved(p), TreasuryAccount, t.amount)]

Pay(p) ==
  /\ payout[p].state = "HELD"
  /\ books' = Paid(books, p)
  /\ Commits(books')
  /\ payout' = [payout EXCEPT ![p].state = "PAID"]
  /\ done' = done

Release(p) ==
  /\ payout[p].state = "HELD"
  /\ CanPayBack(books, p)
  /\ books' = Released(books, p)
  /\ Commits(books')
  /\ payout' = [payout EXCEPT ![p].state = "FAILED"]
  /\ done' = done

-----------------------------------------------------------------------------
ConversionNext ==
  \/ \E m \in Members, x \in Amounts : Validate(m, x)
  \/ \E i \in 1..MaxObligations, x \in Amounts : Raise(i, x)
  \/ \E i \in 1..MaxObligations, x \in Amounts \union {0} : Correct(i, x)

PayoutNext(p) ==
  \/ \E m \in Members, x \in Amounts : RequestWithdrawal(p, m, x)
  \/ \E x \in Amounts : RequestTreasury(p, x)
  \/ Pay(p)
  \/ Release(p)

Next ==
  \/ ConversionNext
  \/ \E o \in Orders : CreditFundingOrder(o)
  \/ \E t \in Transfers : TransferFromCore(t)
  \/ \E p \in Payouts : PayoutNext(p)

Spec == Init /\ [][Next]_vars

-----------------------------------------------------------------------------
(* Types.                                                                  *)

Shares == UNION {[1..n -> 0..MaxAmount] : n \in 0..MaxObligations}

\* Rows hold column values the CHECK constraints admit; a payout holds an
\* amount, and a member's payout its shares of the obligations.
TypeOK ==
  /\ books \in [obl: Seq(Obligation), wallet: [Members -> Wallet], treasury: Treasury,
                core: Nat, ledger: [Accounts -> Int], keys: SUBSET Keys]
  /\ Len(books.obl) <= MaxObligations
  /\ payout \in [Payouts ->
        {NoPayout}
        \union [state: {"HELD", "PAID", "FAILED"}, kind: {"TREASURY"}, amount: Amounts]
        \union [state: {"HELD", "PAID", "FAILED"}, kind: {"MEMBER"}, amount: Amounts,
                member: Members, share: Shares]]
  /\ done \subseteq Orders \union Transfers

-----------------------------------------------------------------------------
(* Safety.                                                                 *)

HeldAmount(p) == IF payout[p].state = "HELD" THEN payout[p].amount ELSE 0

\* Every projection is what the append-only ledger adds up to, although no code
\* compares them and each is updated by its own statement.  The treasury's
\* account also carries what members owe: it is credited with a debt when the
\* debt is made, the projection only when it is paid back.
LedgerMatchesProjections ==
  LET ledger == books.ledger
  IN  /\ -ledger[TreasuryAccount] =
           books.treasury.available
           + SumOf([m \in Members |-> books.wallet[m].recovery])
      /\ -ledger[Core] = books.core
      /\ \A m \in Members : /\ -ledger[Available(m)] = books.wallet[m].available
                            /\ ledger[Recovery(m)] = books.wallet[m].recovery
      /\ \A p \in Payouts : -ledger[Reserved(p)] = HeldAmount(p)

\* Except for what is available, the wallet of a member is the sum of the
\* obligations it stands for, so that the internal check of settleTenantRecovery
\* ("không khớp nghĩa vụ") never fires.
WalletsMatchObligations ==
  \A m \in Members :
    LET w == books.wallet[m]
    IN  /\ w.pending = SumOwned(books, m, Pending)
        /\ w.recovery = DebtOf(books, m)
        /\ w.reserved = SumOwned(books, m, LAMBDA r : r.reserved)
        /\ w.paid = SumOwned(books, m, LAMBDA r : r.paid)

\* A member gets the cashback of his valid conversions, no more and no less,
\* through any order of corrections, fundings, debts, payouts and releases:
\* what he was given, has waiting, minus what he owes.
MembersGetTheirCashback ==
  \A m \in Members :
    LET w == books.wallet[m]
    IN  w.pending + w.available + w.reserved + w.paid - w.recovery
          = SumOwned(books, m, LAMBDA r : r.amount)

\* The cash of the tenant and what came from the core wallet cover what
\* treasury, members and held payouts can still take out.
CashCoversPromises ==
  books.ledger[Cash] + CoreBalance - books.core =
    books.treasury.available + books.treasury.reserved
    + SumOf([m \in Members |-> books.wallet[m].available + books.wallet[m].reserved])

-----------------------------------------------------------------------------
(* What the code says of itself, and does not keep.                        *)

\* "Hoàn lại số dư do payout tenant thất bại": a payout that did not happen can
\* be released, so the CHECK constraints never stand in the way.
HeldPayoutsCanBeReleased ==
  \A p \in Payouts : payout[p].state = "HELD" => CanPayBack(books, p) /\ Commits(Released(books, p))

\* What the wallet shows as available is there to be withdrawn or taken back:
\* the errors at the end of reserveMemberObligations and
\* consumeOtherAvailableCashback are internal ones that no request meets.
AvailableIsBacked ==
  \A m \in Members : books.wallet[m].available = SumOwned(books, m, Spendable)
=============================================================================
