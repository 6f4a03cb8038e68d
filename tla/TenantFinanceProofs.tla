------------------------ MODULE TenantFinanceProofs -------------------------
(***************************************************************************)
(* Proofs about the books of a tenant: that ledger, projections and        *)
(* obligations say the same after every operation, for any number of       *)
(* members, obligations, orders and payouts.                               *)
(***************************************************************************)
EXTENDS TenantFinance, SumLemmas

-----------------------------------------------------------------------------
(* Splitting an amount over obligations in their order.                    *)

LEMMA SplitBounds ==
  ASSUME NEW n \in Nat, NEW caps \in [1..n -> Nat], NEW x \in Int
  PROVE  /\ Split(caps, x) \in [1..n -> Nat]
         /\ \A i \in 1..n : Split(caps, x)[i] <= caps[i] /\ (x >= 0 => Split(caps, x)[i] <= x)
<1> SUFFICES ASSUME NEW i \in 1..n
             PROVE  /\ Split(caps, x)[i] \in Nat /\ Split(caps, x)[i] <= caps[i]
                    /\ x >= 0 => Split(caps, x)[i] <= x
  BY DEF Split
<1>1. IsFiniteSet(1..(i - 1)) /\ \A j \in 1..(i - 1) : caps[j] \in Nat
  <2>1. i - 1 \in Int /\ 1..(i - 1) \subseteq 1..n
    OBVIOUS
  <2>2. IsFiniteSet(1..(i - 1))
    BY <2>1, FS_Interval
  <2> QED
    BY <2>1, <2>2
<1>2. SumBefore(caps, i) = Total(caps, 1..(i - 1))
  BY DEF SumBefore, Total
<1>3. SumBefore(caps, i) \in Nat /\ caps[i] \in Nat
  BY <1>1, <1>2, TotalNat
<1> QED
  BY <1>3 DEF Split, Smaller

\* An amount that is there is split completely.
LEMMA SplitSum ==
  ASSUME NEW n \in Nat, NEW caps \in [1..n -> Nat], NEW x \in Nat, x <= Total(caps, 1..n)
  PROVE  Total(Split(caps, x), 1..n) = x
<1> DEFINE s == Split(caps, x)
           A == {k \in Nat : k <= n => Total(s, 1..k) = Smaller(x, Total(caps, 1..k))}
<1>1. s \in [1..n -> Nat]
  <2>1. x \in Int
    OBVIOUS
  <2> HIDE DEF A
  <2>2. Split(caps, x) \in [1..n -> Nat]
    BY <2>1, SplitBounds
  <2> QED
    BY <2>2
<1>2. 0 \in A
  <2>1. 1..0 = {}
    OBVIOUS
  <2>2. Total(s, {}) = 0 /\ Total(caps, {}) = 0
    BY TotalEmpty
  <2> HIDE DEF s
  <2> QED
    BY <2>1, <2>2 DEF Smaller
<1>3. ASSUME NEW k \in Nat, k \in A
      PROVE  k + 1 \in A
  <2> SUFFICES ASSUME k + 1 <= n
               PROVE  Total(s, 1..(k + 1)) = Smaller(x, Total(caps, 1..(k + 1)))
    OBVIOUS
  <2>1. \A j \in 1..(k + 1) : s[j] \in Int /\ caps[j] \in Int
    BY <1>1
  <2>2. Total(s, 1..k) = Smaller(x, Total(caps, 1..k))
    BY <1>3
  <2>3. /\ Total(s, 1..(k + 1)) = Total(s, 1..k) + s[k + 1]
        /\ Total(caps, 1..(k + 1)) = Total(caps, 1..k) + caps[k + 1]
        /\ Total(s, 1..k) \in Int /\ Total(caps, 1..k) \in Int
    BY <2>1, RangeSum
  <2>4. SumBefore(caps, k + 1) = Total(caps, 1..k)
    BY DEF SumBefore, Total
  <2>5. s[k + 1] = IF x - Total(caps, 1..k) <= 0 THEN 0
                   ELSE Smaller(caps[k + 1], x - Total(caps, 1..k))
    BY <2>4 DEF Split
  <2>6. caps[k + 1] \in Nat
    OBVIOUS
  <2> HIDE DEF s, A
  <2> QED
    BY <2>2, <2>3, <2>5, <2>6 DEF Smaller
<1>4. n \in A
  <2> HIDE DEF A
  <2> QED
    BY <1>2, <1>3, NumbersByInduction
<1>5. Total(caps, 1..n) \in Int
  <2>1. IsFiniteSet(1..n)
    BY FS_Interval
  <2> QED
    BY <2>1, TotalInt
<1>6. Total(s, 1..n) = Smaller(x, Total(caps, 1..n))
  <2> HIDE DEF s
  <2> QED
    BY <1>4
<1>7. \A y \in Int : x <= y => Smaller(x, y) = x
  BY DEF Smaller
<1> HIDE DEF A
<1> QED
  BY <1>5, <1>6, <1>7

-----------------------------------------------------------------------------
(* What a member has in his obligations, column by column.                 *)

WaitsOf(o, m) == [i \in DOMAIN o |-> IF o[i].owner = m THEN Pending(o[i]) ELSE 0]
OwesOf(o, m) == [i \in DOMAIN o |-> IF o[i].owner = m THEN o[i].due ELSE 0]
HoldsOf(o, m) == [i \in DOMAIN o |-> IF o[i].owner = m THEN o[i].reserved ELSE 0]
GotOf(o, m) == [i \in DOMAIN o |-> IF o[i].owner = m THEN o[i].paid ELSE 0]
EarnsOf(o, m) == [i \in DOMAIN o |-> IF o[i].owner = m THEN o[i].amount ELSE 0]

Waits(o, m) == Total(WaitsOf(o, m), DOMAIN o)
Owes(o, m) == Total(OwesOf(o, m), DOMAIN o)
Holds(o, m) == Total(HoldsOf(o, m), DOMAIN o)
Got(o, m) == Total(GotOf(o, m), DOMAIN o)
Earns(o, m) == Total(EarnsOf(o, m), DOMAIN o)

Rows(n) == [1..n -> Obligation]

LEMMA SumsOwned ==
  ASSUME NEW b, NEW m
  PROVE  /\ SumOwned(b, m, Pending) = Waits(b.obl, m)
         /\ DebtOf(b, m) = Owes(b.obl, m)
         /\ SumOwned(b, m, LAMBDA r : r.reserved) = Holds(b.obl, m)
         /\ SumOwned(b, m, LAMBDA r : r.paid) = Got(b.obl, m)
         /\ SumOwned(b, m, LAMBDA r : r.amount) = Earns(b.obl, m)
<1>1. SumOwned(b, m, Pending) = Waits(b.obl, m)
  BY DEF SumOwned, SumOf, Waits, WaitsOf, Total
<1>2. DebtOf(b, m) = Owes(b.obl, m)
  BY DEF DebtOf, Debt, SumOwned, SumOf, Owes, OwesOf, Total
<1>3. SumOwned(b, m, LAMBDA r : r.reserved) = Holds(b.obl, m)
  BY DEF SumOwned, SumOf, Holds, HoldsOf, Total
<1>4. SumOwned(b, m, LAMBDA r : r.paid) = Got(b.obl, m)
  BY DEF SumOwned, SumOf, Got, GotOf, Total
<1>5. SumOwned(b, m, LAMBDA r : r.amount) = Earns(b.obl, m)
  BY DEF SumOwned, SumOf, Earns, EarnsOf, Total
<1> QED
  BY <1>1, <1>2, <1>3, <1>4, <1>5

LEMMA ColumnsInt ==
  ASSUME NEW n \in Nat, NEW o \in Rows(n), NEW m
  PROVE  /\ DOMAIN o = 1..n /\ IsFiniteSet(1..n)
         /\ \A i \in 1..n : /\ WaitsOf(o, m)[i] \in Int
                            /\ OwesOf(o, m)[i] \in Nat
                            /\ HoldsOf(o, m)[i] \in Nat
                            /\ GotOf(o, m)[i] \in Nat
                            /\ EarnsOf(o, m)[i] \in Nat
         /\ Waits(o, m) \in Int /\ Owes(o, m) \in Nat /\ Holds(o, m) \in Nat
         /\ Got(o, m) \in Nat /\ Earns(o, m) \in Nat
<1>1. DOMAIN o = 1..n
  BY DEF Rows
<1>2. IsFiniteSet(1..n)
  BY FS_Interval
<1>3. ASSUME NEW i \in 1..n
      PROVE  /\ WaitsOf(o, m)[i] \in Int
             /\ OwesOf(o, m)[i] \in Nat
             /\ HoldsOf(o, m)[i] \in Nat
             /\ GotOf(o, m)[i] \in Nat
             /\ EarnsOf(o, m)[i] \in Nat
  <2>1. o[i] \in Obligation
    BY DEF Rows
  <2> QED
    BY <1>1, <2>1 DEF WaitsOf, OwesOf, HoldsOf, GotOf, EarnsOf, Obligation, Pending
<1>4. /\ Waits(o, m) \in Int /\ Owes(o, m) \in Nat /\ Holds(o, m) \in Nat
      /\ Got(o, m) \in Nat /\ Earns(o, m) \in Nat
  BY <1>1, <1>2, <1>3, TotalInt, TotalNat DEF Waits, Owes, Holds, Got, Earns
<1> QED
  BY <1>1, <1>2, <1>3, <1>4

\* Rows of which no column that is summed changes.
LEMMA SameSums ==
  ASSUME NEW n \in Nat, NEW o \in Rows(n), NEW q \in Rows(n), NEW m
  PROVE  /\ (\A i \in 1..n : q[i].owner = o[i].owner /\ Pending(q[i]) = Pending(o[i]))
              => Waits(q, m) = Waits(o, m)
         /\ (\A i \in 1..n : q[i].owner = o[i].owner /\ q[i].due = o[i].due)
              => Owes(q, m) = Owes(o, m)
         /\ (\A i \in 1..n : q[i].owner = o[i].owner /\ q[i].reserved = o[i].reserved)
              => Holds(q, m) = Holds(o, m)
         /\ (\A i \in 1..n : q[i].owner = o[i].owner /\ q[i].paid = o[i].paid)
              => Got(q, m) = Got(o, m)
         /\ (\A i \in 1..n : q[i].owner = o[i].owner /\ q[i].amount = o[i].amount)
              => Earns(q, m) = Earns(o, m)
<1>1. DOMAIN o = 1..n /\ DOMAIN q = 1..n
  BY DEF Rows
<1> QED
  BY <1>1 DEF Waits, WaitsOf, Owes, OwesOf, Holds, HoldsOf, Got, GotOf, Earns, EarnsOf

\* One row changes.
LEMMA OneRow ==
  ASSUME NEW n \in Nat, NEW o \in Rows(n), NEW q \in Rows(n), NEW k \in 1..n, NEW m,
         \A i \in 1..n : i # k => q[i] = o[i], q[k].owner = o[k].owner
  PROVE  /\ o[k].owner # m => /\ Waits(q, m) = Waits(o, m) /\ Owes(q, m) = Owes(o, m)
                              /\ Holds(q, m) = Holds(o, m) /\ Got(q, m) = Got(o, m)
                              /\ Earns(q, m) = Earns(o, m)
         /\ o[k].owner = m =>
              /\ Waits(q, m) = Waits(o, m) + Pending(q[k]) - Pending(o[k])
              /\ Owes(q, m) = Owes(o, m) + q[k].due - o[k].due
              /\ Holds(q, m) = Holds(o, m) + q[k].reserved - o[k].reserved
              /\ Got(q, m) = Got(o, m) + q[k].paid - o[k].paid
              /\ Earns(q, m) = Earns(o, m) + q[k].amount - o[k].amount
<1>1. DOMAIN o = 1..n /\ DOMAIN q = 1..n /\ IsFiniteSet(1..n)
  BY ColumnsInt
<1>2. CASE o[k].owner # m
  BY <1>1, <1>2 DEF Waits, WaitsOf, Owes, OwesOf, Holds, HoldsOf, Got, GotOf, Earns, EarnsOf
<1>3. CASE o[k].owner = m
  <2>1. Waits(q, m) = Waits(o, m) + WaitsOf(q, m)[k] - WaitsOf(o, m)[k]
    <3>1. \A i \in 1..n : i # k => WaitsOf(q, m)[i] = WaitsOf(o, m)[i]
      BY <1>1 DEF WaitsOf
    <3>2. \A i \in 1..n : WaitsOf(q, m)[i] \in Int /\ WaitsOf(o, m)[i] \in Int
      BY ColumnsInt
    <3> QED
      BY <1>1, <3>1, <3>2, TotalChange DEF Waits
  <2>2. Owes(q, m) = Owes(o, m) + OwesOf(q, m)[k] - OwesOf(o, m)[k]
    <3>1. \A i \in 1..n : i # k => OwesOf(q, m)[i] = OwesOf(o, m)[i]
      BY <1>1 DEF OwesOf
    <3>2. \A i \in 1..n : OwesOf(q, m)[i] \in Int /\ OwesOf(o, m)[i] \in Int
      BY ColumnsInt
    <3> QED
      BY <1>1, <3>1, <3>2, TotalChange DEF Owes
  <2>3. Holds(q, m) = Holds(o, m) + HoldsOf(q, m)[k] - HoldsOf(o, m)[k]
    <3>1. \A i \in 1..n : i # k => HoldsOf(q, m)[i] = HoldsOf(o, m)[i]
      BY <1>1 DEF HoldsOf
    <3>2. \A i \in 1..n : HoldsOf(q, m)[i] \in Int /\ HoldsOf(o, m)[i] \in Int
      BY ColumnsInt
    <3> QED
      BY <1>1, <3>1, <3>2, TotalChange DEF Holds
  <2>4. Got(q, m) = Got(o, m) + GotOf(q, m)[k] - GotOf(o, m)[k]
    <3>1. \A i \in 1..n : i # k => GotOf(q, m)[i] = GotOf(o, m)[i]
      BY <1>1 DEF GotOf
    <3>2. \A i \in 1..n : GotOf(q, m)[i] \in Int /\ GotOf(o, m)[i] \in Int
      BY ColumnsInt, SMTT(20)
    <3> QED
      BY <1>1, <3>1, <3>2, TotalChange DEF Got
  <2>5. Earns(q, m) = Earns(o, m) + EarnsOf(q, m)[k] - EarnsOf(o, m)[k]
    <3>1. \A i \in 1..n : i # k => EarnsOf(q, m)[i] = EarnsOf(o, m)[i]
      BY <1>1 DEF EarnsOf
    <3>2. \A i \in 1..n : EarnsOf(q, m)[i] \in Int /\ EarnsOf(o, m)[i] \in Int
      BY ColumnsInt
    <3> QED
      BY <1>1, <3>1, <3>2, TotalChange DEF Earns
  <2> QED
    BY <1>1, <1>3, <2>1, <2>2, <2>3, <2>4, <2>5 DEF WaitsOf, OwesOf, HoldsOf, GotOf, EarnsOf
<1> QED
  BY <1>2, <1>3

-----------------------------------------------------------------------------
(* The loops over obligations.                                             *)

\* Apart from the columns named, a row keeps what it says.
SameButDue(r, s) ==
  /\ s.owner = r.owner /\ s.amount = r.amount /\ s.funded = r.funded
  /\ s.recovered = r.recovered /\ s.reserved = r.reserved /\ s.paid = r.paid

LEMMA DerivedType ==
  ASSUME NEW r, NEW settled PROVE Derived(r, settled) \in ObligationStatuses
BY DEF Derived, ObligationStatuses

\* settleTenantRecovery takes the amount off what the member owes.
LEMMA SettleRecoveryEffect ==
  ASSUME NEW n \in Nat, NEW o \in Rows(n), NEW m, NEW x \in Nat, x <= Owes(o, m)
  PROVE  /\ SettleRecovery(o, m, x) \in Rows(n)
         /\ \A i \in 1..n : SameButDue(o[i], SettleRecovery(o, m, x)[i])
         /\ Owes(SettleRecovery(o, m, x), m) = Owes(o, m) - x
         /\ \A z : z # m => Owes(SettleRecovery(o, m, x), z) = Owes(o, z)
<1> DEFINE back == Split(OwesOf(o, m), x)
           q == SettleRecovery(o, m, x)
<1>1. /\ DOMAIN o = 1..n /\ IsFiniteSet(1..n) /\ OwesOf(o, m) \in [1..n -> Nat]
      /\ \A i \in 1..n : o[i] \in Obligation
  BY ColumnsInt DEF OwesOf, Rows
<1>2. \A i \in 1..n : back[i] \in Nat /\ back[i] <= OwesOf(o, m)[i]
  <2>1. x \in Int
    OBVIOUS
  <2>2. /\ back \in [1..n -> Nat]
        /\ \A i \in 1..n : back[i] <= OwesOf(o, m)[i]
    BY <1>1, <2>1, SplitBounds
  <2> HIDE DEF back
  <2> QED
    BY <2>2
<1>3. Total(back, 1..n) = x
  BY <1>1, SplitSum DEF Owes
<1>4. q = [i \in 1..n |->
             IF back[i] = 0 THEN o[i]
             ELSE [[o[i] EXCEPT !.due = @ - back[i]] EXCEPT !.status =
                     IF [o[i] EXCEPT !.due = @ - back[i]].due > 0 THEN "RECOVERY_REQUIRED"
                     ELSE IF [o[i] EXCEPT !.due = @ - back[i]].amount = 0 THEN "CANCELLED"
                     ELSE Derived([o[i] EXCEPT !.due = @ - back[i]],
                                  PaidUp([o[i] EXCEPT !.due = @ - back[i]]))]]
  BY <1>1 DEF SettleRecovery, OwesOf
<1>5. ASSUME NEW i \in 1..n
      PROVE  /\ q[i] \in Obligation /\ SameButDue(o[i], q[i])
             /\ q[i].due = o[i].due - back[i]
  <2>1. o[i].due \in Nat /\ back[i] \in Nat /\ back[i] <= o[i].due
    <3> HIDE DEF back, q
    <3>1. o[i].due \in Nat
      BY <1>1 DEF Obligation
    <3>2. OwesOf(o, m)[i] = IF o[i].owner = m THEN o[i].due ELSE 0
      BY <1>1 DEF OwesOf
    <3> QED
      BY <1>2, <3>1, <3>2
  <2>2. PICK s \in ObligationStatuses :
          q[i] = IF back[i] = 0 THEN o[i]
                 ELSE [[o[i] EXCEPT !.due = @ - back[i]] EXCEPT !.status = s]
    <3> HIDE DEF back, q
    <3> QED
      BY <1>4, DerivedType DEF ObligationStatuses
  <2> HIDE DEF back, q
  <2>3. o[i] \in Obligation
    BY <1>1
  <2>4. CASE back[i] = 0
    BY <2>1, <2>2, <2>3, <2>4 DEF SameButDue, Obligation
  <2>5. CASE back[i] # 0
    <3>1. q[i] = [o[i] EXCEPT !.due = o[i].due - back[i], !.status = s]
      BY <2>2, <2>3, <2>5 DEF Obligation
    <3>2. o[i].due - back[i] \in Nat
      BY <2>1
    <3> QED
      BY <2>3, <3>1, <3>2 DEF SameButDue, Obligation
  <2> QED
    BY <2>4, <2>5
<1>6. q \in Rows(n) /\ DOMAIN q = 1..n
  <2> HIDE DEF back, q
  <2> QED
    BY <1>4, <1>5 DEF Rows
<1>7. Owes(q, m) = Owes(o, m) - x
  <2>1. \A i \in 1..n : /\ OwesOf(q, m)[i] \in Int /\ back[i] \in Int
                        /\ OwesOf(o, m)[i] = OwesOf(q, m)[i] + back[i]
    <3> TAKE i \in 1..n
    <3>1. back[i] \in Nat /\ back[i] <= OwesOf(o, m)[i] /\ o[i].due \in Nat
      BY <1>1, <1>2 DEF Obligation
    <3>2. q[i].owner = o[i].owner /\ q[i].due = o[i].due - back[i]
      BY <1>5 DEF SameButDue
    <3> HIDE DEF back, q
    <3> QED
      BY <1>1, <1>6, <3>1, <3>2 DEF OwesOf
  <2>2. Total(OwesOf(o, m), 1..n) = Total(OwesOf(q, m), 1..n) + Total(back, 1..n)
    <3> HIDE DEF back, q
    <3> QED
      BY <1>1, <2>1, TotalPlus
  <2>3. Total(OwesOf(q, m), 1..n) \in Int
    BY <1>1, <2>1, TotalInt
  <2> HIDE DEF back, q
  <2> QED
    BY <1>1, <1>3, <1>6, <2>2, <2>3 DEF Owes
<1>8. ASSUME NEW z, z # m PROVE Owes(q, z) = Owes(o, z)
  <2>1. \A i \in 1..n : OwesOf(q, z)[i] = OwesOf(o, z)[i]
    <3> TAKE i \in 1..n
    <3> HIDE DEF back, q
    <3>1. o[i].due \in Nat /\ back[i] \in Nat /\ (o[i].owner # m => back[i] = 0)
      BY <1>1, <1>2 DEF OwesOf, Obligation
    <3> QED
      BY <1>1, <1>5, <1>6, <1>8, <3>1 DEF OwesOf, SameButDue
  <2> HIDE DEF back, q
  <2> QED
    BY <1>1, <1>6, <2>1, TotalExtends DEF Owes
<1> QED
  BY <1>5, <1>6, <1>7, <1>8

\* consumeOtherAvailableCashback moves funded to recovered, and no more.
LEMMA ConsumeOthersEffect ==
  ASSUME NEW n \in Nat, NEW o \in Rows(n), NEW k \in 1..n, NEW x \in Int
  PROVE  /\ DOMAIN ConsumeOthers(o, k, x) = 1..n
         /\ ConsumeOthers(o, k, x)[k] = o[k]
         /\ \A i \in 1..n : LET q == ConsumeOthers(o, k, x)[i]
                            IN  /\ q.owner = o[i].owner /\ q.amount = o[i].amount
                                /\ q.due = o[i].due /\ q.reserved = o[i].reserved
                                /\ q.paid = o[i].paid /\ Pending(q) = Pending(o[i])
<1> DEFINE taken == Split(OtherSpendable(o, k), x)
           q == ConsumeOthers(o, k, x)
<1>1. DOMAIN o = 1..n /\ \A i \in 1..n : o[i] \in Obligation
  BY DEF Rows
<1>2. OtherSpendable(o, k) \in [1..n -> Nat]
  <2>1. \A i \in 1..n : Spendable(o[i]) \in Nat
    BY <1>1 DEF Spendable, Obligation
  <2> QED
    BY <1>1, <2>1 DEF OtherSpendable
<1>3. \A i \in 1..n : taken[i] \in Nat /\ taken[i] <= OtherSpendable(o, k)[i]
  <2>1. /\ taken \in [1..n -> Nat]
        /\ \A i \in 1..n : taken[i] <= OtherSpendable(o, k)[i]
    BY <1>2, SplitBounds
  <2> HIDE DEF taken
  <2> QED
    BY <2>1
<1>4. taken[k] = 0
  BY <1>1, <1>3 DEF OtherSpendable
<1>5. q = [i \in 1..n |->
             IF taken[i] = 0 THEN o[i]
             ELSE [[o[i] EXCEPT !.funded = @ - taken[i], !.recovered = @ + taken[i]]
                   EXCEPT !.status =
                     IF [o[i] EXCEPT !.funded = @ - taken[i],
                                     !.recovered = @ + taken[i]].due > 0
                     THEN "RECOVERY_REQUIRED"
                     ELSE Derived([o[i] EXCEPT !.funded = @ - taken[i],
                                               !.recovered = @ + taken[i]],
                                  PaidUp([o[i] EXCEPT !.funded = @ - taken[i],
                                                      !.recovered = @ + taken[i]]))]]
  BY <1>1 DEF ConsumeOthers
<1>6. ASSUME NEW i \in 1..n
      PROVE  /\ q[i].owner = o[i].owner /\ q[i].amount = o[i].amount
             /\ q[i].due = o[i].due /\ q[i].reserved = o[i].reserved
             /\ q[i].paid = o[i].paid /\ Pending(q[i]) = Pending(o[i])
  <2>1. PICK s : q[i] = IF taken[i] = 0 THEN o[i]
                        ELSE [[o[i] EXCEPT !.funded = @ - taken[i], !.recovered = @ + taken[i]]
                              EXCEPT !.status = s]
    <3> HIDE DEF taken, q
    <3> QED
      BY <1>5
  <2>2. taken[i] \in Nat
    BY <1>3
  <2> HIDE DEF taken, q
  <2>3. o[i] \in Obligation
    BY <1>1
  <2>4. CASE taken[i] = 0
    BY <2>1, <2>4
  <2>5. CASE taken[i] # 0
    <3>1. q[i] = [o[i] EXCEPT !.funded = o[i].funded - taken[i],
                              !.recovered = o[i].recovered + taken[i], !.status = s]
      BY <2>1, <2>3, <2>5 DEF Obligation
    <3> QED
      BY <2>2, <2>3, <3>1 DEF Pending, Obligation
  <2> QED
    BY <2>4, <2>5
<1> HIDE DEF taken, q
<1>7. DOMAIN q = 1..n /\ q[k] = o[k]
  BY <1>4, <1>5
<1> USE DEF q
<1> QED
  BY <1>6, <1>7

\* What is reserved, or paid, moves by shares of one member's obligations.
LEMMA HoldsShift ==
  ASSUME NEW n \in Nat, NEW o \in Rows(n), NEW q \in Rows(n), NEW d \in [1..n -> Int], NEW m,
         \A i \in 1..n : /\ q[i].owner = o[i].owner
                         /\ q[i].reserved = o[i].reserved + d[i]
                         /\ d[i] # 0 => o[i].owner = m
  PROVE  /\ Holds(q, m) = Holds(o, m) + Total(d, 1..n)
         /\ \A z : z # m => Holds(q, z) = Holds(o, z)
<1>1. DOMAIN o = 1..n /\ DOMAIN q = 1..n /\ IsFiniteSet(1..n)
  BY ColumnsInt
<1>2. \A i \in 1..n : o[i] \in Obligation /\ o[i].reserved \in Nat
  BY DEF Rows, Obligation
<1>3. \A i \in 1..n : /\ HoldsOf(o, m)[i] \in Int /\ d[i] \in Int
                      /\ HoldsOf(q, m)[i] = HoldsOf(o, m)[i] + d[i]
  <2> TAKE i \in 1..n
  <2>1. /\ HoldsOf(o, m)[i] = IF o[i].owner = m THEN o[i].reserved ELSE 0
        /\ HoldsOf(q, m)[i] = IF q[i].owner = m THEN q[i].reserved ELSE 0
    BY <1>1 DEF HoldsOf
  <2>2. d[i] \in Int /\ o[i].reserved \in Int
    BY <1>2
  <2>3. CASE o[i].owner = m
    BY <2>1, <2>2, <2>3
  <2>4. CASE o[i].owner # m
    BY <2>1, <2>2, <2>4
  <2> QED
    BY <2>3, <2>4
<1>4. Holds(q, m) = Holds(o, m) + Total(d, 1..n)
  BY <1>1, <1>3, TotalPlus, SMTT(20) DEF Holds
<1>5. ASSUME NEW z, z # m PROVE Holds(q, z) = Holds(o, z)
  <2>1. \A i \in 1..n : HoldsOf(q, z)[i] = HoldsOf(o, z)[i]
    BY <1>1, <1>2, <1>5 DEF HoldsOf
  <2> QED
    BY <1>1, <2>1, TotalExtends DEF Holds
<1> QED
  BY <1>4, <1>5

LEMMA GotShift ==
  ASSUME NEW n \in Nat, NEW o \in Rows(n), NEW q \in Rows(n), NEW d \in [1..n -> Int], NEW m,
         \A i \in 1..n : /\ q[i].owner = o[i].owner
                         /\ q[i].paid = o[i].paid + d[i]
                         /\ d[i] # 0 => o[i].owner = m
  PROVE  /\ Got(q, m) = Got(o, m) + Total(d, 1..n)
         /\ \A z : z # m => Got(q, z) = Got(o, z)
<1>1. DOMAIN o = 1..n /\ DOMAIN q = 1..n /\ IsFiniteSet(1..n)
  BY ColumnsInt
<1>2. \A i \in 1..n : o[i] \in Obligation /\ o[i].paid \in Nat
  BY DEF Rows, Obligation
<1>3. \A i \in 1..n : /\ GotOf(o, m)[i] \in Int /\ d[i] \in Int
                      /\ GotOf(q, m)[i] = GotOf(o, m)[i] + d[i]
  <2> TAKE i \in 1..n
  <2>1. /\ GotOf(o, m)[i] = IF o[i].owner = m THEN o[i].paid ELSE 0
        /\ GotOf(q, m)[i] = IF q[i].owner = m THEN q[i].paid ELSE 0
    BY <1>1 DEF GotOf
  <2>2. d[i] \in Int /\ o[i].paid \in Int
    BY <1>2
  <2>3. CASE o[i].owner = m
    BY <2>1, <2>2, <2>3
  <2>4. CASE o[i].owner # m
    BY <2>1, <2>2, <2>4
  <2> QED
    BY <2>3, <2>4
<1>4. Got(q, m) = Got(o, m) + Total(d, 1..n)
  BY <1>1, <1>3, TotalPlus, SMTT(20) DEF Got
<1>5. ASSUME NEW z, z # m PROVE Got(q, z) = Got(o, z)
  <2>1. \A i \in 1..n : GotOf(q, z)[i] = GotOf(o, z)[i]
    BY <1>1, <1>2, <1>5 DEF GotOf
  <2> QED
    BY <1>1, <2>1, TotalExtends DEF Got
<1> QED
  BY <1>4, <1>5

\* The shares of a payout, over all obligations of now.
Padded(share, n) == [i \in 1..n |-> IF i \in DOMAIN share THEN share[i] ELSE 0]

LEMMA PaddedSum ==
  ASSUME NEW n \in Nat, NEW k \in 0..n, NEW share \in [1..k -> Nat]
  PROVE  Padded(share, n) \in [1..n -> Nat] /\ Total(Padded(share, n), 1..n) = Total(share, 1..k)
<1>1. 1..k \subseteq 1..n /\ IsFiniteSet(1..n) /\ IsFiniteSet(1..k) /\ DOMAIN share = 1..k
  <2>1. k \in Int
    OBVIOUS
  <2>2. IsFiniteSet(1..k)
    BY <2>1, FS_Interval
  <2>3. IsFiniteSet(1..n)
    BY FS_Interval
  <2> QED
    BY <2>2, <2>3
<1>2. Padded(share, n) \in [1..n -> Nat]
  BY <1>1 DEF Padded
<1>3. \A i \in 1..n : Padded(share, n)[i] = IF i \in 1..k THEN share[i] ELSE 0
  BY <1>1 DEF Padded
<1>4. Total(Padded(share, n), 1..n) = Total(Padded(share, n), 1..k)
  BY <1>1, <1>2, <1>3, TotalWithin
<1>5. Total(Padded(share, n), 1..k) = Total(share, 1..k)
  BY <1>1, <1>3, TotalExtends
<1> QED
  BY <1>2, <1>4, <1>5

LEMMA SettleAllocationsEffect ==
  ASSUME NEW n \in Nat, NEW o \in Rows(n), NEW k \in 0..n, NEW share \in [1..k -> Nat],
         NEW isPaid \in BOOLEAN, NEW x \in Int,
         SettleAllocations(o, share, isPaid, x) \in Rows(n)
  PROVE  \A i \in 1..n :
           LET q == SettleAllocations(o, share, isPaid, x)[i]
           IN  /\ q.owner = o[i].owner /\ q.amount = o[i].amount /\ q.due = o[i].due
               /\ Pending(q) = Pending(o[i])
               /\ q.reserved = o[i].reserved - Padded(share, n)[i]
               /\ q.paid = o[i].paid + (IF isPaid THEN Padded(share, n)[i] ELSE 0)
<1> DEFINE taken == Split(share, x)
           q == SettleAllocations(o, share, isPaid, x)
<1>1. DOMAIN o = 1..n /\ DOMAIN share = 1..k /\ \A i \in 1..n : o[i] \in Obligation
  BY DEF Rows
<1>2. taken \in [1..k -> Nat]
  <2>1. k \in Nat
    OBVIOUS
  <2> HIDE DEF q
  <2> QED
    BY <2>1, SplitBounds
<1> SUFFICES ASSUME NEW i \in 1..n
             PROVE  /\ q[i].owner = o[i].owner /\ q[i].amount = o[i].amount /\ q[i].due = o[i].due
                    /\ Pending(q[i]) = Pending(o[i])
                    /\ q[i].reserved = o[i].reserved - Padded(share, n)[i]
                    /\ q[i].paid = o[i].paid + (IF isPaid THEN Padded(share, n)[i] ELSE 0)
  OBVIOUS
<1>3. o[i] \in Obligation
  BY <1>1
<1>4. CASE i \notin 1..k \/ share[i] = 0
  <2>1. q[i] = o[i]
    BY <1>1, <1>4 DEF SettleAllocations
  <2>2. Padded(share, n)[i] = 0
    BY <1>1, <1>4 DEF Padded
  <2> HIDE DEF q
  <2> QED
    BY <1>3, <2>1, <2>2 DEF Obligation
<1>5. CASE i \in 1..k /\ share[i] # 0
  <2>1. PICK s : q[i] = [o[i] EXCEPT !.reserved = @ - share[i],
                                     !.paid = @ + IF isPaid THEN share[i] ELSE 0,
                                     !.funded = @ - taken[i],
                                     !.recovered = @ + taken[i],
                                     !.status = s]
    <3>1. PICK s : q[i] = [[o[i] EXCEPT !.reserved = @ - share[i],
                                        !.paid = @ + IF isPaid THEN share[i] ELSE 0,
                                        !.funded = @ - taken[i],
                                        !.recovered = @ + taken[i]] EXCEPT !.status = s]
      BY <1>1, <1>5 DEF SettleAllocations
    <3> HIDE DEF q, taken
    <3> QED
      BY <1>3, <3>1 DEF Obligation
  <2>2. Padded(share, n)[i] = share[i]
    BY <1>1, <1>5 DEF Padded
  <2>3. taken[i] \in Nat /\ share[i] \in Nat
    <3> HIDE DEF taken
    <3> QED
      BY <1>2, <1>5
  <2> HIDE DEF q, taken
  <2> QED
    BY <1>3, <2>1, <2>2, <2>3, SMTT(20) DEF Obligation, Pending
<1> QED
  BY <1>4, <1>5

-----------------------------------------------------------------------------
(* Books, in the middle of an operation too: no CHECK constraint yet.      *)

LooseWallet == [pending: Int, available: Int, reserved: Int, paid: Int, recovery: Int]
LooseTreasury == [available: Int, reserved: Int, paid: Int, withdrawn: Int]
Loose(n) ==
  [obl: Rows(n), wallet: [Members -> LooseWallet], treasury: LooseTreasury,
   core: Int, ledger: [Accounts -> Int], keys: SUBSET Keys]

DebtsOf(b) == [m \in Members |-> b.wallet[m].recovery]
FundsOf(b) == [m \in Members |-> b.wallet[m].available + b.wallet[m].reserved]
Debts(b) == Total(DebtsOf(b), Members)
Funds(b) == Total(FundsOf(b), Members)

\* The obligations stay with their owners.
SameOwners(b, c, n) == \A j \in 1..n : c.obl[j].owner = b.obl[j].owner

\* Wallets and obligations.
RowFits(b, m) ==
  LET w == b.wallet[m]
  IN  /\ w.pending = Waits(b.obl, m)
      /\ w.recovery = Owes(b.obl, m)
      /\ w.reserved = Holds(b.obl, m)
      /\ w.paid = Got(b.obl, m)
      /\ w.pending + w.available + w.reserved + w.paid - w.recovery = Earns(b.obl, m)

\* Ledger and projections; h is what each payout holds.
LedgerFits(b, h) ==
  /\ -b.ledger[TreasuryAccount] = b.treasury.available + Debts(b)
  /\ -b.ledger[Core] = b.core
  /\ \A m \in Members : /\ -b.ledger[Available(m)] = b.wallet[m].available
                        /\ b.ledger[Recovery(m)] = b.wallet[m].recovery
  /\ \A p \in Payouts : -b.ledger[Reserved(p)] = h[p]
CashFits(b) ==
  b.ledger[Cash] + CoreBalance - b.core = b.treasury.available + b.treasury.reserved + Funds(b)

Fits(b, h) == (\A m \in Members : RowFits(b, m)) /\ LedgerFits(b, h) /\ CashFits(b)

LEMMA AccountNames ==
  /\ Cash \in Accounts /\ Core \in Accounts /\ TreasuryAccount \in Accounts
  /\ Cash # Core /\ Cash # TreasuryAccount /\ Core # TreasuryAccount
  /\ \A m \in Members : /\ Available(m) \in Accounts /\ Recovery(m) \in Accounts
                        /\ Available(m) \notin {Cash, Core, TreasuryAccount}
                        /\ Recovery(m) \notin {Cash, Core, TreasuryAccount}
  /\ \A p \in Payouts : /\ Reserved(p) \in Accounts
                        /\ Reserved(p) \notin {Cash, Core, TreasuryAccount}
  /\ \A m, z \in Members : /\ Available(m) # Recovery(z)
                           /\ m # z => Available(m) # Available(z) /\ Recovery(m) # Recovery(z)
  /\ \A m \in Members, p \in Payouts : Reserved(p) # Available(m) /\ Reserved(p) # Recovery(m)
  /\ \A p, q \in Payouts : p # q => Reserved(p) # Reserved(q)
<1>1. /\ Cash \in Accounts /\ Core \in Accounts /\ TreasuryAccount \in Accounts
      /\ \A m \in Members : Available(m) \in Accounts /\ Recovery(m) \in Accounts
      /\ \A p \in Payouts : Reserved(p) \in Accounts
  BY DEF Accounts
<1>2. Cash # Core /\ Cash # TreasuryAccount /\ Core # TreasuryAccount
  BY DEF Cash, Core, TreasuryAccount
<1>3. \A m \in Members : /\ Available(m) \notin {Cash, Core, TreasuryAccount}
                         /\ Recovery(m) \notin {Cash, Core, TreasuryAccount}
  BY DEF Cash, Core, TreasuryAccount, Available, Recovery
<1>4. \A p \in Payouts : Reserved(p) \notin {Cash, Core, TreasuryAccount}
  BY DEF Cash, Core, TreasuryAccount, Reserved
<1>5. \A m, z \in Members : /\ Available(m) # Recovery(z)
                            /\ m # z => Available(m) # Available(z) /\ Recovery(m) # Recovery(z)
  BY DEF Available, Recovery
<1>6. \A m \in Members, p \in Payouts : Reserved(p) # Available(m) /\ Reserved(p) # Recovery(m)
  BY DEF Available, Recovery, Reserved
<1>7. \A p, q \in Payouts : p # q => Reserved(p) # Reserved(q)
  BY DEF Reserved
<1> QED
  BY <1>1, <1>2, <1>3, <1>4, <1>5, <1>6, <1>7

\* One wallet changes.
LEMMA OneWallet ==
  ASSUME NEW b, NEW c, NEW m \in Members,
         b.wallet \in [Members -> LooseWallet], c.wallet \in [Members -> LooseWallet],
         \A z \in Members : z # m => c.wallet[z] = b.wallet[z]
  PROVE  /\ Debts(b) \in Int /\ Funds(b) \in Int
         /\ Debts(c) = Debts(b) + c.wallet[m].recovery - b.wallet[m].recovery
         /\ Funds(c) = Funds(b) + c.wallet[m].available + c.wallet[m].reserved
                                - b.wallet[m].available - b.wallet[m].reserved
<1>1. IsFiniteSet(Members)
  BY ConstantsAssumption
<1>2. \A z \in Members :
        /\ b.wallet[z].recovery \in Int /\ c.wallet[z].recovery \in Int
        /\ b.wallet[z].available \in Int /\ c.wallet[z].available \in Int
        /\ b.wallet[z].reserved \in Int /\ c.wallet[z].reserved \in Int
  BY DEF LooseWallet
<1>3. \A z \in Members : /\ DebtsOf(b)[z] \in Int /\ DebtsOf(c)[z] \in Int
                         /\ FundsOf(b)[z] \in Int /\ FundsOf(c)[z] \in Int
                         /\ z # m => DebtsOf(c)[z] = DebtsOf(b)[z] /\ FundsOf(c)[z] = FundsOf(b)[z]
  BY <1>2 DEF DebtsOf, FundsOf
<1>4. Debts(b) \in Int /\ Funds(b) \in Int
  BY <1>1, <1>3, TotalInt DEF Debts, Funds
<1>5. Debts(c) = Debts(b) + DebtsOf(c)[m] - DebtsOf(b)[m]
  BY <1>1, <1>3, TotalChange DEF Debts
<1>6. Funds(c) = Funds(b) + FundsOf(c)[m] - FundsOf(b)[m]
  BY <1>1, <1>3, TotalChange DEF Funds
<1>7. DebtsOf(c)[m] = c.wallet[m].recovery /\ DebtsOf(b)[m] = b.wallet[m].recovery
  BY DEF DebtsOf
<1>8. /\ FundsOf(c)[m] = c.wallet[m].available + c.wallet[m].reserved
      /\ FundsOf(b)[m] = b.wallet[m].available + b.wallet[m].reserved
  BY DEF FundsOf
<1> QED
  BY <1>2, <1>4, <1>5, <1>6, <1>7, <1>8

\* No wallet changes.
LEMMA SameWallets ==
  ASSUME NEW b, NEW c, b.wallet \in [Members -> LooseWallet], c.wallet = b.wallet
  PROVE  Debts(b) \in Int /\ Funds(b) \in Int /\ Debts(c) = Debts(b) /\ Funds(c) = Funds(b)
<1>1. IsFiniteSet(Members)
  BY ConstantsAssumption
<1>2. \A z \in Members : DebtsOf(b)[z] \in Int /\ FundsOf(b)[z] \in Int
  BY DEF DebtsOf, FundsOf, LooseWallet
<1>3. Debts(b) \in Int /\ Funds(b) \in Int
  BY <1>1, <1>2, TotalInt DEF Debts, Funds
<1>4. DebtsOf(c) = DebtsOf(b) /\ FundsOf(c) = FundsOf(b)
  BY DEF DebtsOf, FundsOf
<1> QED
  BY <1>3, <1>4 DEF Debts, Funds

-----------------------------------------------------------------------------
(* What a step has to show.                                                *)

LEMMA LooseParts ==
  ASSUME NEW n \in Nat, NEW b \in Loose(n)
  PROVE  /\ b.obl \in Rows(n) /\ DOMAIN b.obl = 1..n
         /\ b.wallet \in [Members -> LooseWallet]
         /\ b.treasury \in LooseTreasury /\ b.core \in Int
         /\ b.ledger \in [Accounts -> Int] /\ b.keys \in SUBSET Keys
         /\ \A i \in 1..n : b.obl[i] \in Obligation /\ b.obl[i].owner \in Members
         /\ \A m \in Members : b.wallet[m] \in LooseWallet
BY DEF Loose, Rows, Obligation

\* The obligations of everybody but m are left alone.
OthersKeep(o, q, m) ==
  \A z \in Members : z # m =>
    /\ Waits(q, z) = Waits(o, z) /\ Owes(q, z) = Owes(o, z) /\ Holds(q, z) = Holds(o, z)
    /\ Got(q, z) = Got(o, z) /\ Earns(q, z) = Earns(o, z)

\* The wallet of m moves as his obligations do.
WalletMoves(b, c, m) ==
  /\ \A z \in Members : z # m => c.wallet[z] = b.wallet[z]
  /\ OthersKeep(b.obl, c.obl, m)
  /\ c.wallet[m].pending - b.wallet[m].pending = Waits(c.obl, m) - Waits(b.obl, m)
  /\ c.wallet[m].recovery - b.wallet[m].recovery = Owes(c.obl, m) - Owes(b.obl, m)
  /\ c.wallet[m].reserved - b.wallet[m].reserved = Holds(c.obl, m) - Holds(b.obl, m)
  /\ c.wallet[m].paid - b.wallet[m].paid = Got(c.obl, m) - Got(b.obl, m)
  /\ (c.wallet[m].pending - b.wallet[m].pending) + (c.wallet[m].available - b.wallet[m].available)
     + (c.wallet[m].reserved - b.wallet[m].reserved) + (c.wallet[m].paid - b.wallet[m].paid)
     - (c.wallet[m].recovery - b.wallet[m].recovery) = Earns(c.obl, m) - Earns(b.obl, m)

\* The ledger moves as the projections do.
LedgerMoves(b, c, m, h) ==
  /\ c.ledger[TreasuryAccount] - b.ledger[TreasuryAccount]
       = (b.treasury.available - c.treasury.available)
         + (b.wallet[m].recovery - c.wallet[m].recovery)
  /\ c.ledger[Core] - b.ledger[Core] = b.core - c.core
  /\ c.ledger[Cash] - b.ledger[Cash] - (c.core - b.core)
       = (c.treasury.available - b.treasury.available) + (c.treasury.reserved - b.treasury.reserved)
         + (c.wallet[m].available - b.wallet[m].available)
         + (c.wallet[m].reserved - b.wallet[m].reserved)
  /\ c.ledger[Available(m)] - b.ledger[Available(m)]
       = b.wallet[m].available - c.wallet[m].available
  /\ c.ledger[Recovery(m)] - b.ledger[Recovery(m)] = c.wallet[m].recovery - b.wallet[m].recovery
  /\ \A z \in Members : z # m => /\ c.ledger[Available(z)] = b.ledger[Available(z)]
                                 /\ c.ledger[Recovery(z)] = b.ledger[Recovery(z)]
  /\ \A p \in Payouts : -c.ledger[Reserved(p)] = h[p]

LEMMA MovesTogether ==
  ASSUME NEW v \in Int, NEW w \in Int, NEW x \in Int, NEW y \in Int, w - v = y - x, v = x
  PROVE  w = y
OBVIOUS

LEMMA MoveFits ==
  ASSUME NEW n \in Nat, NEW b \in Loose(n), NEW k \in Nat, NEW c \in Loose(k),
         NEW h, Fits(b, h), NEW g, NEW m \in Members, WalletMoves(b, c, m), LedgerMoves(b, c, m, g)
  PROVE  Fits(c, g)
<1>1. /\ b.wallet \in [Members -> LooseWallet] /\ c.wallet \in [Members -> LooseWallet]
      /\ b.obl \in Rows(n) /\ c.obl \in Rows(k)
      /\ b.wallet[m] \in LooseWallet /\ c.wallet[m] \in LooseWallet
      /\ b.treasury \in LooseTreasury /\ c.treasury \in LooseTreasury
      /\ b.core \in Int /\ c.core \in Int
      /\ b.ledger \in [Accounts -> Int] /\ c.ledger \in [Accounts -> Int]
  BY LooseParts
<1>2. \A z \in Members : RowFits(b, z)
  BY DEF Fits
<1>3. ASSUME NEW z \in Members PROVE RowFits(c, z)
  <2>1. CASE z # m
    BY <1>2, <2>1 DEF WalletMoves, OthersKeep, RowFits
  <2>2. CASE z = m
    <3>1. /\ Waits(b.obl, m) \in Int /\ Owes(b.obl, m) \in Int /\ Holds(b.obl, m) \in Int
          /\ Got(b.obl, m) \in Int /\ Earns(b.obl, m) \in Int
          /\ Waits(c.obl, m) \in Int /\ Owes(c.obl, m) \in Int /\ Holds(c.obl, m) \in Int
          /\ Got(c.obl, m) \in Int /\ Earns(c.obl, m) \in Int
      BY <1>1, ColumnsInt
    <3>2. /\ b.wallet[m].pending \in Int /\ b.wallet[m].available \in Int
          /\ b.wallet[m].reserved \in Int /\ b.wallet[m].paid \in Int
          /\ b.wallet[m].recovery \in Int
          /\ c.wallet[m].pending \in Int /\ c.wallet[m].available \in Int
          /\ c.wallet[m].reserved \in Int /\ c.wallet[m].paid \in Int
          /\ c.wallet[m].recovery \in Int
      BY <1>1 DEF LooseWallet
    <3> DEFINE v == b.wallet[m]
               w == c.wallet[m]
    <3>3. /\ v.pending = Waits(b.obl, m) /\ v.recovery = Owes(b.obl, m)
          /\ v.reserved = Holds(b.obl, m) /\ v.paid = Got(b.obl, m)
          /\ v.pending + v.available + v.reserved + v.paid - v.recovery = Earns(b.obl, m)
      BY <1>2 DEF RowFits
    <3>4. /\ w.pending - v.pending = Waits(c.obl, m) - Waits(b.obl, m)
          /\ w.recovery - v.recovery = Owes(c.obl, m) - Owes(b.obl, m)
          /\ w.reserved - v.reserved = Holds(c.obl, m) - Holds(b.obl, m)
          /\ w.paid - v.paid = Got(c.obl, m) - Got(b.obl, m)
          /\ (w.pending - v.pending) + (w.available - v.available)
             + (w.reserved - v.reserved) + (w.paid - v.paid)
             - (w.recovery - v.recovery) = Earns(c.obl, m) - Earns(b.obl, m)
      BY DEF WalletMoves
    <3> HIDE DEF v, w
    <3> DEFINE ve == v.pending + v.available + v.reserved + v.paid - v.recovery
               we == w.pending + w.available + w.reserved + w.paid - w.recovery
    <3>5. /\ v.pending \in Int /\ v.available \in Int /\ v.reserved \in Int
          /\ v.paid \in Int /\ v.recovery \in Int
          /\ w.pending \in Int /\ w.available \in Int /\ w.reserved \in Int
          /\ w.paid \in Int /\ w.recovery \in Int
      BY <3>2 DEF v, w
    <3>6. ve \in Int /\ we \in Int /\ ve = Earns(b.obl, m)
          /\ we - ve = Earns(c.obl, m) - Earns(b.obl, m)
      BY <3>3, <3>4, <3>5
    <3> HIDE DEF ve, we
    <3>7. we = Earns(c.obl, m)
      BY <3>1, <3>6
    <3>8. /\ w.pending = Waits(c.obl, m) /\ w.recovery = Owes(c.obl, m)
          /\ w.reserved = Holds(c.obl, m) /\ w.paid = Got(c.obl, m)
      <4>1. w.pending = Waits(c.obl, m)
        <5>1. /\ v.pending \in Int /\ w.pending \in Int /\ v.pending = Waits(b.obl, m)
              /\ Waits(b.obl, m) \in Int /\ Waits(c.obl, m) \in Int
              /\ w.pending - v.pending = Waits(c.obl, m) - Waits(b.obl, m)
          BY <3>1, <3>3, <3>4, <3>5
        <5> QED
          BY <5>1, MovesTogether
      <4>2. w.recovery = Owes(c.obl, m)
        <5>1. /\ v.recovery \in Int /\ w.recovery \in Int /\ v.recovery = Owes(b.obl, m)
              /\ Owes(b.obl, m) \in Int /\ Owes(c.obl, m) \in Int
              /\ w.recovery - v.recovery = Owes(c.obl, m) - Owes(b.obl, m)
          BY <3>1, <3>3, <3>4, <3>5
        <5> QED
          BY <5>1, MovesTogether
      <4>3. w.reserved = Holds(c.obl, m)
        <5>1. /\ v.reserved \in Int /\ w.reserved \in Int /\ v.reserved = Holds(b.obl, m)
              /\ Holds(b.obl, m) \in Int /\ Holds(c.obl, m) \in Int
              /\ w.reserved - v.reserved = Holds(c.obl, m) - Holds(b.obl, m)
          BY <3>1, <3>3, <3>4, <3>5
        <5> QED
          BY <5>1, MovesTogether
      <4>4. w.paid = Got(c.obl, m)
        <5>1. /\ v.paid \in Int /\ w.paid \in Int /\ v.paid = Got(b.obl, m)
              /\ Got(b.obl, m) \in Int /\ Got(c.obl, m) \in Int
              /\ w.paid - v.paid = Got(c.obl, m) - Got(b.obl, m)
          BY <3>1, <3>3, <3>4, <3>5
        <5> QED
          BY <5>1, MovesTogether
      <4> QED
        BY <4>1, <4>2, <4>3, <4>4
    <3> QED
      BY <2>2, <3>7, <3>8 DEF RowFits, w, we
  <2> QED
    BY <2>1, <2>2
<1>4. /\ b.wallet[m].available \in Int /\ b.wallet[m].reserved \in Int /\ b.wallet[m].recovery \in Int
      /\ c.wallet[m].available \in Int /\ c.wallet[m].reserved \in Int /\ c.wallet[m].recovery \in Int
      /\ b.treasury.available \in Int /\ c.treasury.available \in Int
      /\ b.treasury.reserved \in Int /\ c.treasury.reserved \in Int
  BY <1>1 DEF LooseWallet, LooseTreasury
<1>5. /\ b.ledger[TreasuryAccount] \in Int /\ c.ledger[TreasuryAccount] \in Int
      /\ b.ledger[Core] \in Int /\ c.ledger[Core] \in Int
      /\ b.ledger[Cash] \in Int /\ c.ledger[Cash] \in Int
      /\ b.ledger[Available(m)] \in Int /\ c.ledger[Available(m)] \in Int
      /\ b.ledger[Recovery(m)] \in Int /\ c.ledger[Recovery(m)] \in Int
  BY <1>1, AccountNames
<1>6. /\ Debts(b) \in Int /\ Funds(b) \in Int
      /\ Debts(c) = Debts(b) + c.wallet[m].recovery - b.wallet[m].recovery
      /\ Funds(c) = Funds(b) + c.wallet[m].available + c.wallet[m].reserved
                              - b.wallet[m].available - b.wallet[m].reserved
  BY <1>1, OneWallet DEF WalletMoves
<1>7. LedgerFits(b, h) /\ CashFits(b)
  BY DEF Fits
<1>8. LedgerFits(c, g)
  <2>1. -c.ledger[TreasuryAccount] = c.treasury.available + Debts(c)
    <3>1. -b.ledger[TreasuryAccount] = b.treasury.available + Debts(b)
      BY <1>7 DEF LedgerFits
    <3>2. c.ledger[TreasuryAccount] - b.ledger[TreasuryAccount]
            = (b.treasury.available - c.treasury.available)
              + (b.wallet[m].recovery - c.wallet[m].recovery)
      BY DEF LedgerMoves
    <3> QED
      BY <1>4, <1>5, <1>6, <3>1, <3>2
  <2>2. -c.ledger[Core] = c.core
    BY <1>1, <1>5, <1>7 DEF LedgerMoves, LedgerFits
  <2>3. ASSUME NEW z \in Members
        PROVE  -c.ledger[Available(z)] = c.wallet[z].available /\ c.ledger[Recovery(z)] = c.wallet[z].recovery
    <3>1. CASE z = m
      <4>1. -b.ledger[Available(m)] = b.wallet[m].available /\ b.ledger[Recovery(m)] = b.wallet[m].recovery
        BY <1>7 DEF LedgerFits
      <4>2. /\ c.ledger[Available(m)] - b.ledger[Available(m)]
                 = b.wallet[m].available - c.wallet[m].available
            /\ c.ledger[Recovery(m)] - b.ledger[Recovery(m)]
                 = c.wallet[m].recovery - b.wallet[m].recovery
        BY DEF LedgerMoves
      <4>3. -c.ledger[Available(m)] = c.wallet[m].available /\ c.ledger[Recovery(m)] = c.wallet[m].recovery
        BY <1>4, <1>5, <4>1, <4>2
      <4> QED
        BY <3>1, <4>3
    <3>2. CASE z # m
      BY <1>7, <3>2 DEF LedgerMoves, LedgerFits, WalletMoves
    <3> QED
      BY <3>1, <3>2
  <2>4. \A p \in Payouts : -c.ledger[Reserved(p)] = g[p]
    BY DEF LedgerMoves
  <2> QED
    BY <2>1, <2>2, <2>3, <2>4 DEF LedgerFits
<1>9. CashFits(c)
  <2>1. CoreBalance \in Int
    BY ConstantsAssumption
  <2>2. b.ledger[Cash] + CoreBalance - b.core = b.treasury.available + b.treasury.reserved + Funds(b)
    BY <1>7 DEF CashFits
  <2>3. c.ledger[Cash] - b.ledger[Cash] - (c.core - b.core)
          = (c.treasury.available - b.treasury.available)
            + (c.treasury.reserved - b.treasury.reserved)
            + (c.wallet[m].available - b.wallet[m].available)
            + (c.wallet[m].reserved - b.wallet[m].reserved)
    BY DEF LedgerMoves
  <2> QED
    BY <1>1, <1>4, <1>5, <1>6, <2>1, <2>2, <2>3 DEF CashFits
<1> QED
  BY <1>3, <1>8, <1>9 DEF Fits

\* Money moves while wallets and obligations stay.
CashMoves(b, c, h) ==
  /\ c.obl = b.obl /\ c.wallet = b.wallet
  /\ c.ledger[TreasuryAccount] - b.ledger[TreasuryAccount]
       = b.treasury.available - c.treasury.available
  /\ c.ledger[Core] - b.ledger[Core] = b.core - c.core
  /\ c.ledger[Cash] - b.ledger[Cash] - (c.core - b.core)
       = (c.treasury.available - b.treasury.available)
         + (c.treasury.reserved - b.treasury.reserved)
  /\ \A z \in Members : /\ c.ledger[Available(z)] = b.ledger[Available(z)]
                         /\ c.ledger[Recovery(z)] = b.ledger[Recovery(z)]
  /\ \A p \in Payouts : -c.ledger[Reserved(p)] = h[p]

LEMMA CashMoveFits ==
  ASSUME NEW n \in Nat, NEW b \in Loose(n), NEW c \in Loose(n), NEW h, Fits(b, h), NEW g, CashMoves(b, c, g)
  PROVE  Fits(c, g)
<1>1. /\ b.wallet \in [Members -> LooseWallet]
      /\ b.treasury \in LooseTreasury /\ c.treasury \in LooseTreasury
      /\ b.core \in Int /\ c.core \in Int
      /\ b.ledger \in [Accounts -> Int] /\ c.ledger \in [Accounts -> Int]
  BY LooseParts
<1>0. b.core \in Int /\ c.core \in Int
  BY LooseParts
<1>2. /\ b.treasury.available \in Int /\ c.treasury.available \in Int
      /\ b.treasury.reserved \in Int /\ c.treasury.reserved \in Int
  BY <1>1 DEF LooseTreasury
<1>3. /\ b.ledger[TreasuryAccount] \in Int /\ c.ledger[TreasuryAccount] \in Int
      /\ b.ledger[Core] \in Int /\ c.ledger[Core] \in Int
      /\ b.ledger[Cash] \in Int /\ c.ledger[Cash] \in Int
  BY <1>1, AccountNames
<1>4. Debts(b) \in Int /\ Funds(b) \in Int /\ Debts(c) = Debts(b) /\ Funds(c) = Funds(b)
  BY <1>1, SameWallets DEF CashMoves
<1>5. \A z \in Members : RowFits(c, z)
  BY DEF Fits, RowFits, CashMoves
<1>6. LedgerFits(b, h) /\ CashFits(b)
  BY DEF Fits
<1>7. LedgerFits(c, g)
  <2>1. -c.ledger[TreasuryAccount] = c.treasury.available + Debts(c)
    <3>1. -b.ledger[TreasuryAccount] = b.treasury.available + Debts(b)
      BY <1>6 DEF LedgerFits
    <3> QED
      BY <1>2, <1>3, <1>4, <3>1 DEF CashMoves
  <2>2. -c.ledger[Core] = c.core
    <3>1. -b.ledger[Core] = b.core
      BY <1>6 DEF LedgerFits
    <3>2. c.ledger[Core] - b.ledger[Core] = b.core - c.core
      BY DEF CashMoves
    <3> QED
      BY <1>0, <1>3, <3>1, <3>2
  <2>3. \A z \in Members : /\ -c.ledger[Available(z)] = c.wallet[z].available
                           /\ c.ledger[Recovery(z)] = c.wallet[z].recovery
    BY <1>6 DEF LedgerFits, CashMoves
  <2> QED
    BY <2>1, <2>2, <2>3 DEF LedgerFits, CashMoves
<1>8. CashFits(c)
  <2>1. CoreBalance \in Int
    BY ConstantsAssumption
  <2>2. b.ledger[Cash] + CoreBalance - b.core = b.treasury.available + b.treasury.reserved + Funds(b)
    BY <1>6 DEF CashFits
  <2>3. c.ledger[Cash] - b.ledger[Cash] - (c.core - b.core)
          = (c.treasury.available - b.treasury.available)
            + (c.treasury.reserved - b.treasury.reserved)
    BY DEF CashMoves
  <2>4. c.ledger[Cash] + CoreBalance - c.core = c.treasury.available + c.treasury.reserved + Funds(b)
    <3> DEFINE l == b.ledger[Cash]
               l2 == c.ledger[Cash]
               f == Funds(b)
               t == b.treasury.available
               t2 == c.treasury.available
               r == b.treasury.reserved
               r2 == c.treasury.reserved
               d == b.core
               d2 == c.core
    <3>2. l2 + CoreBalance - d2 = t2 + r2 + f
      <4>1. /\ l \in Int /\ l2 \in Int /\ f \in Int /\ t \in Int /\ t2 \in Int
            /\ r \in Int /\ r2 \in Int /\ d \in Int /\ d2 \in Int
        BY <1>0, <1>2, <1>3, <1>4
      <4>2. /\ l + CoreBalance - d = t + r + f
            /\ l2 - l - (d2 - d) = (t2 - t) + (r2 - r)
        BY <2>2, <2>3
      <4> HIDE DEF l, l2, f, t, t2, r, r2, d, d2
      <4> QED
        BY <2>1, <4>1, <4>2
    <3> QED
      BY <3>2
  <2> QED
    BY <1>4, <2>4 DEF CashFits
<1> QED
  BY <1>5, <1>7, <1>8 DEF Fits

-----------------------------------------------------------------------------
(* allocatePendingTenantCashback.                                          *)

\* Withholding a debt from the cashback of its owner keeps the books together.
LEMMA OffsetFits ==
  ASSUME NEW n \in Nat, NEW b \in Loose(n), NEW h, Fits(b, h), NEW i \in 1..n, NEW x \in Nat,
         x <= Owes(b.obl, b.obl[i].owner)
  PROVE  /\ Offset(b, i, x) \in Loose(n)
         /\ Fits(Offset(b, i, x), h)
         /\ SameOwners(b, Offset(b, i, x), n)
<1> DEFINE m == b.obl[i].owner
           s == SettleRecovery(b.obl, m, x)
           q == [s EXCEPT ![i].recovered = @ + x]
           c == Offset(b, i, x)
<1>1. /\ b.obl \in Rows(n) /\ DOMAIN b.obl = 1..n /\ b.wallet \in [Members -> LooseWallet]
      /\ b.treasury \in LooseTreasury /\ b.core \in Int
      /\ b.ledger \in [Accounts -> Int] /\ b.keys \in SUBSET Keys
      /\ b.obl[i] \in Obligation /\ m \in Members
  BY LooseParts
<1>2. /\ s \in Rows(n) /\ s[i] \in Obligation /\ \A j \in 1..n : SameButDue(b.obl[j], s[j])
      /\ Owes(s, m) = Owes(b.obl, m) - x
      /\ \A z : z # m => Owes(s, z) = Owes(b.obl, z)
  BY <1>1, SettleRecoveryEffect, SMTT(20) DEF Rows
<1>3. c.obl = q /\ c.treasury = b.treasury /\ c.core = b.core
  BY <1>1, <1>2 DEF Offset, Loose
<1>4. /\ c.ledger = Post(b.ledger, TreasuryAccount, Recovery(m), x)
      /\ c.keys = b.keys \union {<<"offset", i, b.obl[i].recovered, x>>}
  BY <1>1, <1>2 DEF Offset, Loose
<1>5. c.wallet = [b.wallet EXCEPT ![m] = [b.wallet[m] EXCEPT !.pending = @ - x,
                                                             !.recovery = @ - x]]
  BY <1>1, <1>2 DEF Offset, Loose
<1>6. /\ DOMAIN c = {"obl", "wallet", "treasury", "core", "ledger", "keys"}
      /\ c = [f \in DOMAIN c |-> c[f]]
  BY <1>1, <1>2 DEF Offset, Loose
<1> HIDE DEF c
<1>7. q \in Rows(n) /\ \A j \in 1..n : j # i => q[j] = s[j]
  <2> HIDE DEF s
  <2>1. s[i].recovered + x \in Nat
    BY <1>2 DEF Obligation
  <2>2. [s[i] EXCEPT !.recovered = @ + x] \in Obligation
    BY <1>2, <2>1 DEF Obligation
  <2> QED
    BY <1>2, <2>2 DEF Rows
<1>8. /\ q[i].owner = m /\ q[i].due = s[i].due /\ q[i].reserved = s[i].reserved
      /\ q[i].paid = s[i].paid /\ q[i].amount = s[i].amount
      /\ Pending(q[i]) = Pending(s[i]) - x
  <2>1. s[i].owner = m
    BY <1>2 DEF SameButDue
  <2>2. DOMAIN s = 1..n
    BY <1>2 DEF Rows
  <2> HIDE DEF s, m
  <2>3. q[i] = [s[i] EXCEPT !.recovered = s[i].recovered + x]
    BY <1>2, <2>2 DEF Obligation
  <2> HIDE DEF q
  <2> QED
    BY <1>2, <2>1, <2>3 DEF Obligation, Pending
<1>9. /\ c.wallet \in [Members -> LooseWallet]
      /\ \A z \in Members : z # m => c.wallet[z] = b.wallet[z]
      /\ c.wallet[m].pending = b.wallet[m].pending - x
      /\ c.wallet[m].recovery = b.wallet[m].recovery - x
      /\ c.wallet[m].available = b.wallet[m].available
      /\ c.wallet[m].reserved = b.wallet[m].reserved
      /\ c.wallet[m].paid = b.wallet[m].paid
  <2> DEFINE v == b.wallet[m]
             w == [v EXCEPT !.pending = v.pending - x, !.recovery = v.recovery - x]
  <2>1. v \in LooseWallet
    BY <1>1
  <2>2. c.wallet = [b.wallet EXCEPT ![m] = w]
    BY <1>5
  <2> HIDE DEF m, v
  <2>3. v.pending - x \in Int /\ v.recovery - x \in Int
    BY <2>1 DEF LooseWallet
  <2>4. w \in LooseWallet
    BY <2>1, <2>3 DEF LooseWallet
  <2>5. /\ w.pending = v.pending - x /\ w.recovery = v.recovery - x
        /\ w.available = v.available /\ w.reserved = v.reserved /\ w.paid = v.paid
    BY <2>1 DEF LooseWallet
  <2> HIDE DEF w
  <2>6. c.wallet[m] = w /\ \A z \in Members : z # m => c.wallet[z] = b.wallet[z]
    BY <1>1, <2>2
  <2>7. c.wallet \in [Members -> LooseWallet]
    BY <1>1, <2>2, <2>4
  <2> QED
    BY <2>5, <2>6, <2>7 DEF v
<1>10. c.ledger \in [Accounts -> Int] /\ LedgerMoves(b, c, m, h)
  <2> HIDE DEF m
  <2>1. /\ c.ledger \in [Accounts -> Int]
        /\ c.ledger[TreasuryAccount] = b.ledger[TreasuryAccount] + x
        /\ c.ledger[Recovery(m)] = b.ledger[Recovery(m)] - x
        /\ \A a \in Accounts :
             a # TreasuryAccount /\ a # Recovery(m) => c.ledger[a] = b.ledger[a]
    <3>1. TreasuryAccount \in Accounts /\ Recovery(m) \in Accounts /\ TreasuryAccount # Recovery(m)
          /\ x \in Int
      BY <1>1, AccountNames
    <3>2. b.ledger \in [Accounts -> Int]
      BY <1>1
    <3> DEFINE k == b.ledger
               d == Recovery(m)
               l == Post(k, TreasuryAccount, d, x)
    <3>3. /\ k \in [Accounts -> Int] /\ TreasuryAccount \in Accounts /\ d \in Accounts /\ TreasuryAccount # d /\ x \in Int
      BY <3>1, <3>2
    <3>4. /\ l \in [Accounts -> Int]
          /\ l[TreasuryAccount] = k[TreasuryAccount] + x
          /\ l[d] = k[d] - x
          /\ \A a \in Accounts : a # TreasuryAccount /\ a # d => l[a] = k[a]
      <4> HIDE DEF k, d
      <4> QED
        BY <3>3 DEF Post
    <3> QED
      BY <1>4, <3>4
  <2>2. /\ c.ledger[Core] = b.ledger[Core] /\ c.ledger[Cash] = b.ledger[Cash]
        /\ \A z \in Members : /\ c.ledger[Available(z)] = b.ledger[Available(z)]
                              /\ z # m => c.ledger[Recovery(z)] = b.ledger[Recovery(z)]
        /\ \A p \in Payouts : c.ledger[Reserved(p)] = b.ledger[Reserved(p)]
    BY <1>1, <2>1, AccountNames
  <2>3. /\ b.ledger[TreasuryAccount] \in Int /\ b.ledger[Recovery(m)] \in Int
        /\ b.ledger[Available(m)] \in Int
        /\ b.ledger[Core] \in Int /\ b.ledger[Cash] \in Int
    BY <1>1, AccountNames
  <2>4. /\ b.wallet[m].recovery \in Int /\ b.wallet[m].available \in Int
        /\ b.wallet[m].reserved \in Int
        /\ b.treasury.available \in Int /\ b.treasury.reserved \in Int
    BY <1>1 DEF LooseWallet, LooseTreasury
  <2>5. \A p \in Payouts : -b.ledger[Reserved(p)] = h[p]
    BY DEF Fits, LedgerFits
  <2>0. b.core \in Int
    BY <1>1
  <2>6. c.ledger[TreasuryAccount] - b.ledger[TreasuryAccount]
          = (b.treasury.available - c.treasury.available)
            + (b.wallet[m].recovery - c.wallet[m].recovery)
    BY <1>3, <1>9, <2>1, <2>3, <2>4
  <2>7. c.ledger[Core] - b.ledger[Core] = b.core - c.core
    BY <1>1, <1>3, <2>2, <2>3
  <2>8. c.ledger[Cash] - b.ledger[Cash] - (c.core - b.core)
          = (c.treasury.available - b.treasury.available)
            + (c.treasury.reserved - b.treasury.reserved)
            + (c.wallet[m].available - b.wallet[m].available)
            + (c.wallet[m].reserved - b.wallet[m].reserved)
    BY <1>3, <1>9, <2>0, <2>2, <2>3, <2>4
  <2>9. /\ c.ledger[Available(m)] - b.ledger[Available(m)]
              = b.wallet[m].available - c.wallet[m].available
        /\ c.ledger[Recovery(m)] - b.ledger[Recovery(m)]
              = c.wallet[m].recovery - b.wallet[m].recovery
    <3>1. c.ledger[Available(m)] = b.ledger[Available(m)]
      BY <1>1, <2>2
    <3>2. c.ledger[Recovery(m)] = b.ledger[Recovery(m)] - x
      BY <2>1
    <3> QED
      BY <1>9, <2>3, <2>4, <3>1, <3>2
  <2> QED
    BY <2>1, <2>2, <2>5, <2>6, <2>7, <2>8, <2>9 DEF LedgerMoves
<1>11. c \in Loose(n)
  <2>1. b.obl[i].recovered \in Nat
    BY <1>1 DEF Obligation
  <2> HIDE DEF q, m, s
  <2>2. c.keys \in SUBSET Keys
    BY <1>1, <1>4, <2>1 DEF Keys
  <2> QED
    BY <1>1, <1>3, <1>6, <1>7, <1>9, <1>10, <2>2 DEF Loose
<1>12. WalletMoves(b, c, m)
  <2>1. /\ \A z : z # m => /\ Waits(q, z) = Waits(s, z) /\ Owes(q, z) = Owes(s, z)
                          /\ Holds(q, z) = Holds(s, z) /\ Got(q, z) = Got(s, z)
                          /\ Earns(q, z) = Earns(s, z)
        /\ Waits(q, m) = Waits(s, m) + Pending(q[i]) - Pending(s[i])
        /\ Owes(q, m) = Owes(s, m) + q[i].due - s[i].due
        /\ Holds(q, m) = Holds(s, m) + q[i].reserved - s[i].reserved
        /\ Got(q, m) = Got(s, m) + q[i].paid - s[i].paid
        /\ Earns(q, m) = Earns(s, m) + q[i].amount - s[i].amount
    <3>1. s[i].owner = m
      BY <1>2 DEF SameButDue
    <3> HIDE DEF q, s, m
    <3> QED
      BY <1>2, <1>7, <1>8, <3>1, OneRow
  <2>2. \A z : /\ Waits(s, z) = Waits(b.obl, z) /\ Holds(s, z) = Holds(b.obl, z)
              /\ Got(s, z) = Got(b.obl, z) /\ Earns(s, z) = Earns(b.obl, z)
    <3> HIDE DEF s
    <3> QED
      BY <1>1, <1>2, SameSums DEF SameButDue, Pending
  <2>3. /\ Waits(b.obl, m) \in Int /\ Owes(b.obl, m) \in Int /\ Holds(b.obl, m) \in Int
        /\ Got(b.obl, m) \in Int /\ Earns(b.obl, m) \in Int
    BY <1>1, ColumnsInt
  <2>4. /\ Pending(s[i]) \in Int /\ s[i].due \in Int /\ s[i].reserved \in Int
        /\ s[i].paid \in Int /\ s[i].amount \in Int
    BY <1>2 DEF Obligation, Pending
  <2>5. /\ b.wallet[m].pending \in Int /\ b.wallet[m].recovery \in Int
        /\ b.wallet[m].available \in Int /\ b.wallet[m].reserved \in Int
        /\ b.wallet[m].paid \in Int
    BY <1>1 DEF LooseWallet
  <2> HIDE DEF q, s, m
  <2>6. /\ Waits(q, m) = Waits(b.obl, m) - x /\ Owes(q, m) = Owes(b.obl, m) - x
        /\ Holds(q, m) = Holds(b.obl, m) /\ Got(q, m) = Got(b.obl, m)
        /\ Earns(q, m) = Earns(b.obl, m)
    BY <1>2, <1>8, <2>1, <2>2, <2>3, <2>4
  <2>7. OthersKeep(b.obl, q, m)
    BY <1>2, <2>1, <2>2 DEF OthersKeep
  <2> QED
    BY <1>3, <1>9, <2>3, <2>5, <2>6, <2>7 DEF WalletMoves
<1>13. Fits(c, h)
  <2> HIDE DEF m
  <2> QED
    BY <1>1, <1>10, <1>11, <1>12, MoveFits
<1>14. SameOwners(b, c, n)
  <2> HIDE DEF s
  <2>1. \A j \in 1..n : s[j].owner = b.obl[j].owner
    BY <1>2 DEF SameButDue
  <2> HIDE DEF q
  <2> QED
    BY <1>3, <1>7, <1>8, <2>1 DEF SameOwners
<1> QED
  BY <1>11, <1>13, <1>14 DEF c

\* One row changes, and the wallet of its owner as it does.
RowMoves(b, c, i, m) ==
  LET r == b.obl[i]
      s == c.obl[i]
      v == b.wallet[m]
      w == c.wallet[m]
  IN  /\ r.owner = m /\ s.owner = m
      /\ w.pending - v.pending = Pending(s) - Pending(r)
      /\ w.recovery - v.recovery = s.due - r.due
      /\ w.reserved - v.reserved = s.reserved - r.reserved
      /\ w.paid - v.paid = s.paid - r.paid
      /\ (w.pending - v.pending) + (w.available - v.available)
         + (w.reserved - v.reserved) + (w.paid - v.paid)
         - (w.recovery - v.recovery) = s.amount - r.amount

\* Two rows that count alike.
SameColumns(r, s) ==
  /\ s.owner = r.owner /\ Pending(s) = Pending(r) /\ s.due = r.due
  /\ s.reserved = r.reserved /\ s.paid = r.paid /\ s.amount = r.amount

LEMMA RowMovesWallet ==
  ASSUME NEW n \in Nat, NEW b \in Loose(n), NEW c \in Loose(n), NEW i \in 1..n, NEW m \in Members,
         \A j \in 1..n : j # i => SameColumns(b.obl[j], c.obl[j]),
         \A z \in Members : z # m => c.wallet[z] = b.wallet[z],
         RowMoves(b, c, i, m)
  PROVE  WalletMoves(b, c, m)
<1> DEFINE o == b.obl
           q == [j \in 1..n |-> IF j = i THEN c.obl[i] ELSE b.obl[j]]
<1>1. /\ o \in Rows(n) /\ q \in Rows(n) /\ o[i] \in Obligation /\ q[i] \in Obligation
      /\ q[i] = c.obl[i] /\ \A j \in 1..n : j # i => q[j] = o[j]
  <2>1. o \in Rows(n) /\ c.obl \in Rows(n)
    BY LooseParts
  <2> QED
    BY <2>1 DEF Rows
<1>0. \A z : /\ Waits(c.obl, z) = Waits(q, z) /\ Owes(c.obl, z) = Owes(q, z)
             /\ Holds(c.obl, z) = Holds(q, z) /\ Got(c.obl, z) = Got(q, z)
             /\ Earns(c.obl, z) = Earns(q, z)
  <2>1. c.obl \in Rows(n)
    BY LooseParts
  <2>2. \A j \in 1..n : SameColumns(q[j], c.obl[j])
    BY <1>1 DEF SameColumns
  <2> HIDE DEF q
  <2> QED
    BY <1>1, <2>1, <2>2, SameSums DEF SameColumns
<1>2. o[i].owner = m /\ q[i].owner = m
  BY <1>1 DEF RowMoves
<1>3. /\ Waits(q, m) = Waits(o, m) + Pending(q[i]) - Pending(o[i])
      /\ Owes(q, m) = Owes(o, m) + q[i].due - o[i].due
      /\ Holds(q, m) = Holds(o, m) + q[i].reserved - o[i].reserved
      /\ Got(q, m) = Got(o, m) + q[i].paid - o[i].paid
      /\ Earns(q, m) = Earns(o, m) + q[i].amount - o[i].amount
  <2> HIDE DEF o, q
  <2> QED
    BY <1>1, <1>2, OneRow
<1>4. OthersKeep(o, q, m)
  <2> SUFFICES ASSUME NEW z \in Members, z # m
               PROVE  /\ Waits(q, z) = Waits(o, z) /\ Owes(q, z) = Owes(o, z)
                      /\ Holds(q, z) = Holds(o, z) /\ Got(q, z) = Got(o, z)
                      /\ Earns(q, z) = Earns(o, z)
    BY DEF OthersKeep
  <2> HIDE DEF o, q
  <2> QED
    BY <1>1, <1>2, OneRow
<1>5. /\ Waits(o, m) \in Int /\ Owes(o, m) \in Int /\ Holds(o, m) \in Int
      /\ Got(o, m) \in Int /\ Earns(o, m) \in Int
  BY <1>1, ColumnsInt
<1>6. /\ Pending(o[i]) \in Int /\ o[i].due \in Int /\ o[i].reserved \in Int
      /\ o[i].paid \in Int /\ o[i].amount \in Int
      /\ Pending(q[i]) \in Int /\ q[i].due \in Int /\ q[i].reserved \in Int
      /\ q[i].paid \in Int /\ q[i].amount \in Int
  <2> HIDE DEF o, q
  <2> QED
    BY <1>1 DEF Obligation, Pending
<1>7. /\ Waits(q, m) - Waits(o, m) = Pending(q[i]) - Pending(o[i])
      /\ Owes(q, m) - Owes(o, m) = q[i].due - o[i].due
      /\ Holds(q, m) - Holds(o, m) = q[i].reserved - o[i].reserved
      /\ Got(q, m) - Got(o, m) = q[i].paid - o[i].paid
      /\ Earns(q, m) - Earns(o, m) = q[i].amount - o[i].amount
  <2> HIDE DEF o, q
  <2> QED
    BY <1>3, <1>5, <1>6
<1>8. OthersKeep(o, c.obl, m)
  <2> HIDE DEF q
  <2> QED
    BY <1>0, <1>4 DEF OthersKeep
<1> HIDE DEF q
<1> QED
  BY <1>0, <1>1, <1>7, <1>8 DEF RowMoves, WalletMoves

\* Paying the cashback of an obligation from the treasury keeps the books together.
LEMMA FundFits ==
  ASSUME NEW n \in Nat, NEW b \in Loose(n), NEW h, Fits(b, h), NEW i \in 1..n, NEW x \in Nat
  PROVE  /\ Fund(b, i, x) \in Loose(n)
         /\ Fits(Fund(b, i, x), h)
         /\ SameOwners(b, Fund(b, i, x), n)
<1> DEFINE m == b.obl[i].owner
           r == b.obl[i]
           s == [r EXCEPT !.funded = @ + x, !.status = "AVAILABLE"]
           q == [b.obl EXCEPT ![i] = s]
           c == Fund(b, i, x)
<1>1. /\ b.obl \in Rows(n) /\ DOMAIN b.obl = 1..n /\ b.wallet \in [Members -> LooseWallet]
      /\ b.treasury \in LooseTreasury /\ b.core \in Int
      /\ b.ledger \in [Accounts -> Int] /\ b.keys \in SUBSET Keys
      /\ r \in Obligation /\ m \in Members
  BY LooseParts
<1>2. /\ c.obl = q /\ c.core = b.core
  BY <1>1 DEF Fund, Loose
<1>3. c.treasury = [b.treasury EXCEPT !.available = b.treasury.available - x,
                                      !.paid = b.treasury.paid + x]
  BY <1>1 DEF Fund, Loose, LooseTreasury
<1>4. /\ c.ledger = Post(b.ledger, TreasuryAccount, Available(m), x)
      /\ c.keys = b.keys \union {<<"fund", i, b.obl[i].funded>>}
  BY <1>1 DEF Fund, Loose
<1>5. c.wallet = [b.wallet EXCEPT ![m] = [b.wallet[m] EXCEPT !.pending = @ - x,
                                                             !.available = @ + x]]
  BY <1>1 DEF Fund, Loose
<1>6. /\ DOMAIN c = {"obl", "wallet", "treasury", "core", "ledger", "keys"}
      /\ c = [f \in DOMAIN c |-> c[f]]
  BY <1>1, ZenonT(60) DEF Fund, Loose
<1> HIDE DEF c
<1>7. /\ q \in Rows(n) /\ q[i] = s /\ \A j \in 1..n : j # i => q[j] = b.obl[j]
      /\ s.owner = m /\ s.due = r.due /\ s.reserved = r.reserved
      /\ s.paid = r.paid /\ s.amount = r.amount
      /\ Pending(s) = Pending(r) - x
  <2> HIDE DEF r
  <2>1. r.funded \in Nat /\ r.funded + x \in Nat /\ r.owner = m
    BY <1>1 DEF Obligation, r
  <2> HIDE DEF m
  <2>2. s \in Obligation
    BY <1>1, <2>1 DEF Obligation, ObligationStatuses
  <2>3. /\ s.owner = r.owner /\ s.due = r.due /\ s.reserved = r.reserved
        /\ s.paid = r.paid /\ s.amount = r.amount /\ s.recovered = r.recovered
        /\ s.funded = r.funded + x
    BY <1>1 DEF Obligation
  <2>4. r.amount \in Int /\ r.recovered \in Int
    BY <1>1 DEF Obligation
  <2> HIDE DEF s
  <2>5. Pending(s) = Pending(r) - x
    BY <2>1, <2>3, <2>4 DEF Pending
  <2>6. q \in Rows(n) /\ q[i] = s /\ \A j \in 1..n : j # i => q[j] = b.obl[j]
    BY <1>1, <2>2 DEF Rows
  <2> QED
    BY <2>1, <2>3, <2>5, <2>6
<1>8. /\ c.treasury \in LooseTreasury
      /\ c.treasury.available = b.treasury.available - x
      /\ c.treasury.reserved = b.treasury.reserved
      /\ b.treasury.available \in Int /\ b.treasury.reserved \in Int
  <2> DEFINE t == b.treasury
  <2>1. t \in LooseTreasury
    BY <1>1
  <2> HIDE DEF t
  <2>2. t.available - x \in Int /\ t.paid + x \in Int /\ t.available \in Int /\ t.reserved \in Int
    BY <2>1 DEF LooseTreasury
  <2> QED
    BY <1>3, <2>1, <2>2 DEF LooseTreasury, t
<1>9. /\ c.wallet \in [Members -> LooseWallet]
      /\ \A z \in Members : z # m => c.wallet[z] = b.wallet[z]
      /\ c.wallet[m].pending = b.wallet[m].pending - x
      /\ c.wallet[m].available = b.wallet[m].available + x
      /\ c.wallet[m].recovery = b.wallet[m].recovery
      /\ c.wallet[m].reserved = b.wallet[m].reserved
      /\ c.wallet[m].paid = b.wallet[m].paid
      /\ b.wallet[m].pending \in Int /\ b.wallet[m].recovery \in Int
      /\ b.wallet[m].available \in Int /\ b.wallet[m].reserved \in Int
      /\ b.wallet[m].paid \in Int
  <2> DEFINE v == b.wallet[m]
             w == [v EXCEPT !.pending = v.pending - x, !.available = v.available + x]
  <2>1. v \in LooseWallet
    BY <1>1
  <2>2. c.wallet = [b.wallet EXCEPT ![m] = w]
    BY <1>5
  <2> HIDE DEF m, v
  <2>3. v.pending - x \in Int /\ v.available + x \in Int
    BY <2>1 DEF LooseWallet
  <2>4. w \in LooseWallet
    BY <2>1, <2>3 DEF LooseWallet
  <2>5. /\ w.pending = v.pending - x /\ w.available = v.available + x
        /\ w.recovery = v.recovery /\ w.reserved = v.reserved /\ w.paid = v.paid
        /\ v.pending \in Int /\ v.recovery \in Int /\ v.available \in Int
        /\ v.reserved \in Int /\ v.paid \in Int
    BY <2>1 DEF LooseWallet
  <2> HIDE DEF w
  <2>6. c.wallet[m] = w /\ \A z \in Members : z # m => c.wallet[z] = b.wallet[z]
    BY <1>1, <2>2
  <2>7. c.wallet \in [Members -> LooseWallet]
    BY <1>1, <2>2, <2>4
  <2> QED
    BY <2>5, <2>6, <2>7 DEF v
<1>10. c.ledger \in [Accounts -> Int] /\ LedgerMoves(b, c, m, h)
  <2> DEFINE a == Available(m)
             k == b.ledger
             l == c.ledger
  <2> HIDE DEF m
  <2>1. /\ l \in [Accounts -> Int]
        /\ l[TreasuryAccount] = k[TreasuryAccount] + x
        /\ l[a] = k[a] - x
        /\ \A d \in Accounts : d # TreasuryAccount /\ d # a => l[d] = k[d]
    <3>1. /\ k \in [Accounts -> Int] /\ TreasuryAccount \in Accounts /\ a \in Accounts
          /\ TreasuryAccount # a /\ x \in Int /\ l = Post(k, TreasuryAccount, a, x)
      BY <1>1, <1>4, AccountNames
    <3> HIDE DEF a, k, l
    <3> QED
      BY <3>1 DEF Post
  <2>2. /\ l[Core] = k[Core] /\ l[Cash] = k[Cash]
        /\ \A z \in Members : l[Recovery(z)] = k[Recovery(z)]
        /\ \A z \in Members : z # m => l[Available(z)] = k[Available(z)]
        /\ \A p \in Payouts : l[Reserved(p)] = k[Reserved(p)]
    BY <1>1, <2>1, AccountNames
  <2>3. /\ k[TreasuryAccount] \in Int /\ k[Recovery(m)] \in Int /\ k[a] \in Int
        /\ k[Core] \in Int /\ k[Cash] \in Int
    BY <1>1, AccountNames
  <2>4. \A p \in Payouts : -k[Reserved(p)] = h[p]
    BY DEF Fits, LedgerFits
  <2>5. b.core \in Int /\ l[Recovery(m)] = k[Recovery(m)]
    BY <1>1, <2>2
  <2> HIDE DEF k, l, a
  <2>6. l[TreasuryAccount] - k[TreasuryAccount]
          = (b.treasury.available - c.treasury.available)
            + (b.wallet[m].recovery - c.wallet[m].recovery)
    BY <1>8, <1>9, <2>1, <2>3
  <2>7. l[Core] - k[Core] = b.core - c.core
    BY <1>2, <2>2, <2>3, <2>5
  <2>8. l[Cash] - k[Cash] - (c.core - b.core)
          = (c.treasury.available - b.treasury.available)
            + (c.treasury.reserved - b.treasury.reserved)
            + (c.wallet[m].available - b.wallet[m].available)
            + (c.wallet[m].reserved - b.wallet[m].reserved)
    BY <1>2, <1>8, <1>9, <2>2, <2>3, <2>5
  <2>9. /\ l[a] - k[a] = b.wallet[m].available - c.wallet[m].available
        /\ l[Recovery(m)] - k[Recovery(m)] = c.wallet[m].recovery - b.wallet[m].recovery
    BY <1>9, <2>1, <2>3, <2>5
  <2> QED
    BY <2>1, <2>2, <2>4, <2>6, <2>7, <2>8, <2>9 DEF LedgerMoves, k, l, a
<1>11. c \in Loose(n)
  <2>1. r.funded \in Nat
    BY <1>1 DEF Obligation
  <2>2. c.keys \in SUBSET Keys
    <3> HIDE DEF q, m
    <3> QED
      BY <1>1, <1>4, <2>1 DEF Keys
  <2> HIDE DEF q, m
  <2> QED
    BY <1>1, <1>2, <1>6, <1>7, <1>8, <1>9, <1>10, <2>2 DEF Loose
<1>12. WalletMoves(b, c, m)
  <2>1. /\ Pending(r) \in Int /\ r.due \in Int /\ r.reserved \in Int
        /\ r.paid \in Int /\ r.amount \in Int
    BY <1>1 DEF Obligation, Pending
  <2>2. RowMoves(b, c, i, m)
    <3>1. r.owner = m /\ c.obl[i] = s
      BY <1>2, <1>7
    <3> HIDE DEF q, s, m
    <3> QED
      BY <1>7, <1>9, <2>1, <3>1 DEF RowMoves
  <2>3. \A j \in 1..n : j # i => SameColumns(b.obl[j], c.obl[j])
    BY <1>2, <1>7 DEF SameColumns
  <2> HIDE DEF q, s, m
  <2> QED
    BY <1>1, <1>9, <1>11, <2>2, <2>3, RowMovesWallet
<1>13. Fits(c, h)
  <2> HIDE DEF m
  <2> QED
    BY <1>1, <1>10, <1>11, <1>12, MoveFits
<1>14. SameOwners(b, c, n)
  <2> HIDE DEF q, s
  <2> QED
    BY <1>2, <1>7 DEF SameOwners
<1> QED
  BY <1>11, <1>13, <1>14 DEF c

\* A status is nobody's money.
LEMMA StatusFits ==
  ASSUME NEW n \in Nat, NEW b \in Loose(n), NEW h, Fits(b, h), NEW i \in 1..n,
         NEW t \in ObligationStatuses
  PROVE  /\ [b EXCEPT !.obl[i].status = t] \in Loose(n)
         /\ Fits([b EXCEPT !.obl[i].status = t], h)
         /\ SameOwners(b, [b EXCEPT !.obl[i].status = t], n)
<1> DEFINE c == [b EXCEPT !.obl[i].status = t]
           r == b.obl[i]
           s == [r EXCEPT !.status = t]
           q == [b.obl EXCEPT ![i] = s]
<1>1. /\ b.obl \in Rows(n) /\ DOMAIN b.obl = 1..n /\ b.wallet \in [Members -> LooseWallet]
      /\ b.treasury \in LooseTreasury /\ b.core \in Int
      /\ b.ledger \in [Accounts -> Int] /\ b.keys \in SUBSET Keys
      /\ r \in Obligation
  BY LooseParts
<1>2. /\ c.obl = q /\ c.wallet = b.wallet /\ c.treasury = b.treasury
      /\ c.core = b.core /\ c.ledger = b.ledger /\ c.keys = b.keys
  BY <1>1 DEF Loose
<1>3. /\ DOMAIN c = {"obl", "wallet", "treasury", "core", "ledger", "keys"}
      /\ c = [f \in DOMAIN c |-> c[f]]
  BY <1>1 DEF Loose
<1> HIDE DEF c
<1>4. /\ q \in Rows(n) /\ q[i] = s /\ (\A j \in 1..n : j # i => q[j] = b.obl[j])
      /\ s.owner = r.owner /\ s.due = r.due /\ s.reserved = r.reserved
      /\ s.paid = r.paid /\ s.amount = r.amount /\ Pending(s) = Pending(r)
  <2> HIDE DEF r
  <2>1. s \in Obligation
    BY <1>1 DEF Obligation
  <2>2. /\ s.owner = r.owner /\ s.due = r.due /\ s.reserved = r.reserved
        /\ s.paid = r.paid /\ s.amount = r.amount
        /\ s.recovered = r.recovered /\ s.funded = r.funded
    BY <1>1 DEF Obligation
  <2> HIDE DEF s
  <2> QED
    BY <1>1, <2>1, <2>2 DEF Rows, Pending
<1>5. c \in Loose(n)
  <2> HIDE DEF q
  <2> QED
    BY <1>1, <1>2, <1>3, <1>4 DEF Loose
<1>6. \A z : /\ Waits(q, z) = Waits(b.obl, z) /\ Owes(q, z) = Owes(b.obl, z)
             /\ Holds(q, z) = Holds(b.obl, z) /\ Got(q, z) = Got(b.obl, z)
             /\ Earns(q, z) = Earns(b.obl, z)
  <2>1. \A j \in 1..n :
          /\ q[j].owner = b.obl[j].owner /\ q[j].due = b.obl[j].due
          /\ q[j].reserved = b.obl[j].reserved /\ q[j].paid = b.obl[j].paid
          /\ q[j].amount = b.obl[j].amount /\ Pending(q[j]) = Pending(b.obl[j])
    <3> TAKE j \in 1..n
    <3> HIDE DEF q, s
    <3> QED
      BY <1>4
  <2> HIDE DEF q
  <2> QED
    BY <1>1, <1>4, <2>1, SameSums
<1>7. Fits(c, h)
  <2>1. Debts(c) = Debts(b) /\ Funds(c) = Funds(b)
    BY <1>1, <1>2, SameWallets
  <2>2. \A z \in Members : RowFits(c, z)
    <3> HIDE DEF q
    <3> QED
      BY <1>2, <1>6 DEF Fits, RowFits
  <2>3. LedgerFits(c, h)
    BY <1>2, <2>1 DEF Fits, LedgerFits
  <2>4. CashFits(c)
    BY <1>2, <2>1 DEF Fits, CashFits
  <2> QED
    BY <2>2, <2>3, <2>4 DEF Fits
<1>8. SameOwners(b, c, n)
  <2> HIDE DEF q, s
  <2> QED
    BY <1>2, <1>4 DEF SameOwners
<1> QED
  BY <1>5, <1>7, <1>8 DEF c

Runs(n) == [books: Loose(n), stopped: BOOLEAN, thrown: BOOLEAN]

\* One turn of the loop.
LEMMA AllocateOneFits ==
  ASSUME NEW n \in Nat, NEW run \in Runs(n), NEW h, Fits(run.books, h), NEW i \in 1..n
  PROVE  /\ AllocateOne(run, i) \in Runs(n)
         /\ Fits(AllocateOne(run, i).books, h)
         /\ SameOwners(run.books, AllocateOne(run, i).books, n)
<1> DEFINE b == run.books
           r == b.obl[i]
           owed == Smaller(b.wallet[r.owner].recovery, Pending(r))
           rest == Pending(r) - owed
           after == IF owed > 0 THEN Offset(b, i, owed) ELSE b
<1>1. /\ b \in Loose(n) /\ Fits(b, h) /\ r \in Obligation /\ r.owner \in Members
      /\ b.wallet[r.owner] \in LooseWallet
  <2>1. b \in Loose(n) /\ Fits(b, h)
    BY DEF Runs
  <2> HIDE DEF b
  <2> QED
    BY <2>1, LooseParts
<1>2. owed \in Int /\ rest \in Nat
  <2> HIDE DEF b, r
  <2>1. Pending(r) \in Int
    BY <1>1 DEF Pending, Obligation
  <2>2. b.wallet[r.owner].recovery \in Int
    BY <1>1 DEF LooseWallet
  <2> QED
    BY <2>1, <2>2 DEF Smaller
<1>3. AllocateOne(run, i) \in
        {run, [run EXCEPT !.thrown = TRUE]}
        \/ /\ owed > 0 => owed <= DebtOf(b, r.owner)
           /\ AllocateOne(run, i) \in
                {[run EXCEPT !.books = [after EXCEPT !.obl[i].status = "CANCELLED"]],
                 [run EXCEPT !.books = after, !.stopped = TRUE],
                 [run EXCEPT !.books = after],
                 [run EXCEPT !.books = Fund(after, i, rest)]}
  <2> DEFINE A == DebtOf(b, r.owner)
  <2>1. A \in Nat
    <3> HIDE DEF b
    <3>1. b.obl \in Rows(n)
      BY <1>1, LooseParts
    <3>2. A = Owes(b.obl, r.owner)
      BY SumsOwned
    <3>3. Owes(b.obl, r.owner) \in Nat
      BY <1>1, <3>1, ColumnsInt
    <3> QED
      BY <3>2, <3>3
  <2>2. owed > A \/ owed <= A
    <3> HIDE DEF A, owed
    <3> QED
      BY <1>2, <2>1
  <2> QED
    BY <2>2 DEF AllocateOne
<1> HIDE DEF b
<1>4. ASSUME owed > 0 => owed <= DebtOf(b, r.owner)
      PROVE  after \in Loose(n) /\ Fits(after, h) /\ SameOwners(b, after, n)
  <2>1. CASE owed > 0
    <3>1. owed \in Nat /\ owed <= Owes(b.obl, b.obl[i].owner)
      <4>1. owed <= Owes(b.obl, r.owner)
        BY <1>4, <2>1, SumsOwned
      <4> HIDE DEF owed
      <4> QED
        BY <1>2, <2>1, <4>1
    <3> HIDE DEF owed
    <3>2. /\ Offset(b, i, owed) \in Loose(n) /\ Fits(Offset(b, i, owed), h)
          /\ SameOwners(b, Offset(b, i, owed), n)
      BY <1>1, <3>1, OffsetFits
    <3> QED
      BY <2>1, <3>2
  <2>2. CASE ~(owed > 0)
    BY <1>1, <2>2 DEF SameOwners
  <2> QED
    BY <2>1, <2>2
<1> HIDE DEF after, rest
<1>5. ASSUME after \in Loose(n) /\ Fits(after, h) /\ SameOwners(b, after, n)
      PROVE  LET u == [after EXCEPT !.obl[i].status = "CANCELLED"]
                 v == Fund(after, i, rest)
             IN  /\ u \in Loose(n) /\ Fits(u, h) /\ SameOwners(b, u, n)
                 /\ v \in Loose(n) /\ Fits(v, h) /\ SameOwners(b, v, n)
  <2>1. "CANCELLED" \in ObligationStatuses
    BY DEF ObligationStatuses
  <2> DEFINE u == [after EXCEPT !.obl[i].status = "CANCELLED"]
             v == Fund(after, i, rest)
  <2>2. u \in Loose(n) /\ Fits(u, h) /\ SameOwners(after, u, n)
    BY <1>5, <2>1, StatusFits
  <2>3. v \in Loose(n) /\ Fits(v, h) /\ SameOwners(after, v, n)
    BY <1>2, <1>5, FundFits
  <2> HIDE DEF u, v
  <2>4. SameOwners(b, u, n) /\ SameOwners(b, v, n)
    BY <1>5, <2>2, <2>3 DEF SameOwners
  <2> QED
    BY <2>2, <2>3, <2>4 DEF u, v
<1> DEFINE Good(g) == g \in Runs(n) /\ Fits(g.books, h) /\ SameOwners(run.books, g.books, n)
<1>6. ASSUME NEW c \in Loose(n), Fits(c, h), SameOwners(b, c, n)
      PROVE  Good([run EXCEPT !.books = c]) /\ Good([run EXCEPT !.books = c, !.stopped = TRUE])
  BY <1>6 DEF Runs, b
<1>7. Good(run) /\ Good([run EXCEPT !.thrown = TRUE])
  BY DEF Runs, SameOwners
<1>8. CASE AllocateOne(run, i) \in {run, [run EXCEPT !.thrown = TRUE]}
  <2>1. Good(AllocateOne(run, i))
    <3> HIDE DEF Good
    <3> QED
      BY <1>7, <1>8
  <2> QED
    BY <2>1
<1>9. CASE /\ owed > 0 => owed <= DebtOf(b, r.owner)
           /\ AllocateOne(run, i) \in
                {[run EXCEPT !.books = [after EXCEPT !.obl[i].status = "CANCELLED"]],
                 [run EXCEPT !.books = after, !.stopped = TRUE],
                 [run EXCEPT !.books = after],
                 [run EXCEPT !.books = Fund(after, i, rest)]}
  <2>1. after \in Loose(n) /\ Fits(after, h) /\ SameOwners(b, after, n)
    BY <1>4, <1>9
  <2> DEFINE u == [after EXCEPT !.obl[i].status = "CANCELLED"]
             v == Fund(after, i, rest)
  <2>2. /\ u \in Loose(n) /\ Fits(u, h) /\ SameOwners(b, u, n)
        /\ v \in Loose(n) /\ Fits(v, h) /\ SameOwners(b, v, n)
    BY <1>5, <2>1
  <2>3. AllocateOne(run, i) \in {[run EXCEPT !.books = u], [run EXCEPT !.books = v],
                                 [run EXCEPT !.books = after, !.stopped = TRUE],
                                 [run EXCEPT !.books = after]}
    BY <1>9
  <2> HIDE DEF u, v, owed, r, Good
  <2>4. Good(AllocateOne(run, i))
    BY <1>6, <2>1, <2>2, <2>3
  <2> QED
    BY <2>4 DEF Good
<1> QED
  BY <1>3, <1>8, <1>9 DEF b, after, rest

LEMMA AllocateFits ==
  ASSUME NEW n \in Nat, NEW b \in Loose(n), NEW h, Fits(b, h)
  PROVE  /\ Allocate(b) \in Runs(n) /\ Fits(Allocate(b).books, h)
         /\ SameOwners(b, Allocate(b).books, n)
<1> DEFINE start == [books |-> b, stopped |-> FALSE, thrown |-> FALSE]
           Turn(g, i) == IF i = 0 THEN start
                         ELSE IF i \in Waiting(b) THEN AllocateOne(g[i - 1], i)
                         ELSE g[i - 1]
           Upto(g, k) == \A i \in 0..k : g[i] = Turn(g, i)
           All(f) == f = [i \in 0..n |-> Turn(f, i)]
           run == CHOOSE f : All(f)
<1>1. Len(b.obl) = n /\ start \in Runs(n) /\ start.books = b
  <2>1. b.obl \in [1..n -> Obligation]
    BY LooseParts DEF Rows
  <2>2. Len(b.obl) = n
    BY <2>1
  <2> QED
    BY <2>2 DEF Runs
<1>2. \E g : Upto(g, n)
  <2> DEFINE A == {k \in Nat : \E g : Upto(g, k)}
  <2>1. 0 \in A
    <3>1. Upto([i \in 0..0 |-> start], 0)
      OBVIOUS
    <3> QED
      BY <3>1
  <2>2. ASSUME NEW k \in Nat, k \in A PROVE k + 1 \in A
    <3>1. PICK g : Upto(g, k)
      BY <2>2
    <3> DEFINE next == IF k + 1 \in Waiting(b) THEN AllocateOne(g[k], k + 1) ELSE g[k]
               f == [i \in 0..(k + 1) |-> IF i = k + 1 THEN next ELSE g[i]]
    <3> HIDE DEF start
    <3>2. ASSUME NEW i \in 0..(k + 1) PROVE f[i] = Turn(f, i)
      <4>1. CASE i = k + 1
        <5>1. f[i] = next /\ f[i - 1] = g[k] /\ i # 0
          <6> HIDE DEF next
          <6> QED
            BY <4>1
        <5> QED
          BY <4>1, <5>1
      <4>2. CASE i # k + 1
        <5>1. i \in 0..k /\ (i # 0 => i - 1 \in 0..k)
          BY <4>2
        <5>2. f[i] = g[i] /\ (i # 0 => f[i - 1] = g[i - 1])
          <6> HIDE DEF next
          <6> QED
            BY <5>1
        <5>3. g[i] = Turn(g, i)
          BY <3>1, <5>1
        <5> HIDE DEF f
        <5> QED
          BY <5>2, <5>3
      <4> QED
        BY <4>1, <4>2
    <3> HIDE DEF f
    <3>3. Upto(f, k + 1)
      BY <3>2
    <3> QED
      BY <3>3
  <2> HIDE DEF A
  <2>3. n \in A
    BY <2>1, <2>2, NumbersByInduction
  <2> QED
    BY <2>3 DEF A
<1>3. \E f : All(f)
  <2>1. PICK g : Upto(g, n)
    BY <1>2
  <2> DEFINE f == [i \in 0..n |-> g[i]]
  <2> HIDE DEF start
  <2>2. ASSUME NEW i \in 0..n PROVE f[i] = Turn(f, i)
    <3>1. f[i] = g[i] /\ (i # 0 => f[i - 1] = g[i - 1])
      OBVIOUS
    <3>2. g[i] = Turn(g, i)
      BY <2>1
    <3> HIDE DEF f
    <3> QED
      BY <3>1, <3>2
  <2>3. f = [i \in 0..n |-> f[i]]
    OBVIOUS
  <2> HIDE DEF f
  <2>4. All(f)
    BY <2>2, <2>3
  <2> QED
    BY <2>4
<1>4. All(run)
  <2> HIDE DEF All
  <2> QED
    BY <1>3
<1>5. Allocate(b) = run[n]
  BY <1>1 DEF Allocate
<1> HIDE DEF run
<1>6. \A i \in 0..n : run[i] = Turn(run, i)
  <2> HIDE DEF start
  <2> QED
    BY <1>4
<1> DEFINE B == {k \in Nat : k <= n => /\ run[k] \in Runs(n) /\ Fits(run[k].books, h)
                                      /\ SameOwners(b, run[k].books, n)}
<1>7. 0 \in B
  <2>1. run[0] = start
    <3>1. 0 \in 0..n
      OBVIOUS
    <3>2. run[0] = Turn(run, 0)
      BY <1>6, <3>1
    <3> HIDE DEF start
    <3> QED
      BY <3>2
  <2>2. run[0] \in Runs(n) /\ Fits(run[0].books, h) /\ SameOwners(b, run[0].books, n)
    BY <1>1, <2>1 DEF SameOwners
  <2> QED
    BY <2>2
<1>8. ASSUME NEW k \in Nat, k \in B PROVE k + 1 \in B
  <2> SUFFICES ASSUME k + 1 <= n
               PROVE  /\ run[k + 1] \in Runs(n) /\ Fits(run[k + 1].books, h)
                      /\ SameOwners(b, run[k + 1].books, n)
    OBVIOUS
  <2>1. run[k] \in Runs(n) /\ Fits(run[k].books, h) /\ SameOwners(b, run[k].books, n)
    BY <1>8
  <2>2. run[k + 1] = IF k + 1 \in Waiting(b) THEN AllocateOne(run[k], k + 1) ELSE run[k]
    <3>1. k + 1 \in 0..n /\ k + 1 # 0 /\ (k + 1) - 1 = k
      OBVIOUS
    <3>2. run[k + 1] = Turn(run, k + 1)
      BY <1>6, <3>1
    <3> QED
      BY <3>1, <3>2
  <2>3. LET g == AllocateOne(run[k], k + 1)
        IN  g \in Runs(n) /\ Fits(g.books, h) /\ SameOwners(run[k].books, g.books, n)
    <3>1. k + 1 \in 1..n
      OBVIOUS
    <3> QED
      BY <2>1, <3>1, AllocateOneFits
  <2> QED
    BY <2>1, <2>2, <2>3 DEF SameOwners
<1>9. n \in B
  <2> HIDE DEF B
  <2> QED
    BY <1>7, <1>8, NumbersByInduction
<1> QED
  BY <1>5, <1>9

-----------------------------------------------------------------------------
(* Money into the treasury.                                                *)

Columns == {"obl", "wallet", "treasury", "core", "ledger", "keys"}

\* x comes in from the outside, or from the core wallet.
Gains(b, c, x) ==
  /\ DOMAIN c = Columns /\ c = [f \in DOMAIN c |-> c[f]]
  /\ c.obl = b.obl /\ c.wallet = b.wallet /\ c.keys = b.keys
  /\ c.treasury = [b.treasury EXCEPT !.available = b.treasury.available + x]
  /\ \/ c.core = b.core /\ c.ledger = Post(b.ledger, Cash, TreasuryAccount, x)
     \/ c.core = b.core - x /\ c.ledger = Post(b.ledger, Core, TreasuryAccount, x)

LEMMA GainFits ==
  ASSUME NEW n \in Nat, NEW b \in Loose(n), NEW h, Fits(b, h), NEW x \in Nat, NEW c, Gains(b, c, x)
  PROVE  c \in Loose(n) /\ Fits(c, h)
<1>1. /\ b.obl \in Rows(n) /\ b.wallet \in [Members -> LooseWallet]
      /\ b.treasury \in LooseTreasury /\ b.core \in Int
      /\ b.ledger \in [Accounts -> Int] /\ b.keys \in SUBSET Keys
  BY LooseParts
<1>2. /\ c.treasury \in LooseTreasury
      /\ c.treasury.available = b.treasury.available + x
      /\ c.treasury.reserved = b.treasury.reserved
      /\ b.treasury.available \in Int /\ b.treasury.reserved \in Int
  <2> DEFINE t == b.treasury
  <2>1. t \in LooseTreasury
    BY <1>1
  <2>2. c.treasury = [t EXCEPT !.available = t.available + x]
    BY DEF Gains
  <2> HIDE DEF t
  <2>3. t.available + x \in Int /\ t.available \in Int /\ t.reserved \in Int
    BY <2>1 DEF LooseTreasury
  <2> QED
    BY <2>1, <2>2, <2>3 DEF LooseTreasury, t
<1>3. c.core \in Int /\ c.ledger \in [Accounts -> Int] /\ CashMoves(b, c, h)
  <2> DEFINE k == b.ledger
             l == c.ledger
  <2>1. /\ k \in [Accounts -> Int] /\ TreasuryAccount \in Accounts
        /\ Cash \in Accounts /\ Core \in Accounts
        /\ Cash # TreasuryAccount /\ Core # TreasuryAccount /\ Cash # Core /\ x \in Int
    BY <1>1, AccountNames
  <2>2. /\ k[TreasuryAccount] \in Int /\ k[Core] \in Int /\ k[Cash] \in Int
    BY <2>1
  <2>3. c.obl = b.obl /\ c.wallet = b.wallet
    BY DEF Gains
  <2>4. \A p \in Payouts : -k[Reserved(p)] = h[p]
    BY DEF Fits, LedgerFits
  <2>5. CASE c.core = b.core /\ l = Post(k, Cash, TreasuryAccount, x)
    <3>1. /\ l \in [Accounts -> Int]
          /\ l[TreasuryAccount] = k[TreasuryAccount] - x
          /\ l[Cash] = k[Cash] + x
          /\ l[Core] = k[Core]
          /\ \A d \in Accounts : d \notin {Cash, Core, TreasuryAccount} => l[d] = k[d]
      <4> HIDE DEF k, l
      <4> QED
        BY <2>1, <2>5 DEF Post
    <3>2. /\ \A z \in Members : l[Available(z)] = k[Available(z)] /\ l[Recovery(z)] = k[Recovery(z)]
          /\ \A p \in Payouts : l[Reserved(p)] = k[Reserved(p)]
      BY <3>1, AccountNames
    <3>3. c.core = b.core /\ b.core \in Int
      BY <1>1, <2>5
    <3> HIDE DEF k, l
    <3>4. l[TreasuryAccount] - k[TreasuryAccount] = b.treasury.available - c.treasury.available
      BY <1>2, <2>2, <3>1
    <3>5. l[Core] - k[Core] = b.core - c.core
      BY <2>2, <3>1, <3>3
    <3>6. l[Cash] - k[Cash] - (c.core - b.core)
            = (c.treasury.available - b.treasury.available)
              + (c.treasury.reserved - b.treasury.reserved)
      BY <1>2, <2>2, <3>1, <3>3
    <3> QED
      BY <2>3, <2>4, <3>1, <3>2, <3>3, <3>4, <3>5, <3>6 DEF CashMoves, k, l
  <2>6. CASE c.core = b.core - x /\ l = Post(k, Core, TreasuryAccount, x)
    <3>1. /\ l \in [Accounts -> Int]
          /\ l[TreasuryAccount] = k[TreasuryAccount] - x
          /\ l[Core] = k[Core] + x
          /\ l[Cash] = k[Cash]
          /\ \A d \in Accounts : d \notin {Cash, Core, TreasuryAccount} => l[d] = k[d]
      <4> HIDE DEF k, l
      <4> QED
        BY <2>1, <2>6 DEF Post
    <3>2. /\ \A z \in Members : l[Available(z)] = k[Available(z)] /\ l[Recovery(z)] = k[Recovery(z)]
          /\ \A p \in Payouts : l[Reserved(p)] = k[Reserved(p)]
      BY <3>1, AccountNames
    <3>3. c.core = b.core - x /\ b.core \in Int /\ c.core \in Int
      BY <1>1, <2>6
    <3> HIDE DEF k, l
    <3>4. l[TreasuryAccount] - k[TreasuryAccount] = b.treasury.available - c.treasury.available
      BY <1>2, <2>2, <3>1
    <3>5. l[Core] - k[Core] = b.core - c.core
      BY <2>2, <3>1, <3>3
    <3>6. l[Cash] - k[Cash] - (c.core - b.core)
            = (c.treasury.available - b.treasury.available)
              + (c.treasury.reserved - b.treasury.reserved)
      BY <1>2, <2>2, <3>1, <3>3
    <3> QED
      BY <2>3, <2>4, <3>1, <3>2, <3>3, <3>4, <3>5, <3>6 DEF CashMoves, k, l
  <2> QED
    BY <2>5, <2>6 DEF Gains
<1>4. c \in Loose(n)
  BY <1>1, <1>2, <1>3 DEF Loose, Gains, Columns
<1> QED
  BY <1>3, <1>4, CashMoveFits

\* Money credited to the treasury is allocated with the books together.
LEMMA CreditedFits ==
  ASSUME NEW n \in Nat, NEW b \in Loose(n), NEW h, Fits(b, h), NEW x \in Nat
  PROVE  /\ LET g == Credited(b, Cash, x)
            IN  g \in Runs(n) /\ Fits(g.books, h) /\ SameOwners(b, g.books, n)
         /\ LET g == Credited([b EXCEPT !.core = @ - x], Core, x)
            IN  g \in Runs(n) /\ Fits(g.books, h) /\ SameOwners(b, g.books, n)
<1>1. /\ b.treasury \in LooseTreasury
  BY LooseParts
<1>2. LET g == Credited(b, Cash, x)
      IN  g \in Runs(n) /\ Fits(g.books, h) /\ SameOwners(b, g.books, n)
  <2> DEFINE c == [b EXCEPT !.treasury.available = @ + x,
                            !.ledger = Post(@, Cash, TreasuryAccount, x)]
  <2>1. Gains(b, c, x)
    BY <1>1 DEF Gains, Columns, Loose, LooseTreasury
  <2>2. c \in Loose(n) /\ Fits(c, h) /\ c.obl = b.obl
    <3> HIDE DEF c
    <3> QED
      BY <2>1, GainFits DEF Gains
  <2>3. Credited(b, Cash, x) = Allocate(c)
    BY DEF Credited
  <2> HIDE DEF c
  <2> QED
    BY <2>2, <2>3, AllocateFits DEF SameOwners
<1>3. LET e == [b EXCEPT !.core = @ - x]
          g == Credited(e, Core, x)
      IN  g \in Runs(n) /\ Fits(g.books, h) /\ SameOwners(b, g.books, n)
  <2> DEFINE e == [b EXCEPT !.core = @ - x]
             c == [e EXCEPT !.treasury.available = @ + x,
                            !.ledger = Post(@, Core, TreasuryAccount, x)]
  <2>1. Gains(b, c, x)
    BY <1>1 DEF Gains, Columns, Loose, LooseTreasury
  <2>2. c \in Loose(n) /\ Fits(c, h) /\ c.obl = b.obl
    <3> HIDE DEF c
    <3> QED
      BY <2>1, GainFits DEF Gains
  <2>3. Credited(e, Core, x) = Allocate(c)
    BY DEF Credited
  <2> HIDE DEF c
  <2> QED
    BY <2>2, <2>3, AllocateFits DEF SameOwners
<1> QED
  BY <1>2, <1>3

-----------------------------------------------------------------------------
(* Conversions.                                                            *)

LEMMA OneMore ==
  ASSUME NEW n \in Nat, NEW f, NEW g, \A i \in 1..n : f[i] \in Int /\ g[i] = f[i],
         g[n + 1] \in Int
  PROVE  Total(g, 1..(n + 1)) = Total(f, 1..n) + g[n + 1]
<1>1. \A i \in 1..(n + 1) : g[i] \in Int
  OBVIOUS
<1>2. Total(g, 1..(n + 1)) = Total(g, 1..n) + g[n + 1]
  BY <1>1, RangeSum
<1>3. IsFiniteSet(1..n)
  BY FS_Interval
<1>4. Total(g, 1..n) = Total(f, 1..n)
  BY <1>3, TotalExtends
<1> QED
  BY <1>2, <1>4

\* A row is added.
LEMMA NewRow ==
  ASSUME NEW n \in Nat, NEW o \in Rows(n), NEW q \in Rows(n + 1), NEW m,
         \A i \in 1..n : q[i] = o[i]
  PROVE  LET r == q[n + 1]
             mine == r.owner = m
         IN  /\ Waits(q, m) = Waits(o, m) + (IF mine THEN Pending(r) ELSE 0)
             /\ Owes(q, m) = Owes(o, m) + (IF mine THEN r.due ELSE 0)
             /\ Holds(q, m) = Holds(o, m) + (IF mine THEN r.reserved ELSE 0)
             /\ Got(q, m) = Got(o, m) + (IF mine THEN r.paid ELSE 0)
             /\ Earns(q, m) = Earns(o, m) + (IF mine THEN r.amount ELSE 0)
<1>1. DOMAIN o = 1..n /\ DOMAIN q = 1..(n + 1) /\ n + 1 \in Nat /\ n + 1 \in 1..(n + 1)
  BY DEF Rows
<1>2. /\ \A i \in 1..n : /\ WaitsOf(o, m)[i] \in Int /\ OwesOf(o, m)[i] \in Int
                         /\ HoldsOf(o, m)[i] \in Int /\ GotOf(o, m)[i] \in Int
                         /\ EarnsOf(o, m)[i] \in Int
      /\ /\ WaitsOf(q, m)[n + 1] \in Int /\ OwesOf(q, m)[n + 1] \in Int
         /\ HoldsOf(q, m)[n + 1] \in Int /\ GotOf(q, m)[n + 1] \in Int
         /\ EarnsOf(q, m)[n + 1] \in Int
  BY <1>1, ColumnsInt, SMTT(20)
<1>3. \A i \in 1..n :
        /\ WaitsOf(q, m)[i] = WaitsOf(o, m)[i] /\ OwesOf(q, m)[i] = OwesOf(o, m)[i]
        /\ HoldsOf(q, m)[i] = HoldsOf(o, m)[i] /\ GotOf(q, m)[i] = GotOf(o, m)[i]
        /\ EarnsOf(q, m)[i] = EarnsOf(o, m)[i]
  BY <1>1 DEF WaitsOf, OwesOf, HoldsOf, GotOf, EarnsOf
<1>4. Total(WaitsOf(q, m), 1..(n + 1)) = Total(WaitsOf(o, m), 1..n) + WaitsOf(q, m)[n + 1]
  BY <1>2, <1>3, OneMore
<1>5. Total(OwesOf(q, m), 1..(n + 1)) = Total(OwesOf(o, m), 1..n) + OwesOf(q, m)[n + 1]
  BY <1>2, <1>3, OneMore
<1>6. Total(HoldsOf(q, m), 1..(n + 1)) = Total(HoldsOf(o, m), 1..n) + HoldsOf(q, m)[n + 1]
  BY <1>2, <1>3, OneMore
<1>7. Total(GotOf(q, m), 1..(n + 1)) = Total(GotOf(o, m), 1..n) + GotOf(q, m)[n + 1]
  BY <1>2, <1>3, OneMore
<1>8. Total(EarnsOf(q, m), 1..(n + 1)) = Total(EarnsOf(o, m), 1..n) + EarnsOf(q, m)[n + 1]
  BY <1>2, <1>3, OneMore
<1>9. /\ WaitsOf(q, m)[n + 1] = (IF q[n + 1].owner = m THEN Pending(q[n + 1]) ELSE 0)
      /\ OwesOf(q, m)[n + 1] = (IF q[n + 1].owner = m THEN q[n + 1].due ELSE 0)
      /\ HoldsOf(q, m)[n + 1] = (IF q[n + 1].owner = m THEN q[n + 1].reserved ELSE 0)
      /\ GotOf(q, m)[n + 1] = (IF q[n + 1].owner = m THEN q[n + 1].paid ELSE 0)
      /\ EarnsOf(q, m)[n + 1] = (IF q[n + 1].owner = m THEN q[n + 1].amount ELSE 0)
  BY <1>1 DEF WaitsOf, OwesOf, HoldsOf, GotOf, EarnsOf
<1> QED
  BY <1>1, <1>4, <1>5, <1>6, <1>7, <1>8, <1>9 DEF Waits, Owes, Holds, Got, Earns

Validated(b, m, x) ==
  [b EXCEPT !.obl = Append(@, [owner |-> m, amount |-> x, funded |-> 0, recovered |-> 0,
                               due |-> 0, reserved |-> 0, paid |-> 0, status |-> "LOCKED"]),
            !.wallet[m].pending = @ + x]

\* A wallet of which only what is pending moves, with ledger and treasury at rest.
PendingMoves(b, c, m, x) ==
  /\ DOMAIN c = Columns /\ c = [f \in DOMAIN c |-> c[f]]
  /\ c.treasury = b.treasury /\ c.core = b.core /\ c.ledger = b.ledger /\ c.keys = b.keys
  /\ c.wallet = [b.wallet EXCEPT ![m].pending = b.wallet[m].pending + x]

LEMMA PendingStep ==
  ASSUME NEW n \in Nat, NEW b \in Loose(n), NEW h, Fits(b, h), NEW m \in Members, NEW x \in Int,
         NEW k \in Nat, NEW c, PendingMoves(b, c, m, x), c.obl \in Rows(k)
  PROVE  /\ c \in Loose(k) /\ LedgerMoves(b, c, m, h)
         /\ \A z \in Members : z # m => c.wallet[z] = b.wallet[z]
         /\ c.wallet[m].pending = b.wallet[m].pending + x
         /\ c.wallet[m].available = b.wallet[m].available
         /\ c.wallet[m].recovery = b.wallet[m].recovery
         /\ c.wallet[m].reserved = b.wallet[m].reserved
         /\ c.wallet[m].paid = b.wallet[m].paid
         /\ b.wallet[m].pending \in Int /\ b.wallet[m].recovery \in Int
         /\ b.wallet[m].available \in Int /\ b.wallet[m].reserved \in Int
         /\ b.wallet[m].paid \in Int
<1>1. /\ b.wallet \in [Members -> LooseWallet]
      /\ b.treasury \in LooseTreasury /\ b.core \in Int
      /\ b.ledger \in [Accounts -> Int] /\ b.keys \in SUBSET Keys
  BY LooseParts
<1> DEFINE v == b.wallet[m]
           w == [v EXCEPT !.pending = v.pending + x]
<1>2. v \in LooseWallet /\ c.wallet = [b.wallet EXCEPT ![m] = w]
  BY <1>1 DEF PendingMoves, LooseWallet
<1> HIDE DEF v
<1>3. v.pending + x \in Int
  BY <1>2 DEF LooseWallet
<1>4. /\ w \in LooseWallet
      /\ w.pending = v.pending + x /\ w.available = v.available /\ w.recovery = v.recovery
      /\ w.reserved = v.reserved /\ w.paid = v.paid
      /\ v.pending \in Int /\ v.recovery \in Int /\ v.available \in Int
      /\ v.reserved \in Int /\ v.paid \in Int
  BY <1>2, <1>3 DEF LooseWallet
<1> HIDE DEF w
<1>5. /\ c.wallet \in [Members -> LooseWallet] /\ c.wallet[m] = w
      /\ \A z \in Members : z # m => c.wallet[z] = b.wallet[z]
  BY <1>1, <1>2, <1>4
<1>6. c \in Loose(k)
  BY <1>1, <1>5 DEF Loose, PendingMoves, Columns
<1>7. LedgerMoves(b, c, m, h)
  <2>1. \A p \in Payouts : -b.ledger[Reserved(p)] = h[p]
    BY DEF Fits, LedgerFits
  <2>2. /\ c.treasury = b.treasury /\ c.core = b.core /\ c.ledger = b.ledger
    BY DEF PendingMoves
  <2>3. /\ b.ledger[TreasuryAccount] \in Int /\ b.ledger[Core] \in Int /\ b.ledger[Cash] \in Int
        /\ b.ledger[Available(m)] \in Int /\ b.ledger[Recovery(m)] \in Int
    BY <1>1, AccountNames
  <2>4. b.treasury.available \in Int /\ b.treasury.reserved \in Int
    BY <1>1 DEF LooseTreasury
  <2>5. c.wallet[m].recovery = v.recovery /\ c.wallet[m].available = v.available /\ c.wallet[m].reserved = v.reserved
    BY <1>4, <1>5
  <2>6. b.wallet[m] = v
    BY DEF v
  <2> QED
    BY <1>1, <1>4, <2>1, <2>2, <2>3, <2>4, <2>5, <2>6 DEF LedgerMoves
<1> QED
  BY <1>4, <1>5, <1>6, <1>7 DEF v

\* A valid conversion adds what is waiting, and nothing else.
LEMMA ValidatedFits ==
  ASSUME NEW n \in Nat, NEW b \in Loose(n), NEW h, Fits(b, h), NEW m \in Members, NEW x \in Nat
  PROVE  /\ Validated(b, m, x) \in Loose(n + 1) /\ Fits(Validated(b, m, x), h)
         /\ SameOwners(b, Validated(b, m, x), n)
<1> DEFINE o == b.obl
           r == [owner |-> m, amount |-> x, funded |-> 0, recovered |-> 0,
                 due |-> 0, reserved |-> 0, paid |-> 0, status |-> "LOCKED"]
           c == Validated(b, m, x)
           q == Append(o, r)
<1>1. /\ o \in Rows(n) /\ b.wallet \in [Members -> LooseWallet] /\ n + 1 \in Nat
      /\ b.wallet[m] \in LooseWallet
  BY LooseParts
<1>2. r \in Obligation /\ r.owner = m /\ Pending(r) = x
  BY DEF Obligation, ObligationStatuses, Pending
<1>3. c.obl = q /\ PendingMoves(b, c, m, x)
  BY <1>1 DEF Validated, PendingMoves, Columns, Loose, LooseWallet
<1>4. q \in Rows(n + 1) /\ q[n + 1] = r /\ \A i \in 1..n : q[i] = o[i]
  <2>1. o \in [1..n -> Obligation]
    BY <1>1 DEF Rows
  <2>2. o \in Seq(Obligation) /\ Len(o) = n
    BY <2>1
  <2> DEFINE e == r
  <2>3. e \in Obligation /\ q = Append(o, e)
    BY <1>2
  <2> HIDE DEF o, e, q
  <2>4. q \in Seq(Obligation) /\ Len(q) = n + 1 /\ q[n + 1] = e /\ \A i \in 1..n : q[i] = o[i]
    BY <2>2, <2>3
  <2>5. q \in [1..(n + 1) -> Obligation]
    BY <2>4
  <2> QED
    BY <2>4, <2>5 DEF Rows, e
<1> HIDE DEF c
<1>5. /\ c \in Loose(n + 1) /\ LedgerMoves(b, c, m, h)
      /\ \A z \in Members : z # m => c.wallet[z] = b.wallet[z]
      /\ c.wallet[m].pending = b.wallet[m].pending + x
      /\ c.wallet[m].available = b.wallet[m].available
      /\ c.wallet[m].recovery = b.wallet[m].recovery
      /\ c.wallet[m].reserved = b.wallet[m].reserved
      /\ c.wallet[m].paid = b.wallet[m].paid
      /\ b.wallet[m].pending \in Int /\ b.wallet[m].recovery \in Int
      /\ b.wallet[m].available \in Int /\ b.wallet[m].reserved \in Int
      /\ b.wallet[m].paid \in Int
  <2>1. x \in Int /\ c.obl \in Rows(n + 1)
    BY <1>3, <1>4
  <2> HIDE DEF q
  <2> QED
    BY <1>1, <1>3, <2>1, PendingStep
<1>6. /\ \A z : z # m => /\ Waits(q, z) = Waits(o, z) /\ Owes(q, z) = Owes(o, z)
                         /\ Holds(q, z) = Holds(o, z) /\ Got(q, z) = Got(o, z)
                         /\ Earns(q, z) = Earns(o, z)
      /\ Waits(q, m) = Waits(o, m) + x /\ Owes(q, m) = Owes(o, m) /\ Holds(q, m) = Holds(o, m)
      /\ Got(q, m) = Got(o, m) /\ Earns(q, m) = Earns(o, m) + x
  <2>1. \A z : /\ Waits(o, z) \in Int /\ Owes(o, z) \in Int /\ Holds(o, z) \in Int
               /\ Got(o, z) \in Int /\ Earns(o, z) \in Int
    BY <1>1, ColumnsInt
  <2> HIDE DEF o, q
  <2>2. /\ q[n + 1].owner = m /\ Pending(q[n + 1]) = x /\ q[n + 1].due = 0
        /\ q[n + 1].reserved = 0 /\ q[n + 1].paid = 0 /\ q[n + 1].amount = x
    BY <1>2, <1>4
  <2> HIDE DEF o, q, r
  <2>3. \A z : /\ Waits(q, z) = Waits(o, z) + (IF m = z THEN x ELSE 0)
               /\ Owes(q, z) = Owes(o, z) + (IF m = z THEN 0 ELSE 0)
               /\ Holds(q, z) = Holds(o, z) + (IF m = z THEN 0 ELSE 0)
               /\ Got(q, z) = Got(o, z) + (IF m = z THEN 0 ELSE 0)
               /\ Earns(q, z) = Earns(o, z) + (IF m = z THEN x ELSE 0)
    BY <1>1, <1>4, <2>2, NewRow
  <2> QED
    BY <2>1, <2>3
<1>7. WalletMoves(b, c, m)
  <2>1. /\ Waits(o, m) \in Int /\ Owes(o, m) \in Int /\ Holds(o, m) \in Int
        /\ Got(o, m) \in Int /\ Earns(o, m) \in Int
    BY <1>1, ColumnsInt
  <2>2. OthersKeep(o, q, m)
    BY <1>6 DEF OthersKeep
  <2> HIDE DEF q, r
  <2> QED
    BY <1>3, <1>5, <1>6, <2>1, <2>2 DEF WalletMoves
<1>8. Fits(c, h)
  BY <1>1, <1>5, <1>7, MoveFits
<1>9. SameOwners(b, c, n)
  <2> HIDE DEF q
  <2> QED
    BY <1>3, <1>4 DEF SameOwners
<1> QED
  BY <1>5, <1>8, <1>9 DEF c

\* A correction upwards adds to what is waiting.
LEMMA IncreaseFits ==
  ASSUME NEW n \in Nat, NEW b \in Loose(n), NEW h, Fits(b, h), NEW i \in 1..n, NEW x \in Nat
  PROVE  /\ Increase(b, i, x) \in Loose(n) /\ Fits(Increase(b, i, x), h)
         /\ SameOwners(b, Increase(b, i, x), n)
<1> DEFINE r == b.obl[i]
           m == r.owner
           d == x - r.amount
           s == [r EXCEPT !.amount = x, !.status = "LOCKED"]
           q == [b.obl EXCEPT ![i] = s]
           c == Increase(b, i, x)
<1>1. /\ b.obl \in Rows(n) /\ b.wallet \in [Members -> LooseWallet] /\ m \in Members
      /\ b.wallet[m] \in LooseWallet /\ r \in Obligation /\ r.amount \in Nat
      /\ b.wallet[m].pending \in Int
  BY LooseParts DEF Obligation, LooseWallet
<1>2. d \in Int /\ b.wallet[m].pending + x - r.amount = b.wallet[m].pending + d
  <2>1. \A u, v \in Int : u + x - v = u + (x - v) /\ x - v \in Int
    OBVIOUS
  <2> QED
    BY <1>1, <2>1
<1>3. c.obl = q
  BY <1>1 DEF Increase, Loose
<1>4. PendingMoves(b, c, m, d)
  <2>1. c.wallet = [b.wallet EXCEPT ![m].pending = b.wallet[m].pending + x - r.amount]
    BY <1>1 DEF Increase, Loose, LooseWallet
  <2>2. DOMAIN c = Columns /\ c = [f \in DOMAIN c |-> c[f]]
    <3> DEFINE e == [[b EXCEPT !.obl[i].amount = x] EXCEPT !.obl[i].status = "LOCKED"]
               w == b.wallet[m].pending + x - r.amount
    <3>1. DOMAIN e = Columns
      BY DEF Loose, Columns
    <3>2. c = [e EXCEPT !.wallet[m].pending = w]
      BY DEF Increase, Loose
    <3> HIDE DEF e, c, w, m, r
    <3> QED
      BY <3>1, <3>2
  <2>3. c.treasury = b.treasury /\ c.core = b.core /\ c.ledger = b.ledger /\ c.keys = b.keys
    BY DEF Increase, Loose
  <2> HIDE DEF c, d, m, r
  <2> QED
    BY <1>2, <2>1, <2>2, <2>3 DEF PendingMoves
<1> HIDE DEF c
<1>5. /\ q \in Rows(n) /\ q[i] = s /\ (\A j \in 1..n : j # i => q[j] = b.obl[j])
      /\ s.owner = m /\ s.due = r.due /\ s.reserved = r.reserved
      /\ s.paid = r.paid /\ s.amount = x /\ Pending(s) = Pending(r) + d
  <2>1. DOMAIN b.obl = 1..n
    BY <1>1 DEF Rows
  <2>2. m = r.owner
    OBVIOUS
  <2>3. d = x - r.amount
    OBVIOUS
  <2> HIDE DEF r, m, d
  <2>4. s \in Obligation
    BY <1>1 DEF Obligation, ObligationStatuses
  <2>5. /\ s.owner = r.owner /\ s.due = r.due /\ s.reserved = r.reserved
        /\ s.paid = r.paid /\ s.amount = x
        /\ s.recovered = r.recovered /\ s.funded = r.funded
        /\ r.recovered \in Int /\ r.funded \in Int
    BY <1>1 DEF Obligation
  <2> HIDE DEF s
  <2>6. Pending(s) = Pending(r) + d
    BY <1>1, <2>3, <2>5 DEF Pending
  <2>7. q \in Rows(n) /\ q[i] = s /\ (\A j \in 1..n : j # i => q[j] = b.obl[j])
    BY <1>1, <2>1, <2>4 DEF Rows
  <2> QED
    BY <2>2, <2>5, <2>6, <2>7
<1>6. /\ c \in Loose(n) /\ LedgerMoves(b, c, m, h)
      /\ \A z \in Members : z # m => c.wallet[z] = b.wallet[z]
      /\ c.wallet[m].pending = b.wallet[m].pending + d
      /\ c.wallet[m].available = b.wallet[m].available
      /\ c.wallet[m].recovery = b.wallet[m].recovery
      /\ c.wallet[m].reserved = b.wallet[m].reserved
      /\ c.wallet[m].paid = b.wallet[m].paid
      /\ b.wallet[m].pending \in Int /\ b.wallet[m].recovery \in Int
      /\ b.wallet[m].available \in Int /\ b.wallet[m].reserved \in Int
      /\ b.wallet[m].paid \in Int
  <2>1. c.obl \in Rows(n)
    BY <1>3, <1>5
  <2> HIDE DEF q, m, d, r
  <2> QED
    BY <1>1, <1>2, <1>4, <2>1, PendingStep
<1>7. WalletMoves(b, c, m)
  <2>1. /\ Pending(r) \in Int /\ r.due \in Int /\ r.reserved \in Int
        /\ r.paid \in Int /\ r.amount \in Int
    <3> HIDE DEF r
    <3> QED
      BY <1>1 DEF Obligation, Pending
  <2>2. RowMoves(b, c, i, m)
    <3>1. b.obl[i] = r /\ r.owner = m /\ c.obl[i] = s /\ d = x - r.amount
      BY <1>3, <1>5
    <3> HIDE DEF q, s, m, r, d
    <3> QED
      BY <1>2, <1>5, <1>6, <2>1, <3>1 DEF RowMoves
  <2>3. \A j \in 1..n : j # i => SameColumns(b.obl[j], c.obl[j])
    BY <1>3, <1>5 DEF SameColumns
  <2> HIDE DEF q, s, m, d, r
  <2> QED
    BY <1>1, <1>6, <2>2, <2>3, RowMovesWallet
<1>8. Fits(c, h)
  <2> HIDE DEF m
  <2> QED
    BY <1>1, <1>6, <1>7, MoveFits
<1>9. SameOwners(b, c, n)
  <2> HIDE DEF q, s
  <2> QED
    BY <1>3, <1>5 DEF SameOwners
<1> QED
  BY <1>6, <1>8, <1>9 DEF c

\* A correction downwards takes back what it does not pay, or notes the debt.
LEMMA ReduceFits ==
  ASSUME NEW n \in Nat, NEW b \in Loose(n), NEW h, Fits(b, h), NEW i \in 1..n, NEW x \in Nat,
         \A j \in DOMAIN Reduce(b, i, x).obl : Reduce(b, i, x).obl[j] \in Obligation
  PROVE  /\ Reduce(b, i, x) \in Loose(n) /\ Fits(Reduce(b, i, x), h)
         /\ SameOwners(b, Reduce(b, i, x), n)
<1> DEFINE r == b.obl[i]
           m == r.owner
           t == Correction(b, i, x)
           o == ConsumeOthers(b.obl, i, t.others)
           s0 == [b.obl[i] EXCEPT !.amount = x, !.funded = @ - t.funded,
                                  !.recovered = @ - t.recovered, !.due = @ + t.debt]
           status == IF t.debt > 0 THEN "RECOVERY_REQUIRED"
                     ELSE IF x = 0 THEN "CANCELLED"
                     ELSE Derived(s0, PaidUp(s0))
           s == [s0 EXCEPT !.status = status]
           q == [o EXCEPT ![i] = s]
           c == Reduce(b, i, x)
<1>1. /\ b.obl \in Rows(n) /\ DOMAIN b.obl = 1..n /\ b.wallet \in [Members -> LooseWallet]
      /\ b.treasury \in LooseTreasury /\ b.core \in Int
      /\ b.ledger \in [Accounts -> Int] /\ b.keys \in SUBSET Keys
      /\ r \in Obligation /\ m \in Members /\ b.wallet[m] \in LooseWallet
  BY LooseParts
<1>2. /\ t.pending \in Int /\ t.recovered \in Int /\ t.funded \in Int
      /\ t.reclaimed \in Int /\ t.others \in Int /\ t.debt \in Int
      /\ t.debt = t.recovered + t.funded - t.reclaimed
      /\ t.funded = (r.amount - x) - t.pending - t.recovered
  <2> DEFINE reduction == r.amount - x
             pending == Smaller(reduction, Pending(r))
             recovered == Smaller(reduction - pending, r.recovered)
             funded == reduction - pending - recovered
             reclaimed == Smaller(b.wallet[m].available, funded)
             others == reclaimed - Smaller(Spendable(r), reclaimed)
             debt == recovered + funded - reclaimed
  <2>1. t = [pending |-> pending, recovered |-> recovered, funded |-> funded,
             reclaimed |-> reclaimed, others |-> others, debt |-> debt]
    BY DEF Correction
  <2>2. \A u, v \in Int : Smaller(u, v) \in Int
    BY DEF Smaller
  <2>3. /\ reduction \in Int /\ Pending(r) \in Int /\ r.recovered \in Int /\ Spendable(r) \in Int
        /\ b.wallet[m].available \in Int
    <3>1. b.wallet[m].available \in Int
      BY <1>1 DEF LooseWallet
    <3> HIDE DEF r, m
    <3> QED
      BY <1>1, <3>1 DEF Obligation, Pending, Spendable
  <2> HIDE DEF r, m, reduction, t
  <2>4. pending \in Int
    BY <2>2, <2>3
  <2> HIDE DEF pending
  <2>5. recovered \in Int
    <3>1. reduction - pending \in Int
      BY <2>3, <2>4
    <3> QED
      BY <2>2, <2>3, <3>1
  <2> HIDE DEF recovered
  <2>6. funded \in Int
    BY <2>3, <2>4, <2>5
  <2>7. funded = (r.amount - x) - pending - recovered
    BY DEF reduction
  <2> HIDE DEF funded
  <2>8. reclaimed \in Int
    BY <2>2, <2>3, <2>6
  <2> HIDE DEF reclaimed
  <2>9. others \in Int /\ debt \in Int /\ debt = recovered + funded - reclaimed
    BY <2>2, <2>3, <2>5, <2>6, <2>8
  <2> HIDE DEF others, debt
  <2> QED
    BY <2>1, <2>4, <2>5, <2>6, <2>7, <2>8, <2>9
<1> HIDE DEF t
<1>3. /\ DOMAIN o = 1..n /\ \A j \in 1..n : SameColumns(b.obl[j], o[j])
  <2> DEFINE y == t.others
  <2>1. y \in Int
    BY <1>2
  <2> HIDE DEF y
  <2>2. /\ DOMAIN ConsumeOthers(b.obl, i, y) = 1..n
        /\ \A j \in 1..n : LET p == ConsumeOthers(b.obl, i, y)[j]
                           IN  /\ p.owner = b.obl[j].owner /\ p.amount = b.obl[j].amount
                               /\ p.due = b.obl[j].due /\ p.reserved = b.obl[j].reserved
                               /\ p.paid = b.obl[j].paid /\ Pending(p) = Pending(b.obl[j])
    BY <1>1, <2>1, ConsumeOthersEffect
  <2> QED
    BY <2>2 DEF SameColumns, y
<1>4. c.obl = q /\ c.core = b.core /\ c.keys = b.keys
  BY <1>1 DEF Reduce, Loose, t
<1>5. c.treasury = [b.treasury EXCEPT !.available = b.treasury.available + t.reclaimed]
  BY <1>1 DEF Reduce, Loose, LooseTreasury, t
<1>6. c.ledger = Post(Post(b.ledger, Available(m), TreasuryAccount, t.reclaimed),
                      Recovery(m), TreasuryAccount, t.debt)
  BY <1>1 DEF Reduce, Loose, t
<1>7. c.wallet = [b.wallet EXCEPT ![m] = [b.wallet[m] EXCEPT !.pending = @ - t.pending,
                                                             !.available = @ - t.reclaimed,
                                                             !.recovery = @ + t.debt]]
  BY <1>1 DEF Reduce, Loose, t
<1>8. DOMAIN c = Columns /\ c = [f \in DOMAIN c |-> c[f]]
  BY <1>1, ZenonT(60) DEF Reduce, Loose, Columns
<1>9. \A j \in DOMAIN c.obl : c.obl[j] \in Obligation
  OBVIOUS
<1> HIDE DEF c
<1>10. /\ q \in Rows(n) /\ c.obl[i] = s /\ s \in Obligation
       /\ s.owner = m /\ s.due = r.due + t.debt /\ s.reserved = r.reserved
       /\ s.paid = r.paid /\ s.amount = x /\ Pending(s) = Pending(r) - t.pending
       /\ \A j \in 1..n : j # i => SameColumns(b.obl[j], c.obl[j])
  <2>1. DOMAIN q = 1..n /\ q[i] = s /\ \A j \in 1..n : j # i => q[j] = o[j]
    <3> HIDE DEF o, s
    <3> QED
      BY <1>3
  <2>2. q \in Rows(n) /\ s \in Obligation
    <3>1. q = [j \in 1..n |-> q[j]]
      <4> HIDE DEF o, s
      <4> QED
        BY <1>3
    <3> HIDE DEF q, s
    <3> QED
      BY <1>4, <1>9, <2>1, <3>1 DEF Rows
  <2>3. \A j \in 1..n : j # i => SameColumns(b.obl[j], c.obl[j])
    <3> HIDE DEF q, s, o
    <3> QED
      BY <1>3, <1>4, <2>1
  <2>4. s = [r EXCEPT !.amount = x, !.funded = r.funded - t.funded,
                      !.recovered = r.recovered - t.recovered, !.due = r.due + t.debt,
                      !.status = status]
    <3> HIDE DEF status, r, m
    <3> QED
      BY <1>1 DEF Obligation, r
  <2>5. /\ s.owner = m /\ s.due = r.due + t.debt /\ s.reserved = r.reserved
        /\ s.paid = r.paid /\ s.amount = x /\ s.funded = r.funded - t.funded
        /\ s.recovered = r.recovered - t.recovered
        /\ r.funded \in Int /\ r.recovered \in Int /\ r.amount \in Int
    <3>1. m = r.owner
      OBVIOUS
    <3> HIDE DEF status, r, m, s
    <3> QED
      BY <1>1, <2>4, <3>1 DEF Obligation
  <2>6. Pending(s) = Pending(r) - t.pending
    <3> HIDE DEF s, r, q
    <3> QED
      BY <1>2, <2>5 DEF Pending
  <2> HIDE DEF q, s
  <2> QED
    BY <1>4, <2>1, <2>2, <2>3, <2>5, <2>6
<1> HIDE DEF s, q
<1>11. /\ c.treasury \in LooseTreasury
       /\ c.treasury.available = b.treasury.available + t.reclaimed
       /\ c.treasury.reserved = b.treasury.reserved
       /\ b.treasury.available \in Int /\ b.treasury.reserved \in Int
  <2> DEFINE u == b.treasury
  <2>1. u \in LooseTreasury
    BY <1>1
  <2> HIDE DEF u
  <2>2. u.available + t.reclaimed \in Int /\ u.available \in Int /\ u.reserved \in Int
    BY <1>2, <2>1 DEF LooseTreasury
  <2> QED
    BY <1>5, <2>1, <2>2 DEF LooseTreasury, u
<1>12. /\ c.wallet \in [Members -> LooseWallet]
       /\ \A z \in Members : z # m => c.wallet[z] = b.wallet[z]
       /\ c.wallet[m].pending = b.wallet[m].pending - t.pending
       /\ c.wallet[m].available = b.wallet[m].available - t.reclaimed
       /\ c.wallet[m].recovery = b.wallet[m].recovery + t.debt
       /\ c.wallet[m].reserved = b.wallet[m].reserved
       /\ c.wallet[m].paid = b.wallet[m].paid
       /\ b.wallet[m].pending \in Int /\ b.wallet[m].recovery \in Int
       /\ b.wallet[m].available \in Int /\ b.wallet[m].reserved \in Int
       /\ b.wallet[m].paid \in Int
  <2> DEFINE v == b.wallet[m]
             w == [v EXCEPT !.pending = v.pending - t.pending,
                            !.available = v.available - t.reclaimed,
                            !.recovery = v.recovery + t.debt]
  <2>1. v \in LooseWallet
    BY <1>1
  <2>2. c.wallet = [b.wallet EXCEPT ![m] = w]
    BY <1>7
  <2> HIDE DEF m, v
  <2>3. v.pending - t.pending \in Int /\ v.available - t.reclaimed \in Int /\ v.recovery + t.debt \in Int
    BY <1>2, <2>1 DEF LooseWallet
  <2>4. w \in LooseWallet
    BY <2>1, <2>3 DEF LooseWallet
  <2>5. /\ w.pending = v.pending - t.pending /\ w.available = v.available - t.reclaimed
        /\ w.recovery = v.recovery + t.debt /\ w.reserved = v.reserved /\ w.paid = v.paid
        /\ v.pending \in Int /\ v.recovery \in Int /\ v.available \in Int
        /\ v.reserved \in Int /\ v.paid \in Int
    BY <2>1 DEF LooseWallet
  <2> HIDE DEF w
  <2>6. c.wallet[m] = w /\ \A z \in Members : z # m => c.wallet[z] = b.wallet[z]
    BY <1>1, <2>2
  <2>7. c.wallet \in [Members -> LooseWallet]
    BY <1>1, <2>2, <2>4
  <2> QED
    BY <2>5, <2>6, <2>7 DEF v
<1>13. c.ledger \in [Accounts -> Int] /\ LedgerMoves(b, c, m, h)
  <2> DEFINE a == Available(m)
             y == Recovery(m)
             k == b.ledger
             l == c.ledger
             u == t.reclaimed
             v == t.debt
  <2> HIDE DEF m
  <2>1. /\ l \in [Accounts -> Int]
        /\ l[TreasuryAccount] = k[TreasuryAccount] - u - v
        /\ l[a] = k[a] + u
        /\ l[y] = k[y] + v
        /\ \A d \in Accounts : d # TreasuryAccount /\ d # a /\ d # y => l[d] = k[d]
    <3>1. /\ k \in [Accounts -> Int] /\ TreasuryAccount \in Accounts /\ a \in Accounts
          /\ y \in Accounts /\ TreasuryAccount # a /\ TreasuryAccount # y /\ a # y
          /\ u \in Int /\ v \in Int
          /\ l = Post(Post(k, a, TreasuryAccount, u), y, TreasuryAccount, v)
      BY <1>1, <1>2, <1>6, AccountNames
    <3> HIDE DEF a, k, l, y, u, v
    <3> DEFINE g == Post(k, a, TreasuryAccount, u)
    <3>2. /\ g \in [Accounts -> Int]
          /\ g[TreasuryAccount] = k[TreasuryAccount] - u
          /\ g[a] = k[a] + u
          /\ \A d \in Accounts : d # TreasuryAccount /\ d # a => g[d] = k[d]
      BY <3>1 DEF Post
    <3>3. l = Post(g, y, TreasuryAccount, v)
      BY <3>1
    <3> HIDE DEF g
    <3>4. /\ l \in [Accounts -> Int]
          /\ l[TreasuryAccount] = g[TreasuryAccount] - v
          /\ l[y] = g[y] + v
          /\ \A d \in Accounts : d # TreasuryAccount /\ d # y => l[d] = g[d]
      BY <3>1, <3>2, <3>3 DEF Post
    <3> QED
      BY <3>1, <3>2, <3>4
  <2>2. /\ l[Core] = k[Core] /\ l[Cash] = k[Cash]
        /\ \A z \in Members : z # m => l[Recovery(z)] = k[Recovery(z)]
        /\ \A z \in Members : z # m => l[Available(z)] = k[Available(z)]
        /\ \A p \in Payouts : l[Reserved(p)] = k[Reserved(p)]
    BY <1>1, <2>1, AccountNames
  <2>3. /\ k[TreasuryAccount] \in Int /\ k[y] \in Int /\ k[a] \in Int
        /\ k[Core] \in Int /\ k[Cash] \in Int
    BY <1>1, AccountNames
  <2>4. \A p \in Payouts : -k[Reserved(p)] = h[p]
    BY DEF Fits, LedgerFits
  <2>5. b.core \in Int /\ u \in Int /\ v \in Int
    BY <1>1, <1>2
  <2>10. /\ c.treasury.available = b.treasury.available + u
         /\ c.wallet[m].available = b.wallet[m].available - u
         /\ c.wallet[m].recovery = b.wallet[m].recovery + v
    BY <1>11, <1>12
  <2> HIDE DEF k, l, a, y, u, v
  <2>6. l[TreasuryAccount] - k[TreasuryAccount]
          = (b.treasury.available - c.treasury.available)
            + (b.wallet[m].recovery - c.wallet[m].recovery)
    BY <1>11, <1>12, <2>1, <2>3, <2>5, <2>10
  <2>7. l[Core] - k[Core] = b.core - c.core
    BY <1>4, <2>2, <2>3, <2>5
  <2>8. l[Cash] - k[Cash] - (c.core - b.core)
          = (c.treasury.available - b.treasury.available)
            + (c.treasury.reserved - b.treasury.reserved)
            + (c.wallet[m].available - b.wallet[m].available)
            + (c.wallet[m].reserved - b.wallet[m].reserved)
    BY <1>4, <1>11, <1>12, <2>2, <2>3, <2>5, <2>10
  <2>9. /\ l[a] - k[a] = b.wallet[m].available - c.wallet[m].available
        /\ l[y] - k[y] = c.wallet[m].recovery - b.wallet[m].recovery
    BY <1>12, <2>1, <2>3, <2>5, <2>10
  <2> QED
    BY <2>1, <2>2, <2>4, <2>6, <2>7, <2>8, <2>9 DEF LedgerMoves, k, l, a, y
<1>14. c \in Loose(n)
  BY <1>1, <1>4, <1>8, <1>10, <1>11, <1>12, <1>13 DEF Loose, Columns
<1>15. WalletMoves(b, c, m)
  <2>1. /\ Pending(r) \in Int /\ r.due \in Int /\ r.reserved \in Int
        /\ r.paid \in Int /\ r.amount \in Int
    <3> HIDE DEF r
    <3> QED
      BY <1>1 DEF Obligation, Pending
  <2>2. RowMoves(b, c, i, m)
    <3> DEFINE v == b.wallet[m]
               w == c.wallet[m]
    <3>1. r.owner = m /\ b.obl[i] = r
      OBVIOUS
    <3>2. /\ w.pending = v.pending - t.pending /\ w.available = v.available - t.reclaimed
          /\ w.recovery = v.recovery + t.debt /\ w.reserved = v.reserved /\ w.paid = v.paid
          /\ v.pending \in Int /\ v.recovery \in Int /\ v.available \in Int
          /\ v.reserved \in Int /\ v.paid \in Int
      BY <1>12
    <3> HIDE DEF m, r, v, w
    <3>3. /\ w.pending - v.pending = Pending(s) - Pending(r)
          /\ w.recovery - v.recovery = s.due - r.due
          /\ w.reserved - v.reserved = s.reserved - r.reserved
          /\ w.paid - v.paid = s.paid - r.paid
      BY <1>2, <1>10, <2>1, <3>2
    <3>4. (w.pending - v.pending) + (w.available - v.available)
          + (w.reserved - v.reserved) + (w.paid - v.paid)
          - (w.recovery - v.recovery) = s.amount - r.amount
      BY <1>2, <1>10, <2>1, <3>2
    <3> QED
      BY <1>10, <3>1, <3>3, <3>4 DEF RowMoves, v, w
  <2> HIDE DEF m, r
  <2> QED
    BY <1>1, <1>10, <1>12, <1>14, <2>2, RowMovesWallet
<1>16. Fits(c, h)
  <2> HIDE DEF m
  <2> QED
    BY <1>1, <1>13, <1>14, <1>15, MoveFits
<1>17. SameOwners(b, c, n)
  BY <1>10 DEF SameOwners, SameColumns
<1> QED
  BY <1>14, <1>16, <1>17 DEF c

-----------------------------------------------------------------------------
(* Payouts.                                                                *)

\* The shares of a payout add up to it and are its member's.
Shared(b, share, m, x, n) ==
  \E k \in 0..n : /\ share \in [1..k -> Nat]
                  /\ Total(share, 1..k) = x
                  /\ \A i \in 1..k : share[i] # 0 => b.obl[i].owner = m

Withdrawn(b, p, m, x) ==
  LET share == Split(Reservable(b, m), x)
      w == b.wallet[m]
  IN  [b EXCEPT
        !.obl = ReserveShares(@, share),
        !.wallet[m] = [w EXCEPT !.available = @ - x, !.reserved = @ + x],
        !.ledger = Post(@, Available(m), Reserved(p), x)]

\* A withdrawal reserves what it takes out of what is available.
LEMMA WithdrawnFits ==
  ASSUME NEW n \in Nat, NEW b \in Loose(n), NEW h, Fits(b, h), NEW p \in Payouts, NEW m \in Members,
         NEW x \in Nat, SumOf(Reservable(b, m)) >= x,
         NEW g, g[p] = h[p] + x, \A z \in Payouts : z # p => g[z] = h[z]
  PROVE  LET c == Withdrawn(b, p, m, x)
         IN  /\ c \in Loose(n) /\ Fits(c, g) /\ SameOwners(b, c, n)
             /\ Shared(c, Split(Reservable(b, m), x), m, x, n)
<1> DEFINE o == b.obl
           caps == Reservable(b, m)
           share == Split(caps, x)
           q == ReserveShares(o, share)
           c == Withdrawn(b, p, m, x)
<1>1. /\ b.obl \in Rows(n) /\ DOMAIN b.obl = 1..n /\ b.wallet \in [Members -> LooseWallet]
      /\ b.treasury \in LooseTreasury /\ b.core \in Int
      /\ b.ledger \in [Accounts -> Int] /\ b.keys \in SUBSET Keys
      /\ b.wallet[m] \in LooseWallet
  BY LooseParts
<1>2. caps \in [1..n -> Nat] /\ \A i \in 1..n : caps[i] # 0 => o[i].owner = m
  <2>1. \A i \in 1..n : o[i] \in Obligation
    BY <1>1 DEF Rows
  <2>2. \A i \in 1..n : Spendable(o[i]) \in Nat
    BY <2>1 DEF Spendable, Obligation
  <2> QED
    BY <1>1, <2>2 DEF Reservable
<1>3. /\ share \in [1..n -> Nat] /\ Total(share, 1..n) = x
      /\ \A i \in 1..n : share[i] # 0 => o[i].owner = m
  <2>1. Total(caps, 1..n) = SumOf(caps)
    BY <1>2 DEF Total, SumOf
  <2>2. Total(caps, 1..n) \in Int
    <3> HIDE DEF caps
    <3>1. IsFiniteSet(1..n)
      BY FS_Interval
    <3> QED
      BY <1>2, <3>1, TotalInt
  <2>3. x <= Total(caps, 1..n)
    BY <2>1, <2>2
  <2>4. x \in Int
    OBVIOUS
  <2> HIDE DEF caps
  <2>5. Total(share, 1..n) = x
    BY <1>2, <2>3, SplitSum
  <2>6. share \in [1..n -> Nat] /\ \A i \in 1..n : share[i] <= caps[i]
    BY <1>2, <2>4, SplitBounds
  <2> HIDE DEF share
  <2>7. \A i \in 1..n : share[i] # 0 => caps[i] # 0
    BY <1>2, <2>6
  <2> QED
    BY <1>2, <2>5, <2>6, <2>7
<1>4. c.obl = q
  BY <1>1 DEF Withdrawn, Loose
<1>5. c.treasury = b.treasury /\ c.core = b.core /\ c.keys = b.keys
  BY <1>1 DEF Withdrawn, Loose
<1>6. c.ledger = Post(b.ledger, Available(m), Reserved(p), x)
  BY <1>1 DEF Withdrawn, Loose
<1>7. c.wallet = [b.wallet EXCEPT ![m] = [b.wallet[m] EXCEPT !.available = @ - x,
                                                             !.reserved = @ + x]]
  BY <1>1 DEF Withdrawn, Loose
<1>8. DOMAIN c = Columns /\ c = [f \in DOMAIN c |-> c[f]]
  BY <1>1 DEF Withdrawn, Loose, Columns
<1> HIDE DEF c, share
<1>9. /\ q \in Rows(n) /\ DOMAIN q = 1..n
      /\ \A i \in 1..n : /\ q[i].owner = o[i].owner /\ q[i].due = o[i].due /\ q[i].paid = o[i].paid
                         /\ q[i].amount = o[i].amount /\ Pending(q[i]) = Pending(o[i])
                         /\ q[i].reserved = o[i].reserved + share[i]
  <2>1. q = [i \in 1..n |->
               IF share[i] = 0 THEN o[i]
               ELSE [o[i] EXCEPT !.reserved = o[i].reserved + share[i], !.status = "RESERVED"]]
    BY <1>1 DEF ReserveShares
  <2> HIDE DEF q
  <2>2. ASSUME NEW i \in 1..n
        PROVE  /\ q[i].owner = o[i].owner /\ q[i].due = o[i].due /\ q[i].paid = o[i].paid
               /\ q[i].amount = o[i].amount /\ Pending(q[i]) = Pending(o[i])
               /\ q[i].reserved = o[i].reserved + share[i]
               /\ q[i] \in Obligation
    <3> DEFINE r == o[i]
               s == [r EXCEPT !.reserved = r.reserved + share[i], !.status = "RESERVED"]
    <3>1. r \in Obligation /\ share[i] \in Nat
      BY <1>1, <1>3 DEF Rows
    <3>2. q[i] = IF share[i] = 0 THEN r ELSE s
      BY <2>1
    <3> HIDE DEF r
    <3>3. r.reserved + share[i] \in Nat /\ r.reserved \in Int
      BY <3>1 DEF Obligation
    <3>4. /\ s \in Obligation /\ s.owner = r.owner /\ s.due = r.due /\ s.paid = r.paid
          /\ s.amount = r.amount /\ s.funded = r.funded /\ s.recovered = r.recovered
          /\ s.reserved = r.reserved + share[i]
      BY <3>1, <3>3 DEF Obligation, ObligationStatuses
    <3> HIDE DEF s
    <3>5. Pending(s) = Pending(r)
      BY <3>4 DEF Pending
    <3>6. CASE share[i] = 0
      <4>1. q[i] = r /\ r.reserved = r.reserved + share[i]
        BY <3>2, <3>3, <3>6
      <4> QED
        BY <3>1, <4>1 DEF r
    <3>7. CASE share[i] # 0
      BY <3>2, <3>4, <3>5, <3>7 DEF r
    <3> QED
      BY <3>6, <3>7
  <2> QED
    BY <2>1, <2>2 DEF Rows
<1> HIDE DEF q
<1>10. /\ Holds(q, m) = Holds(o, m) + x
       /\ \A z : z # m => Holds(q, z) = Holds(o, z)
       /\ \A z : /\ Waits(q, z) = Waits(o, z) /\ Owes(q, z) = Owes(o, z)
                 /\ Got(q, z) = Got(o, z) /\ Earns(q, z) = Earns(o, z)
  <2>1. share \in [1..n -> Int]
    BY <1>3
  <2>2. /\ Holds(q, m) = Holds(o, m) + Total(share, 1..n)
        /\ \A z : z # m => Holds(q, z) = Holds(o, z)
    <3>1. \A i \in 1..n : /\ q[i].owner = o[i].owner
                          /\ q[i].reserved = o[i].reserved + share[i]
                          /\ share[i] # 0 => o[i].owner = m
      BY <1>3, <1>9
    <3>2. o \in Rows(n) /\ q \in Rows(n)
      BY <1>1, <1>9
    <3> HIDE DEF o
    <3> QED
      BY <2>1, <3>1, <3>2, HoldsShift
  <2>3. \A z : /\ Waits(q, z) = Waits(o, z) /\ Owes(q, z) = Owes(o, z)
               /\ Got(q, z) = Got(o, z) /\ Earns(q, z) = Earns(o, z)
    BY <1>1, <1>9, SameSums
  <2> QED
    BY <1>3, <2>2, <2>3
<1>11. /\ c.wallet \in [Members -> LooseWallet]
       /\ \A z \in Members : z # m => c.wallet[z] = b.wallet[z]
       /\ c.wallet[m].available = b.wallet[m].available - x
       /\ c.wallet[m].reserved = b.wallet[m].reserved + x
       /\ c.wallet[m].pending = b.wallet[m].pending
       /\ c.wallet[m].recovery = b.wallet[m].recovery
       /\ c.wallet[m].paid = b.wallet[m].paid
       /\ b.wallet[m].pending \in Int /\ b.wallet[m].recovery \in Int
       /\ b.wallet[m].available \in Int /\ b.wallet[m].reserved \in Int
       /\ b.wallet[m].paid \in Int
  <2> DEFINE v == b.wallet[m]
             w == [v EXCEPT !.available = v.available - x, !.reserved = v.reserved + x]
  <2>1. v \in LooseWallet
    BY <1>1
  <2>2. c.wallet = [b.wallet EXCEPT ![m] = w]
    BY <1>7
  <2> HIDE DEF v
  <2>3. v.available - x \in Int /\ v.reserved + x \in Int
    BY <2>1 DEF LooseWallet
  <2>4. w \in LooseWallet
    BY <2>1, <2>3 DEF LooseWallet
  <2>5. /\ w.available = v.available - x /\ w.reserved = v.reserved + x
        /\ w.recovery = v.recovery /\ w.pending = v.pending /\ w.paid = v.paid
        /\ v.pending \in Int /\ v.recovery \in Int /\ v.available \in Int
        /\ v.reserved \in Int /\ v.paid \in Int
    BY <2>1 DEF LooseWallet
  <2> HIDE DEF w
  <2>6. c.wallet[m] = w /\ \A z \in Members : z # m => c.wallet[z] = b.wallet[z]
    BY <1>1, <2>2
  <2>7. c.wallet \in [Members -> LooseWallet]
    BY <1>1, <2>2, <2>4
  <2> QED
    BY <2>5, <2>6, <2>7 DEF v
<1>12. c.ledger \in [Accounts -> Int] /\ LedgerMoves(b, c, m, g)
  <2> DEFINE a == Available(m)
             y == Reserved(p)
             k == b.ledger
             l == c.ledger
  <2>1. /\ l \in [Accounts -> Int]
        /\ l[a] = k[a] + x
        /\ l[y] = k[y] - x
        /\ \A d \in Accounts : d # a /\ d # y => l[d] = k[d]
    <3>1. /\ k \in [Accounts -> Int] /\ a \in Accounts /\ y \in Accounts /\ a # y
          /\ x \in Int /\ l = Post(k, a, y, x)
      BY <1>1, <1>6, AccountNames
    <3> HIDE DEF a, k, l, y
    <3> QED
      BY <3>1 DEF Post
  <2>2. /\ l[Core] = k[Core] /\ l[Cash] = k[Cash] /\ l[TreasuryAccount] = k[TreasuryAccount]
        /\ \A z \in Members : l[Recovery(z)] = k[Recovery(z)]
        /\ \A z \in Members : z # m => l[Available(z)] = k[Available(z)]
        /\ \A z \in Payouts : z # p => l[Reserved(z)] = k[Reserved(z)]
    BY <1>1, <2>1, AccountNames
  <2>3. /\ k[TreasuryAccount] \in Int /\ k[y] \in Int /\ k[a] \in Int
        /\ k[Core] \in Int /\ k[Cash] \in Int /\ k[Recovery(m)] \in Int
    BY <1>1, AccountNames
  <2>4. \A z \in Payouts : -l[Reserved(z)] = g[z]
    <3>1. \A z \in Payouts : -k[Reserved(z)] = h[z]
      BY DEF Fits, LedgerFits
    <3>2. -l[y] = g[p]
      <4>1. -k[y] = h[p]
        BY <3>1
      <4> HIDE DEF k, l, y
      <4>2. \A u, v \in Int : u = v - x => -u = -v + x
        OBVIOUS
      <4>3. l[y] \in Int
        BY <2>1, <2>3
      <4> QED
        BY <2>1, <2>3, <4>1, <4>2, <4>3
    <3> QED
      BY <2>2, <3>1, <3>2
  <2>5. /\ c.treasury = b.treasury /\ c.core = b.core /\ b.core \in Int
        /\ b.treasury.available \in Int /\ b.treasury.reserved \in Int
    BY <1>1, <1>5 DEF LooseTreasury
  <2>6. l[Recovery(m)] = k[Recovery(m)]
    BY <2>2
  <2> HIDE DEF k, l, a, y
  <2>7. l[TreasuryAccount] - k[TreasuryAccount]
          = (b.treasury.available - c.treasury.available)
            + (b.wallet[m].recovery - c.wallet[m].recovery)
    BY <1>11, <2>2, <2>3, <2>5
  <2>8. l[Core] - k[Core] = b.core - c.core
    BY <2>2, <2>3, <2>5
  <2>9. l[Cash] - k[Cash] - (c.core - b.core)
          = (c.treasury.available - b.treasury.available)
            + (c.treasury.reserved - b.treasury.reserved)
            + (c.wallet[m].available - b.wallet[m].available)
            + (c.wallet[m].reserved - b.wallet[m].reserved)
    BY <1>11, <2>2, <2>3, <2>5
  <2>10. /\ l[a] - k[a] = b.wallet[m].available - c.wallet[m].available
         /\ l[Recovery(m)] - k[Recovery(m)] = c.wallet[m].recovery - b.wallet[m].recovery
    BY <1>11, <2>1, <2>3, <2>6
  <2> QED
    BY <2>1, <2>2, <2>4, <2>7, <2>8, <2>9, <2>10 DEF LedgerMoves, k, l, a
<1>13. c \in Loose(n)
  BY <1>1, <1>4, <1>5, <1>8, <1>9, <1>11, <1>12 DEF Loose, Columns
<1>14. WalletMoves(b, c, m)
  <2>1. /\ Waits(o, m) \in Int /\ Owes(o, m) \in Int /\ Holds(o, m) \in Int
        /\ Got(o, m) \in Int /\ Earns(o, m) \in Int
    BY <1>1, ColumnsInt
  <2>2. OthersKeep(o, q, m)
    BY <1>10 DEF OthersKeep
  <2> QED
    BY <1>4, <1>10, <1>11, <2>1, <2>2 DEF WalletMoves
<1>15. Fits(c, g)
  BY <1>12, <1>13, <1>14, MoveFits
<1>16. SameOwners(b, c, n)
  BY <1>4, <1>9 DEF SameOwners
<1>17. Shared(c, share, m, x, n)
  BY <1>3, <1>4, <1>9 DEF Shared
<1> QED
  BY <1>13, <1>15, <1>16, <1>17 DEF c, share

\* Only the treasury and a payout of its own move.
TreasuryMoves(b, c, p, da, dr) ==
  LET k == b.ledger
      l == c.ledger
  IN  /\ DOMAIN c = Columns /\ c = [f \in DOMAIN c |-> c[f]]
      /\ c.obl = b.obl /\ c.wallet = b.wallet /\ c.core = b.core /\ c.keys = b.keys
      /\ c.treasury \in LooseTreasury
      /\ c.treasury.available = b.treasury.available + da
      /\ c.treasury.reserved = b.treasury.reserved + dr
      /\ l \in [Accounts -> Int]
      /\ l[TreasuryAccount] = k[TreasuryAccount] - da
      /\ l[Reserved(p)] = k[Reserved(p)] - dr
      /\ l[Cash] = k[Cash] + (da + dr)
      /\ \A a \in Accounts : a \notin {TreasuryAccount, Cash, Reserved(p)} => l[a] = k[a]

LEMMA TreasuryStep ==
  ASSUME NEW n \in Nat, NEW b \in Loose(n), NEW h, Fits(b, h), NEW p \in Payouts,
         NEW da \in Int, NEW dr \in Int, NEW c, TreasuryMoves(b, c, p, da, dr),
         NEW g, g[p] = h[p] + dr, \A z \in Payouts : z # p => g[z] = h[z]
  PROVE  c \in Loose(n) /\ Fits(c, g)
<1> DEFINE k == b.ledger
           l == c.ledger
           y == Reserved(p)
<1>1. /\ b.obl \in Rows(n) /\ b.wallet \in [Members -> LooseWallet]
      /\ b.treasury \in LooseTreasury /\ b.core \in Int
      /\ b.ledger \in [Accounts -> Int] /\ b.keys \in SUBSET Keys
      /\ b.treasury.available \in Int /\ b.treasury.reserved \in Int
  BY LooseParts DEF LooseTreasury
<1>2. c \in Loose(n)
  BY <1>1 DEF Loose, TreasuryMoves, Columns
<1>3. /\ c.obl = b.obl /\ c.wallet = b.wallet /\ c.core = b.core
      /\ c.treasury.available = b.treasury.available + da
      /\ c.treasury.reserved = b.treasury.reserved + dr
      /\ l[TreasuryAccount] = k[TreasuryAccount] - da
      /\ l[y] = k[y] - dr
      /\ l[Cash] = k[Cash] + (da + dr)
      /\ \A a \in Accounts : a \notin {TreasuryAccount, Cash, y} => l[a] = k[a]
  BY DEF TreasuryMoves
<1>4. /\ k[TreasuryAccount] \in Int /\ k[y] \in Int /\ k[Core] \in Int /\ k[Cash] \in Int
      /\ l[y] \in Int
  <2>1. l \in [Accounts -> Int]
    BY DEF TreasuryMoves
  <2> QED
    BY <1>1, <2>1, AccountNames
<1>5. /\ l[Core] = k[Core]
      /\ \A z \in Members : l[Recovery(z)] = k[Recovery(z)] /\ l[Available(z)] = k[Available(z)]
      /\ \A z \in Payouts : z # p => l[Reserved(z)] = k[Reserved(z)]
  <2> HIDE DEF k, l
  <2> QED
    BY <1>3, AccountNames
<1>6. \A z \in Payouts : -l[Reserved(z)] = g[z]
  <2>1. \A z \in Payouts : -k[Reserved(z)] = h[z]
    BY DEF Fits, LedgerFits
  <2>2. -l[y] = g[p]
    <3>1. -k[y] = h[p]
      BY <2>1
    <3>2. \A u, v \in Int : u = v - dr => -u = -v + dr
      OBVIOUS
    <3> HIDE DEF k, l, y
    <3> QED
      BY <1>3, <1>4, <3>1, <3>2
  <2> QED
    BY <1>5, <2>1, <2>2
<1>7. CashMoves(b, c, g)
  <2> HIDE DEF k, l, y
  <2>1. l[TreasuryAccount] - k[TreasuryAccount] = b.treasury.available - c.treasury.available
    BY <1>1, <1>3, <1>4
  <2>2. l[Core] - k[Core] = b.core - c.core
    BY <1>1, <1>3, <1>4, <1>5
  <2>3. l[Cash] - k[Cash] - (c.core - b.core)
          = (c.treasury.available - b.treasury.available)
            + (c.treasury.reserved - b.treasury.reserved)
    BY <1>1, <1>3, <1>4
  <2> QED
    BY <1>3, <1>5, <1>6, <2>1, <2>2, <2>3 DEF CashMoves, k, l
<1> QED
  BY <1>2, <1>7, CashMoveFits

TreasuryHeld(b, p, x) ==
  [b EXCEPT !.treasury.available = @ - x, !.treasury.reserved = @ + x,
            !.ledger = Post(@, TreasuryAccount, Reserved(p), x)]
TreasuryPaid(b, p, x) ==
  [b EXCEPT !.treasury.reserved = @ - x, !.treasury.withdrawn = @ + x,
            !.ledger = Post(@, Reserved(p), Cash, x)]
TreasuryReleased(b, p, x) ==
  [b EXCEPT !.treasury.reserved = @ - x, !.treasury.available = @ + x,
            !.ledger = Post(@, Reserved(p), TreasuryAccount, x)]

LEMMA TreasuryOperations ==
  ASSUME NEW n \in Nat, NEW b \in Loose(n), NEW h, Fits(b, h), NEW p \in Payouts, NEW x \in Nat
  PROVE  /\ TreasuryMoves(b, TreasuryHeld(b, p, x), p, -x, x)
         /\ TreasuryMoves(b, TreasuryPaid(b, p, x), p, 0, -x)
         /\ TreasuryMoves(b, TreasuryReleased(b, p, x), p, x, -x)
<1> DEFINE t == b.treasury
           k == b.ledger
           y == Reserved(p)
<1>1. /\ t \in LooseTreasury /\ k \in [Accounts -> Int] /\ x \in Int /\ -x \in Int
      /\ t.available \in Int /\ t.reserved \in Int /\ t.withdrawn \in Int
  BY LooseParts DEF LooseTreasury
<1>2. /\ TreasuryAccount \in Accounts /\ Cash \in Accounts /\ y \in Accounts
      /\ y # TreasuryAccount /\ y # Cash /\ Cash # TreasuryAccount
  BY AccountNames
<1>3. /\ \A v \in Int : v - x = v + (-x) /\ v + 0 = v /\ v - (-x) = v + x /\ v - 0 = v
                        /\ v - x \in Int /\ v + x \in Int
      /\ (-x) + x = 0 /\ 0 + (-x) = -x /\ x + (-x) = 0
  BY <1>1
<1>4. \A a \in Accounts : k[a] \in Int
  BY <1>1
<1>5. TreasuryMoves(b, TreasuryHeld(b, p, x), p, -x, x)
  <2> DEFINE c == TreasuryHeld(b, p, x)
             l == c.ledger
  <2>1. /\ DOMAIN c = Columns /\ c = [f \in DOMAIN c |-> c[f]]
        /\ c.obl = b.obl /\ c.wallet = b.wallet /\ c.core = b.core /\ c.keys = b.keys
    BY DEF TreasuryHeld, Loose, Columns
  <2>2. c.treasury = [t EXCEPT !.available = t.available - x, !.reserved = t.reserved + x]
    BY <1>1 DEF TreasuryHeld, Loose, LooseTreasury
  <2>3. l = Post(k, TreasuryAccount, y, x)
    BY DEF TreasuryHeld, Loose
  <2> HIDE DEF c, t, k, y
  <2>4. /\ c.treasury \in LooseTreasury
        /\ c.treasury.available = t.available - x /\ c.treasury.reserved = t.reserved + x
    BY <1>1, <1>3, <2>2 DEF LooseTreasury
  <2>5. /\ l \in [Accounts -> Int] /\ l[TreasuryAccount] = k[TreasuryAccount] + x
        /\ l[y] = k[y] - x
        /\ \A a \in Accounts : a # TreasuryAccount /\ a # y => l[a] = k[a]
    <3> HIDE DEF l
    <3> QED
      BY <1>1, <1>2, <2>3 DEF Post
  <2> HIDE DEF l
  <2>6. /\ l[TreasuryAccount] = k[TreasuryAccount] - (-x)
        /\ l[Cash] = k[Cash] + ((-x) + x)
    BY <1>2, <1>3, <1>4, <2>5
  <2>7. /\ c.treasury.available = t.available + (-x)
    BY <1>1, <1>3, <2>4
  <2> QED
    BY <2>1, <2>4, <2>5, <2>6, <2>7 DEF TreasuryMoves, c, t, k, y, l
<1>6. TreasuryMoves(b, TreasuryPaid(b, p, x), p, 0, -x)
  <2> DEFINE c == TreasuryPaid(b, p, x)
             l == c.ledger
  <2>1. /\ DOMAIN c = Columns /\ c = [f \in DOMAIN c |-> c[f]]
        /\ c.obl = b.obl /\ c.wallet = b.wallet /\ c.core = b.core /\ c.keys = b.keys
    BY DEF TreasuryPaid, Loose, Columns
  <2>2. c.treasury = [t EXCEPT !.reserved = t.reserved - x, !.withdrawn = t.withdrawn + x]
    BY <1>1 DEF TreasuryPaid, Loose, LooseTreasury
  <2>3. l = Post(k, y, Cash, x)
    BY DEF TreasuryPaid, Loose
  <2> HIDE DEF c, t, k, y
  <2>4. /\ c.treasury \in LooseTreasury
        /\ c.treasury.available = t.available /\ c.treasury.reserved = t.reserved - x
    BY <1>1, <1>3, <2>2 DEF LooseTreasury
  <2>5. /\ l \in [Accounts -> Int] /\ l[Cash] = k[Cash] - x
        /\ l[y] = k[y] + x
        /\ \A a \in Accounts : a # Cash /\ a # y => l[a] = k[a]
    <3> HIDE DEF l
    <3> QED
      BY <1>1, <1>2, <2>3 DEF Post
  <2> HIDE DEF l
  <2>6. /\ l[TreasuryAccount] = k[TreasuryAccount] - 0
        /\ l[Cash] = k[Cash] + (0 + (-x))
        /\ l[y] = k[y] - (-x)
    BY <1>2, <1>3, <1>4, <2>5
  <2>7. /\ c.treasury.available = t.available + 0
        /\ c.treasury.reserved = t.reserved + (-x)
    BY <1>1, <1>3, <2>4
  <2> QED
    BY <2>1, <2>4, <2>5, <2>6, <2>7 DEF TreasuryMoves, c, t, k, y, l
<1>7. TreasuryMoves(b, TreasuryReleased(b, p, x), p, x, -x)
  <2> DEFINE c == TreasuryReleased(b, p, x)
             l == c.ledger
  <2>1. /\ DOMAIN c = Columns /\ c = [f \in DOMAIN c |-> c[f]]
        /\ c.obl = b.obl /\ c.wallet = b.wallet /\ c.core = b.core /\ c.keys = b.keys
    BY DEF TreasuryReleased, Loose, Columns
  <2>2. c.treasury = [t EXCEPT !.reserved = t.reserved - x, !.available = t.available + x]
    BY <1>1 DEF TreasuryReleased, Loose, LooseTreasury
  <2>3. l = Post(k, y, TreasuryAccount, x)
    BY DEF TreasuryReleased, Loose
  <2> HIDE DEF c, t, k, y
  <2>4. /\ c.treasury \in LooseTreasury
        /\ c.treasury.available = t.available + x /\ c.treasury.reserved = t.reserved - x
    BY <1>1, <1>3, <2>2 DEF LooseTreasury
  <2>5. /\ l \in [Accounts -> Int] /\ l[TreasuryAccount] = k[TreasuryAccount] - x
        /\ l[y] = k[y] + x
        /\ \A a \in Accounts : a # TreasuryAccount /\ a # y => l[a] = k[a]
    <3> HIDE DEF l
    <3> QED
      BY <1>1, <1>2, <2>3 DEF Post
  <2> HIDE DEF l
  <2>6. /\ l[Cash] = k[Cash] + (x + (-x))
        /\ l[y] = k[y] - (-x)
    BY <1>2, <1>3, <1>4, <2>5
  <2>7. /\ c.treasury.reserved = t.reserved + (-x)
    BY <1>1, <1>3, <2>4
  <2> QED
    BY <2>1, <2>4, <2>5, <2>6, <2>7 DEF TreasuryMoves, c, t, k, y, l
<1> QED
  BY <1>5, <1>6, <1>7

\* A member's payout that was paid: the shares are spent.
MemberPaid(b, p, m, x, share) ==
  LET w == b.wallet[m]
  IN  [b EXCEPT
        !.obl = SettleAllocations(@, share, TRUE, 0),
        !.wallet[m] = [w EXCEPT !.reserved = @ - x, !.paid = @ + x],
        !.ledger = Post(@, Reserved(p), Cash, x)]

\* The shares of one member's payout leave what is reserved.
Leaves(o, q, d, m, n) ==
  \A i \in 1..n : /\ o[i].owner = q[i].owner
                  /\ o[i].reserved = q[i].reserved + d[i]
                  /\ d[i] # 0 => q[i].owner = m
Receives(o, q, e, m, n) ==
  \A i \in 1..n : /\ q[i].owner = o[i].owner
                  /\ q[i].paid = o[i].paid + e[i]
                  /\ e[i] # 0 => o[i].owner = m

LEMMA HoldsLeave ==
  ASSUME NEW n \in Nat, NEW o \in Rows(n), NEW q \in Rows(n), NEW d \in [1..n -> Int], NEW m,
         Leaves(o, q, d, m, n)
  PROVE  /\ Holds(o, m) = Holds(q, m) + Total(d, 1..n)
         /\ \A z : z # m => Holds(o, z) = Holds(q, z)
BY HoldsShift DEF Leaves

LEMMA GotReceive ==
  ASSUME NEW n \in Nat, NEW o \in Rows(n), NEW q \in Rows(n), NEW e \in [1..n -> Int], NEW m,
         Receives(o, q, e, m, n)
  PROVE  /\ Got(q, m) = Got(o, m) + Total(e, 1..n)
         /\ \A z : z # m => Got(q, z) = Got(o, z)
BY GotShift DEF Receives

LEMMA SharesLeave ==
  ASSUME NEW n \in Nat, NEW o \in Rows(n), NEW q \in Rows(n),
         NEW d \in [1..n -> Int], NEW e \in [1..n -> Int], NEW m,
         Leaves(o, q, d, m, n), Receives(o, q, e, m, n)
  PROVE  /\ Holds(q, m) = Holds(o, m) - Total(d, 1..n)
         /\ Got(q, m) = Got(o, m) + Total(e, 1..n)
         /\ \A z : z # m => Holds(q, z) = Holds(o, z) /\ Got(q, z) = Got(o, z)
<1>1. /\ Holds(o, m) = Holds(q, m) + Total(d, 1..n)
      /\ \A z : z # m => Holds(o, z) = Holds(q, z)
  BY HoldsLeave
<1>2. /\ Got(q, m) = Got(o, m) + Total(e, 1..n)
      /\ \A z : z # m => Got(q, z) = Got(o, z)
  BY GotReceive
<1>3. Holds(q, m) \in Int /\ Total(d, 1..n) \in Int
  <2>1. IsFiniteSet(1..n)
    BY FS_Interval
  <2> QED
    BY <2>1, ColumnsInt, TotalInt
<1> QED
  BY <1>1, <1>2, <1>3

\* Settling the allocations of a payout spends its shares, or gives them back.
OwnersAs(b, o, n) == \A i \in 1..n : b.obl[i].owner = o[i].owner

LEMMA SharesSettled ==
  ASSUME NEW n \in Nat, NEW o \in Rows(n), NEW b, OwnersAs(b, o, n),
         NEW share, NEW m, NEW x \in Nat, Shared(b, share, m, x, n),
         NEW isPaid \in BOOLEAN, NEW y \in Int, NEW q \in Rows(n),
         q = SettleAllocations(o, share, isPaid, y)
  PROVE  /\ \A i \in 1..n : q[i].owner = o[i].owner
         /\ Holds(q, m) = Holds(o, m) - x
         /\ Got(q, m) = Got(o, m) + (IF isPaid THEN x ELSE 0)
         /\ \A z : z # m => Holds(q, z) = Holds(o, z) /\ Got(q, z) = Got(o, z)
         /\ \A z : Waits(q, z) = Waits(o, z) /\ Owes(q, z) = Owes(o, z) /\ Earns(q, z) = Earns(o, z)
<1> DEFINE d == Padded(share, n)
           e == [i \in 1..n |-> IF isPaid THEN d[i] ELSE 0]
<1>1. PICK k \in 0..n : /\ share \in [1..k -> Nat]
                        /\ Total(share, 1..k) = x
                        /\ \A i \in 1..k : share[i] # 0 => b.obl[i].owner = m
  BY DEF Shared
<1>2. DOMAIN o = 1..n
  BY DEF Rows
<1>4. \A i \in 1..n :
        /\ q[i].owner = o[i].owner /\ q[i].amount = o[i].amount /\ q[i].due = o[i].due
        /\ Pending(q[i]) = Pending(o[i])
        /\ q[i].reserved = o[i].reserved - d[i]
        /\ q[i].paid = o[i].paid + (IF isPaid THEN d[i] ELSE 0)
  BY <1>1, SettleAllocationsEffect
<1>5. /\ d \in [1..n -> Nat] /\ Total(d, 1..n) = x
  BY <1>1, PaddedSum
<1>6. \A i \in 1..n : d[i] # 0 => o[i].owner = m
  <2>1. \A i \in 1..n : d[i] # 0 => i \in 1..k /\ share[i] # 0
    BY <1>1 DEF Padded
  <2> HIDE DEF d
  <2> QED
    BY <1>1, <2>1 DEF OwnersAs
<1>7. e \in [1..n -> Int] /\ d \in [1..n -> Int] /\ Total(e, 1..n) = IF isPaid THEN x ELSE 0
  <2>1. IsFiniteSet(1..n) /\ d \in [1..n -> Int]
    <3>1. IsFiniteSet(1..n)
      BY FS_Interval
    <3> HIDE DEF d
    <3> QED
      BY <1>5, <3>1
  <2>2. e \in [1..n -> Int]
    <3> HIDE DEF d
    <3> QED
      BY <2>1
  <2>3. CASE isPaid
    <3>1. \A i \in 1..n : e[i] = d[i]
      BY <2>3
    <3> HIDE DEF d, e
    <3> QED
      BY <1>5, <2>1, <2>2, <2>3, <3>1, TotalExtends
  <2>4. CASE ~isPaid
    <3>1. \A i \in 1..n : e[i] = 0
      BY <2>4
    <3> HIDE DEF d, e
    <3> QED
      BY <2>1, <2>2, <2>4, <3>1, TotalZero
  <2> QED
    BY <2>1, <2>2, <2>3, <2>4
<1>9. Leaves(o, q, d, m, n)
  <2>1. \A i \in 1..n : o[i].reserved \in Int /\ d[i] \in Int
    <3> HIDE DEF d
    <3> QED
      BY <1>7 DEF Rows, Obligation
  <2> HIDE DEF d
  <2> QED
    BY <1>4, <1>6, <2>1 DEF Leaves
<1>10. Receives(o, q, e, m, n)
  <2> HIDE DEF d
  <2> QED
    BY <1>4, <1>6 DEF Receives
<1> HIDE DEF d, e
<1>11. /\ Holds(q, m) = Holds(o, m) - Total(d, 1..n)
       /\ Got(q, m) = Got(o, m) + Total(e, 1..n)
       /\ \A z : z # m => Holds(q, z) = Holds(o, z) /\ Got(q, z) = Got(o, z)
  BY <1>7, <1>9, <1>10, SharesLeave
<1>8. \A z : Waits(q, z) = Waits(o, z) /\ Owes(q, z) = Owes(o, z) /\ Earns(q, z) = Earns(o, z)
  BY <1>4, SameSums
<1> QED
  BY <1>4, <1>5, <1>7, <1>8, <1>11

LEMMA MemberPaidFits ==
  ASSUME NEW n \in Nat, NEW b \in Loose(n), NEW h, Fits(b, h), NEW p \in Payouts, NEW m \in Members,
         NEW x \in Nat, NEW share, Shared(b, share, m, x, n),
         \A j \in DOMAIN MemberPaid(b, p, m, x, share).obl :
            MemberPaid(b, p, m, x, share).obl[j] \in Obligation,
         NEW g, g[p] = h[p] - x, \A z \in Payouts : z # p => g[z] = h[z]
  PROVE  LET c == MemberPaid(b, p, m, x, share)
         IN  c \in Loose(n) /\ Fits(c, g) /\ SameOwners(b, c, n)
<1> DEFINE o == b.obl
           q == SettleAllocations(o, share, TRUE, 0)
           c == MemberPaid(b, p, m, x, share)
<1>1. /\ b.obl \in Rows(n) /\ DOMAIN b.obl = 1..n /\ b.wallet \in [Members -> LooseWallet]
      /\ b.treasury \in LooseTreasury /\ b.core \in Int
      /\ b.ledger \in [Accounts -> Int] /\ b.keys \in SUBSET Keys
      /\ b.wallet[m] \in LooseWallet
  BY LooseParts
<1>4. c.obl = q
  BY <1>1 DEF MemberPaid, Loose
<1>5. c.treasury = b.treasury /\ c.core = b.core /\ c.keys = b.keys
  BY <1>1 DEF MemberPaid, Loose
<1>6. c.ledger = Post(b.ledger, Reserved(p), Cash, x)
  BY <1>1 DEF MemberPaid, Loose
<1>7. c.wallet = [b.wallet EXCEPT ![m] = [b.wallet[m] EXCEPT !.reserved = @ - x, !.paid = @ + x]]
  BY <1>1 DEF MemberPaid, Loose
<1>8. DOMAIN c = Columns /\ c = [f \in DOMAIN c |-> c[f]]
  BY <1>1 DEF MemberPaid, Loose, Columns
<1>2. \A i \in DOMAIN q : q[i] \in Obligation
  BY <1>4
<1> HIDE DEF c
<1>3. q \in Rows(n)
  <2>1. q = [i \in 1..n |-> q[i]]
    BY <1>1 DEF SettleAllocations
  <2> HIDE DEF q
  <2> QED
    BY <1>2, <2>1 DEF Rows
<1>9. /\ \A i \in 1..n : q[i].owner = o[i].owner
      /\ Holds(q, m) = Holds(o, m) - x
      /\ Got(q, m) = Got(o, m) + (IF TRUE THEN x ELSE 0)
      /\ \A z : z # m => Holds(q, z) = Holds(o, z) /\ Got(q, z) = Got(o, z)
      /\ \A z : Waits(q, z) = Waits(o, z) /\ Owes(q, z) = Owes(o, z) /\ Earns(q, z) = Earns(o, z)
  <2>1. o \in Rows(n) /\ OwnersAs(b, o, n)
    BY <1>1 DEF OwnersAs
  <2>2. TRUE \in BOOLEAN /\ 0 \in Int
    OBVIOUS
  <2>3. q = SettleAllocations(o, share, TRUE, 0)
    OBVIOUS
  <2> HIDE DEF q, o
  <2> QED
    BY <1>3, <2>1, <2>2, <2>3, SharesSettled, ZenonT(60)
<1> HIDE DEF q
<1>11. /\ c.wallet \in [Members -> LooseWallet]
       /\ \A z \in Members : z # m => c.wallet[z] = b.wallet[z]
       /\ c.wallet[m].available = b.wallet[m].available
       /\ c.wallet[m].reserved = b.wallet[m].reserved - x
       /\ c.wallet[m].pending = b.wallet[m].pending
       /\ c.wallet[m].recovery = b.wallet[m].recovery
       /\ c.wallet[m].paid = b.wallet[m].paid + x
       /\ b.wallet[m].pending \in Int /\ b.wallet[m].recovery \in Int
       /\ b.wallet[m].available \in Int /\ b.wallet[m].reserved \in Int
       /\ b.wallet[m].paid \in Int
  <2> DEFINE v == b.wallet[m]
             w == [v EXCEPT !.reserved = v.reserved - x, !.paid = v.paid + x]
  <2>1. v \in LooseWallet
    BY <1>1
  <2>2. c.wallet = [b.wallet EXCEPT ![m] = w]
    BY <1>7
  <2> HIDE DEF v
  <2>3. v.reserved - x \in Int /\ v.paid + x \in Int
    BY <2>1 DEF LooseWallet
  <2>4. w \in LooseWallet
    BY <2>1, <2>3 DEF LooseWallet
  <2>5. /\ w.reserved = v.reserved - x /\ w.paid = v.paid + x
        /\ w.recovery = v.recovery /\ w.pending = v.pending /\ w.available = v.available
        /\ v.pending \in Int /\ v.recovery \in Int /\ v.available \in Int
        /\ v.reserved \in Int /\ v.paid \in Int
    BY <2>1 DEF LooseWallet
  <2> HIDE DEF w
  <2>6. c.wallet[m] = w /\ \A z \in Members : z # m => c.wallet[z] = b.wallet[z]
    BY <1>1, <2>2
  <2>7. c.wallet \in [Members -> LooseWallet]
    BY <1>1, <2>2, <2>4
  <2> QED
    BY <2>5, <2>6, <2>7 DEF v
<1>12. c.ledger \in [Accounts -> Int] /\ LedgerMoves(b, c, m, g)
  <2> DEFINE y == Reserved(p)
             k == b.ledger
             l == c.ledger
  <2>1. /\ l \in [Accounts -> Int]
        /\ l[y] = k[y] + x
        /\ l[Cash] = k[Cash] - x
        /\ \A d \in Accounts : d # Cash /\ d # y => l[d] = k[d]
    <3>1. /\ k \in [Accounts -> Int] /\ Cash \in Accounts /\ y \in Accounts /\ Cash # y
          /\ x \in Int /\ l = Post(k, y, Cash, x)
      BY <1>1, <1>6, AccountNames
    <3> HIDE DEF k, l, y
    <3> QED
      BY <3>1 DEF Post
  <2>2. /\ l[Core] = k[Core] /\ l[TreasuryAccount] = k[TreasuryAccount]
        /\ \A z \in Members : l[Recovery(z)] = k[Recovery(z)] /\ l[Available(z)] = k[Available(z)]
        /\ \A z \in Payouts : z # p => l[Reserved(z)] = k[Reserved(z)]
    BY <1>1, <2>1, AccountNames
  <2>3. /\ k[TreasuryAccount] \in Int /\ k[y] \in Int /\ k[Available(m)] \in Int
        /\ k[Core] \in Int /\ k[Cash] \in Int /\ k[Recovery(m)] \in Int
    BY <1>1, AccountNames
  <2>4. \A z \in Payouts : -l[Reserved(z)] = g[z]
    <3>1. \A z \in Payouts : -k[Reserved(z)] = h[z]
      BY DEF Fits, LedgerFits
    <3>2. -l[y] = g[p]
      <4>1. -k[y] = h[p]
        BY <3>1
      <4> HIDE DEF k, l, y
      <4>2. \A u, v \in Int : u = v + x => -u = -v - x
        OBVIOUS
      <4>3. l[y] \in Int
        BY <2>1, <2>3
      <4> QED
        BY <2>1, <2>3, <4>1, <4>2, <4>3
    <3> QED
      BY <2>2, <3>1, <3>2
  <2>5. /\ c.treasury = b.treasury /\ c.core = b.core /\ b.core \in Int
        /\ b.treasury.available \in Int /\ b.treasury.reserved \in Int
    BY <1>1, <1>5 DEF LooseTreasury
  <2>6. l[Recovery(m)] = k[Recovery(m)] /\ l[Available(m)] = k[Available(m)]
    BY <2>2
  <2> HIDE DEF k, l, y
  <2>7. l[TreasuryAccount] - k[TreasuryAccount]
          = (b.treasury.available - c.treasury.available)
            + (b.wallet[m].recovery - c.wallet[m].recovery)
    BY <1>11, <2>2, <2>3, <2>5
  <2>8. l[Core] - k[Core] = b.core - c.core
    BY <2>2, <2>3, <2>5
  <2>9. l[Cash] - k[Cash] - (c.core - b.core)
          = (c.treasury.available - b.treasury.available)
            + (c.treasury.reserved - b.treasury.reserved)
            + (c.wallet[m].available - b.wallet[m].available)
            + (c.wallet[m].reserved - b.wallet[m].reserved)
    BY <1>11, <2>1, <2>3, <2>5
  <2>10. /\ l[Available(m)] - k[Available(m)] = b.wallet[m].available - c.wallet[m].available
         /\ l[Recovery(m)] - k[Recovery(m)] = c.wallet[m].recovery - b.wallet[m].recovery
    BY <1>11, <2>1, <2>3, <2>6
  <2> QED
    BY <2>1, <2>2, <2>4, <2>7, <2>8, <2>9, <2>10 DEF LedgerMoves, k, l
<1>13. c \in Loose(n)
  BY <1>1, <1>4, <1>5, <1>8, <1>3, <1>11, <1>12 DEF Loose, Columns
<1>14. WalletMoves(b, c, m)
  <2>1. /\ Waits(o, m) \in Int /\ Owes(o, m) \in Int /\ Holds(o, m) \in Int
        /\ Got(o, m) \in Int /\ Earns(o, m) \in Int
    BY <1>1, ColumnsInt
  <2>2. OthersKeep(o, q, m)
    BY <1>9 DEF OthersKeep
  <2> QED
    BY <1>4, <1>9, <1>11, <2>1, <2>2 DEF WalletMoves
<1>15. Fits(c, g)
  BY <1>12, <1>13, <1>14, MoveFits
<1>16. SameOwners(b, c, n)
  BY <1>4, <1>9 DEF SameOwners
<1> QED
  BY <1>13, <1>15, <1>16 DEF c

\* A member's payout that was not: the shares come back, less what he owes.
MemberReleased(b, p, m, x, y, share) ==
  LET w == b.wallet[m]
  IN  [b EXCEPT
        !.obl = SettleAllocations(SettleRecovery(@, m, y), share, FALSE, y),
        !.wallet[m] = [w EXCEPT !.reserved = @ - x, !.available = @ + x - y, !.recovery = @ - y],
        !.treasury.available = @ + y,
        !.ledger = Post(Post(@, Reserved(p), Available(m), x - y), Reserved(p), Recovery(m), y)]

LEMMA MemberReleasedFits ==
  ASSUME NEW n \in Nat, NEW b \in Loose(n), NEW h, Fits(b, h), NEW p \in Payouts, NEW m \in Members,
         NEW x \in Nat, NEW share, Shared(b, share, m, x, n), NEW y \in Nat, y <= Owes(b.obl, m),
         \A j \in DOMAIN MemberReleased(b, p, m, x, y, share).obl :
            MemberReleased(b, p, m, x, y, share).obl[j] \in Obligation,
         NEW g, g[p] = h[p] - x, \A z \in Payouts : z # p => g[z] = h[z]
  PROVE  LET c == MemberReleased(b, p, m, x, y, share)
         IN  c \in Loose(n) /\ Fits(c, g) /\ SameOwners(b, c, n)
<1> DEFINE o == b.obl
           s == SettleRecovery(o, m, y)
           q == SettleAllocations(s, share, FALSE, y)
           c == MemberReleased(b, p, m, x, y, share)
<1>1. /\ b.obl \in Rows(n) /\ DOMAIN b.obl = 1..n /\ b.wallet \in [Members -> LooseWallet]
      /\ b.treasury \in LooseTreasury /\ b.core \in Int
      /\ b.ledger \in [Accounts -> Int] /\ b.keys \in SUBSET Keys
      /\ b.wallet[m] \in LooseWallet
  BY LooseParts
<1>4. c.obl = q
  BY <1>1 DEF MemberReleased, Loose
<1>5. c.core = b.core /\ c.keys = b.keys
  BY <1>1 DEF MemberReleased, Loose
<1>6. c.ledger = Post(Post(b.ledger, Reserved(p), Available(m), x - y), Reserved(p), Recovery(m), y)
  BY <1>1 DEF MemberReleased, Loose
<1>7. c.wallet = [b.wallet EXCEPT ![m] =
                    [b.wallet[m] EXCEPT !.reserved = @ - x, !.available = @ + x - y,
                                        !.recovery = @ - y]]
  BY <1>1 DEF MemberReleased, Loose
<1>17. c.treasury = [b.treasury EXCEPT !.available = @ + y]
  BY <1>1 DEF MemberReleased, Loose
<1>8. DOMAIN c = Columns /\ c = [f \in DOMAIN c |-> c[f]]
  BY <1>1 DEF MemberReleased, Loose, Columns
<1>2. \A i \in DOMAIN q : q[i] \in Obligation
  BY <1>4
<1> HIDE DEF c
<1>3. /\ s \in Rows(n)
      /\ \A i \in 1..n : SameButDue(o[i], s[i])
      /\ Owes(s, m) = Owes(o, m) - y
      /\ \A z : z # m => Owes(s, z) = Owes(o, z)
  BY <1>1, SettleRecoveryEffect
<1>18. /\ \A i \in 1..n : s[i].owner = o[i].owner
       /\ \A z : /\ Waits(s, z) = Waits(o, z) /\ Holds(s, z) = Holds(o, z)
                 /\ Got(s, z) = Got(o, z) /\ Earns(s, z) = Earns(o, z)
  <2> HIDE DEF s
  <2>1. \A i \in 1..n : /\ s[i].owner = o[i].owner /\ Pending(s[i]) = Pending(o[i])
                        /\ s[i].reserved = o[i].reserved /\ s[i].paid = o[i].paid
                        /\ s[i].amount = o[i].amount
    BY <1>3 DEF SameButDue, Pending
  <2> QED
    BY <1>1, <1>3, <2>1, SameSums
<1>19. q \in Rows(n)
  <2>1. DOMAIN s = 1..n
    <3> HIDE DEF s
    <3> QED
      BY <1>3 DEF Rows
  <2> HIDE DEF s
  <2>2. q = [i \in 1..n |-> q[i]]
    BY <2>1 DEF SettleAllocations
  <2> HIDE DEF q
  <2> QED
    BY <1>2, <2>2 DEF Rows
<1>20. /\ \A i \in 1..n : q[i].owner = s[i].owner
       /\ Holds(q, m) = Holds(s, m) - x
       /\ Got(q, m) = Got(s, m) + (IF FALSE THEN x ELSE 0)
       /\ \A z : z # m => Holds(q, z) = Holds(s, z) /\ Got(q, z) = Got(s, z)
       /\ \A z : Waits(q, z) = Waits(s, z) /\ Owes(q, z) = Owes(s, z) /\ Earns(q, z) = Earns(s, z)
  <2>1. OwnersAs(b, s, n)
    <3> HIDE DEF s
    <3> QED
      BY <1>18 DEF OwnersAs
  <2> DEFINE f == FALSE
             v == y
  <2>2. f \in BOOLEAN /\ v \in Int
    OBVIOUS
  <2>3. q = SettleAllocations(s, share, f, v)
    OBVIOUS
  <2>4. s \in Rows(n)
    BY <1>3
  <2>5. /\ \A i \in 1..n : q[i].owner = s[i].owner
        /\ Holds(q, m) = Holds(s, m) - x
        /\ Got(q, m) = Got(s, m) + (IF f THEN x ELSE 0)
        /\ \A z : z # m => Holds(q, z) = Holds(s, z) /\ Got(q, z) = Got(s, z)
        /\ \A z : Waits(q, z) = Waits(s, z) /\ Owes(q, z) = Owes(s, z) /\ Earns(q, z) = Earns(s, z)
    <3> HIDE DEF q, s, f, v
    <3> QED
      BY <1>19, <2>1, <2>2, <2>3, <2>4, SharesSettled
  <2> HIDE DEF q, s
  <2> QED
    BY <2>5
<1> HIDE DEF q, s
<1>9. /\ \A i \in 1..n : q[i].owner = o[i].owner
      /\ Holds(q, m) = Holds(o, m) - x
      /\ Got(q, m) = Got(o, m)
      /\ Owes(q, m) = Owes(o, m) - y
      /\ \A z : z # m => /\ Holds(q, z) = Holds(o, z) /\ Got(q, z) = Got(o, z)
                         /\ Owes(q, z) = Owes(o, z)
      /\ \A z : Waits(q, z) = Waits(o, z) /\ Earns(q, z) = Earns(o, z)
  <2>1. Got(s, m) \in Int
    BY <1>3, ColumnsInt
  <2>2. Got(q, m) = Got(s, m)
    BY <1>20, <2>1
  <2> QED
    BY <1>3, <1>18, <1>20, <2>2
<1>11. /\ c.wallet \in [Members -> LooseWallet]
       /\ \A z \in Members : z # m => c.wallet[z] = b.wallet[z]
       /\ c.wallet[m].available = b.wallet[m].available + x - y
       /\ c.wallet[m].reserved = b.wallet[m].reserved - x
       /\ c.wallet[m].pending = b.wallet[m].pending
       /\ c.wallet[m].recovery = b.wallet[m].recovery - y
       /\ c.wallet[m].paid = b.wallet[m].paid
       /\ b.wallet[m].pending \in Int /\ b.wallet[m].recovery \in Int
       /\ b.wallet[m].available \in Int /\ b.wallet[m].reserved \in Int
       /\ b.wallet[m].paid \in Int
  <2> DEFINE v == b.wallet[m]
             w == [v EXCEPT !.reserved = v.reserved - x, !.available = v.available + x - y,
                            !.recovery = v.recovery - y]
  <2>1. v \in LooseWallet
    BY <1>1
  <2>2. c.wallet = [b.wallet EXCEPT ![m] = w]
    BY <1>7
  <2> HIDE DEF v
  <2>3. v.reserved - x \in Int /\ v.available + x - y \in Int /\ v.recovery - y \in Int
    BY <2>1 DEF LooseWallet
  <2>4. w \in LooseWallet
    BY <2>1, <2>3 DEF LooseWallet
  <2>5. /\ w.reserved = v.reserved - x /\ w.paid = v.paid
        /\ w.recovery = v.recovery - y /\ w.pending = v.pending
        /\ w.available = v.available + x - y
        /\ v.pending \in Int /\ v.recovery \in Int /\ v.available \in Int
        /\ v.reserved \in Int /\ v.paid \in Int
    BY <2>1 DEF LooseWallet
  <2> HIDE DEF w
  <2>6. c.wallet[m] = w /\ \A z \in Members : z # m => c.wallet[z] = b.wallet[z]
    BY <1>1, <2>2
  <2>7. c.wallet \in [Members -> LooseWallet]
    BY <1>1, <2>2, <2>4
  <2> QED
    BY <2>5, <2>6, <2>7 DEF v
<1>21. /\ c.treasury \in LooseTreasury /\ c.treasury.reserved = b.treasury.reserved
       /\ c.treasury.available = b.treasury.available + y
       /\ b.treasury.available \in Int /\ b.treasury.reserved \in Int
  <2>1. b.treasury \in LooseTreasury /\ y \in Int
    BY <1>1
  <2> QED
    BY <1>17, <2>1 DEF LooseTreasury
<1>12. c.ledger \in [Accounts -> Int] /\ LedgerMoves(b, c, m, g)
  <2> DEFINE a == Available(m)
             d == Recovery(m)
             r == Reserved(p)
             k == b.ledger
             l == c.ledger
             k2 == Post(k, r, a, x - y)
  <2>1. /\ l \in [Accounts -> Int]
        /\ l[r] = k[r] + x
        /\ l[a] = k[a] - (x - y)
        /\ l[d] = k[d] - y
        /\ \A f \in Accounts : f # a /\ f # d /\ f # r => l[f] = k[f]
    <3>1. /\ k \in [Accounts -> Int] /\ a \in Accounts /\ d \in Accounts /\ r \in Accounts
          /\ r # a /\ r # d /\ a # d
          /\ x \in Int /\ y \in Int /\ x - y \in Int /\ l = Post(k2, r, d, y)
      BY <1>1, <1>6, AccountNames
    <3> HIDE DEF a, d, k, l, r
    <3>2. /\ k2 \in [Accounts -> Int] /\ k2[r] = k[r] + (x - y) /\ k2[a] = k[a] - (x - y)
          /\ \A f \in Accounts : f # a /\ f # r => k2[f] = k[f]
      BY <3>1 DEF Post
    <3> HIDE DEF k2
    <3>3. /\ l \in [Accounts -> Int] /\ l[r] = k2[r] + y /\ l[d] = k2[d] - y
          /\ \A f \in Accounts : f # d /\ f # r => l[f] = k2[f]
      BY <3>1, <3>2 DEF Post
    <3>4. k[r] \in Int /\ k2[r] \in Int /\ l[r] = k[r] + x
      <4>1. k[r] \in Int /\ k2[r] \in Int
        BY <3>1, <3>2
      <4> QED
        BY <3>1, <3>2, <3>3, <4>1
    <3> QED
      BY <3>1, <3>2, <3>3, <3>4
  <2>2. /\ l[Core] = k[Core] /\ l[TreasuryAccount] = k[TreasuryAccount] /\ l[Cash] = k[Cash]
        /\ \A z \in Members : z # m => /\ l[Recovery(z)] = k[Recovery(z)]
                                       /\ l[Available(z)] = k[Available(z)]
        /\ \A z \in Payouts : z # p => l[Reserved(z)] = k[Reserved(z)]
    BY <1>1, <2>1, AccountNames
  <2>3. /\ k[TreasuryAccount] \in Int /\ k[r] \in Int /\ k[a] \in Int
        /\ k[Core] \in Int /\ k[Cash] \in Int /\ k[d] \in Int
    BY <1>1, AccountNames
  <2>4. \A z \in Payouts : -l[Reserved(z)] = g[z]
    <3>1. \A z \in Payouts : -k[Reserved(z)] = h[z]
      BY DEF Fits, LedgerFits
    <3>2. -l[r] = g[p]
      <4>1. -k[r] = h[p]
        BY <3>1
      <4> HIDE DEF k, l, r, a, d
      <4>2. \A u, v \in Int : u = v + x => -u = -v - x
        OBVIOUS
      <4>3. l[r] \in Int
        BY <2>1, <2>3
      <4> QED
        BY <2>1, <2>3, <4>1, <4>2, <4>3
    <3> QED
      BY <2>2, <3>1, <3>2
  <2>5. c.core = b.core /\ b.core \in Int
    BY <1>1, <1>5
  <2> HIDE DEF k, l, r, a, d, k2
  <2>7. l[TreasuryAccount] - k[TreasuryAccount]
          = (b.treasury.available - c.treasury.available)
            + (b.wallet[m].recovery - c.wallet[m].recovery)
    BY <1>11, <1>21, <2>2, <2>3
  <2>8. l[Core] - k[Core] = b.core - c.core
    BY <2>2, <2>3, <2>5
  <2>9. l[Cash] - k[Cash] - (c.core - b.core)
          = (c.treasury.available - b.treasury.available)
            + (c.treasury.reserved - b.treasury.reserved)
            + (c.wallet[m].available - b.wallet[m].available)
            + (c.wallet[m].reserved - b.wallet[m].reserved)
    BY <1>11, <1>21, <2>2, <2>3, <2>5
  <2>10. /\ l[a] - k[a] = b.wallet[m].available - c.wallet[m].available
         /\ l[d] - k[d] = c.wallet[m].recovery - b.wallet[m].recovery
    BY <1>11, <2>1, <2>3
  <2> QED
    BY <2>1, <2>2, <2>4, <2>7, <2>8, <2>9, <2>10 DEF LedgerMoves, k, l, a, d
<1>13. c \in Loose(n)
  BY <1>1, <1>4, <1>5, <1>8, <1>11, <1>12, <1>19, <1>21 DEF Loose, Columns
<1>14. WalletMoves(b, c, m)
  <2>1. /\ Waits(o, m) \in Int /\ Owes(o, m) \in Int /\ Holds(o, m) \in Int
        /\ Got(o, m) \in Int /\ Earns(o, m) \in Int
    BY <1>1, ColumnsInt
  <2>2. OthersKeep(o, q, m)
    BY <1>9 DEF OthersKeep
  <2> QED
    BY <1>4, <1>9, <1>11, <2>1, <2>2 DEF WalletMoves
<1>15. Fits(c, g)
  BY <1>12, <1>13, <1>14, MoveFits
<1>16. SameOwners(b, c, n)
  BY <1>4, <1>9 DEF SameOwners
<1> QED
  BY <1>13, <1>15, <1>16 DEF c

-----------------------------------------------------------------------------
(* The inductive invariant.                                                *)

TreasuryPayout == [state: {"HELD", "PAID", "FAILED"}, kind: {"TREASURY"}, amount: Amounts]
MemberPayout ==
  [state: {"HELD", "PAID", "FAILED"}, kind: {"MEMBER"}, amount: Amounts,
   member: Members, share: Shares]
PayoutRecords == {NoPayout} \union TreasuryPayout \union MemberPayout

Books ==
  [obl: Seq(Obligation), wallet: [Members -> Wallet], treasury: Treasury,
   core: Nat, ledger: [Accounts -> Int], keys: SUBSET Keys]

Held(pay) == [p \in Payouts |-> IF pay[p].state = "HELD" THEN pay[p].amount ELSE 0]

\* The shares of every payout that holds money add up to what it holds.
AddUp(b, pay, n) ==
  \A p \in Payouts :
    pay[p].state = "HELD" /\ pay[p].kind = "MEMBER"
      => Shared(b, pay[p].share, pay[p].member, pay[p].amount, n)

Kept == Fits(books, Held(payout)) /\ AddUp(books, payout, Len(books.obl))

IInv == TypeOK /\ Kept

LEMMA TypeParts ==
  TypeOK <=> /\ books \in Books /\ Len(books.obl) <= MaxObligations
             /\ payout \in [Payouts -> PayoutRecords]
             /\ done \subseteq Orders \union Transfers
BY DEF TypeOK, Books, PayoutRecords, TreasuryPayout, MemberPayout

LEMMA RowsOfSeq ==
  ASSUME NEW o
  PROVE  /\ o \in Seq(Obligation) => Len(o) \in Nat /\ o \in Rows(Len(o)) /\ DOMAIN o = 1..Len(o)
         /\ \A n \in Nat : o \in Rows(n) => o \in Seq(Obligation) /\ Len(o) = n
BY DEF Rows

LEMMA BooksLoose ==
  ASSUME NEW b \in Books, NEW n, n = Len(b.obl)
  PROVE  /\ n \in Nat /\ b \in Loose(n) /\ DOMAIN b.obl = 1..n
         /\ \A m \in Members : b.wallet[m] \in Wallet
         /\ b.treasury \in Treasury /\ b.core \in Nat
<1>1. b.obl \in Seq(Obligation)
  BY DEF Books
<1>2. n \in Nat /\ b.obl \in Rows(n) /\ DOMAIN b.obl = 1..n
  BY <1>1, RowsOfSeq
<1>3. /\ b.wallet \in [Members -> Wallet] /\ b.treasury \in Treasury /\ b.core \in Nat
      /\ b.ledger \in [Accounts -> Int] /\ b.keys \in SUBSET Keys
      /\ DOMAIN b = Columns /\ b = [f \in DOMAIN b |-> b[f]]
  BY DEF Books, Columns
<1>4. Wallet \subseteq LooseWallet /\ Treasury \subseteq LooseTreasury
  BY DEF Wallet, LooseWallet, Treasury, LooseTreasury
<1>5. b.wallet \in [Members -> LooseWallet] /\ b.treasury \in LooseTreasury /\ b.core \in Int
  <2>1. \A v : v \in Nat => v \in Int
    OBVIOUS
  <2> QED
    BY <1>3, <1>4, <2>1
<1>6. b \in Loose(n)
  BY <1>2, <1>3, <1>5 DEF Loose, Columns
<1> QED
  BY <1>2, <1>3, <1>6

LEMMA LooseBooks ==
  ASSUME NEW n \in Nat, NEW b \in Loose(n),
         \A m \in Members : b.wallet[m] \in Wallet, b.treasury \in Treasury, b.core >= 0
  PROVE  b \in Books /\ Len(b.obl) = n
<1>1. /\ b.obl \in Rows(n) /\ b.wallet \in [Members -> LooseWallet] /\ b.core \in Int
      /\ b.ledger \in [Accounts -> Int] /\ b.keys \in SUBSET Keys
  BY LooseParts
<1>2. b.obl \in Seq(Obligation) /\ Len(b.obl) = n
  BY <1>1, RowsOfSeq
<1>3. b.wallet \in [Members -> Wallet] /\ b.core \in Nat
  BY <1>1
<1>4. DOMAIN b = Columns /\ b = [f \in DOMAIN b |-> b[f]]
  BY DEF Loose, Columns
<1>5. b \in Books
  BY <1>1, <1>2, <1>3, <1>4 DEF Books, Columns
<1> QED
  BY <1>2, <1>5

\* In books that fit, only what is pending and available could be negative.
LEMMA FitWallets ==
  ASSUME NEW n \in Nat, NEW b \in Loose(n), NEW h, Fits(b, h),
         \A m \in Members : b.wallet[m].pending >= 0 /\ b.wallet[m].available >= 0
  PROVE  \A m \in Members : b.wallet[m] \in Wallet
<1> SUFFICES ASSUME NEW m \in Members PROVE b.wallet[m] \in Wallet
  OBVIOUS
<1>1. b.obl \in Rows(n) /\ b.wallet[m] \in LooseWallet
  BY LooseParts
<1>2. Owes(b.obl, m) \in Nat /\ Holds(b.obl, m) \in Nat /\ Got(b.obl, m) \in Nat
  BY <1>1, ColumnsInt
<1> DEFINE w == b.wallet[m]
<1>3. w.recovery \in Nat /\ w.reserved \in Nat /\ w.paid \in Nat
  BY <1>2 DEF Fits, RowFits
<1>4. w \in LooseWallet /\ w.pending >= 0 /\ w.available >= 0
  BY <1>1
<1> HIDE DEF w
<1>5. w.pending \in Nat /\ w.available \in Nat
  BY <1>4 DEF LooseWallet
<1>6. w \in Wallet
  BY <1>3, <1>4, <1>5 DEF LooseWallet, Wallet
<1> QED
  BY <1>6 DEF w

\* Obligations keep their owners, so shares stay what they are.
LEMMA SharesStay ==
  ASSUME NEW n \in Nat, NEW k \in Nat, n <= k, NEW b, NEW c, SameOwners(b, c, n),
         NEW share, NEW m, NEW x, Shared(b, share, m, x, n)
  PROVE  Shared(c, share, m, x, k)
<1>1. PICK j \in 0..n : /\ share \in [1..j -> Nat]
                        /\ Total(share, 1..j) = x
                        /\ \A i \in 1..j : share[i] # 0 => b.obl[i].owner = m
  BY DEF Shared
<1>2. j \in 0..k /\ \A i \in 1..j : i \in 1..n
  OBVIOUS
<1>3. \A i \in 1..j : share[i] # 0 => c.obl[i].owner = m
  BY <1>1, <1>2 DEF SameOwners
<1> QED
  BY <1>1, <1>2, <1>3 DEF Shared

LEMMA AddUpStays ==
  ASSUME NEW n \in Nat, NEW k \in Nat, n <= k, NEW b, NEW c, SameOwners(b, c, n), NEW pay,
         AddUp(b, pay, n)
  PROVE  AddUp(c, pay, k)
BY SharesStay DEF AddUp

LEMMA InitKept == Init => IInv
<1> SUFFICES ASSUME Init PROVE IInv
  OBVIOUS
<1> DEFINE w == [pending |-> 0, available |-> 0, reserved |-> 0, paid |-> 0, recovery |-> 0]
           t == [available |-> 0, reserved |-> 0, paid |-> 0, withdrawn |-> 0]
<1>1. /\ books.obl = << >> /\ books.wallet = [m \in Members |-> w] /\ books.treasury = t
      /\ books.core = CoreBalance /\ books.keys = {}
      /\ books.ledger = [a \in Accounts |-> IF a = Core THEN -CoreBalance ELSE 0]
      /\ DOMAIN books = Columns /\ books = [f \in DOMAIN books |-> books[f]]
  BY DEF Init, Columns
<1>2. CoreBalance \in Nat /\ MaxObligations \in Nat /\ IsFiniteSet(Members)
  BY ConstantsAssumption
<1>3. w \in Wallet /\ t \in Treasury
  BY DEF Wallet, Treasury
<1>4. books.ledger \in [Accounts -> Int]
  BY <1>1, <1>2
<1>5. books \in Books
  <2>1. books.obl \in Seq(Obligation) /\ books.wallet \in [Members -> Wallet]
    BY <1>1, <1>3
  <2> HIDE DEF w, t
  <2> QED
    BY <1>1, <1>2, <1>3, <1>4, <2>1 DEF Books, Columns
<1>6. Len(books.obl) = 0
  BY <1>1
<1>7. payout = [p \in Payouts |-> NoPayout] /\ done = {}
  BY DEF Init
<1>8. TypeOK
  BY <1>2, <1>5, <1>6, <1>7, TypeParts DEF PayoutRecords
<1>9. \A p \in Payouts : payout[p].state # "HELD"
  BY <1>7 DEF NoPayout
<1>10. AddUp(books, payout, Len(books.obl))
  BY <1>9 DEF AddUp
<1>11. \A m \in Members : RowFits(books, m)
  <2> TAKE m \in Members
  <2>1. DOMAIN books.obl = {}
    BY <1>1
  <2>2. /\ Waits(books.obl, m) = 0 /\ Owes(books.obl, m) = 0 /\ Holds(books.obl, m) = 0
        /\ Got(books.obl, m) = 0 /\ Earns(books.obl, m) = 0
    BY <2>1, TotalEmpty DEF Waits, Owes, Holds, Got, Earns
  <2>3. books.wallet[m] = w
    BY <1>1
  <2> QED
    BY <2>2, <2>3 DEF RowFits
<1>12. Debts(books) = 0 /\ Funds(books) = 0
  <2>1. \A m \in Members : DebtsOf(books)[m] = 0 /\ FundsOf(books)[m] = 0
    BY <1>1 DEF DebtsOf, FundsOf
  <2> QED
    BY <1>2, <2>1, TotalZero DEF Debts, Funds
<1>13. LedgerFits(books, Held(payout))
  <2>1. /\ books.ledger[TreasuryAccount] = 0 /\ books.ledger[Core] = -CoreBalance
        /\ \A m \in Members : books.ledger[Available(m)] = 0 /\ books.ledger[Recovery(m)] = 0
        /\ \A p \in Payouts : books.ledger[Reserved(p)] = 0
    BY <1>1, AccountNames
  <2>2. \A p \in Payouts : Held(payout)[p] = 0
    BY <1>9 DEF Held
  <2>3. \A m \in Members : books.wallet[m].available = 0 /\ books.wallet[m].recovery = 0
    BY <1>1
  <2>4. -books.ledger[Core] = books.core
    BY <1>1, <1>2, <2>1
  <2>5. books.treasury.available = 0
    BY <1>1
  <2>6. (\A v \in Int : v = 0 => -v = 0) /\ 0 + 0 = 0 /\ 0 \in Int
    OBVIOUS
  <2>7. -books.ledger[TreasuryAccount] = books.treasury.available + Debts(books)
    BY <1>12, <2>1, <2>5, <2>6
  <2>8. \A m \in Members : /\ -books.ledger[Available(m)] = books.wallet[m].available
                           /\ books.ledger[Recovery(m)] = books.wallet[m].recovery
    BY <2>1, <2>3, <2>6
  <2>9. \A p \in Payouts : -books.ledger[Reserved(p)] = Held(payout)[p]
    BY <2>1, <2>2, <2>6
  <2> HIDE DEF w, t
  <2> QED
    BY <2>4, <2>7, <2>8, <2>9 DEF LedgerFits
<1>14. CashFits(books)
  <2>1. books.ledger[Cash] = 0
    BY <1>1, AccountNames
  <2>2. books.treasury.available = 0 /\ books.treasury.reserved = 0
    BY <1>1
  <2> HIDE DEF w, t
  <2> QED
    BY <1>1, <1>2, <1>12, <2>1, <2>2 DEF CashFits
<1> QED
  BY <1>8, <1>10, <1>11, <1>13, <1>14 DEF IInv, Kept, Fits

\* What every operation has to show of the books it leaves.
LEMMA StepKept ==
  ASSUME IInv, NEW k \in Nat, Len(books.obl) <= k, k <= MaxObligations,
         books' \in Loose(k), Fits(books', Held(payout')), AddUp(books', payout', k),
         \A m \in Members : books'.wallet[m] \in Wallet,
         books'.treasury \in Treasury, books'.core >= 0,
         payout' \in [Payouts -> PayoutRecords], done' \subseteq Orders \union Transfers
  PROVE  IInv'
<1>1. books' \in Books /\ Len(books'.obl) = k
  BY LooseBooks
<1>2. TypeOK'
  BY <1>1 DEF TypeOK, Books, PayoutRecords, TreasuryPayout, MemberPayout
<1>3. Kept'
  BY <1>1 DEF Kept
<1> QED
  BY <1>2, <1>3 DEF IInv

LEMMA Known ==
  ASSUME IInv, NEW n, n = Len(books.obl)
  PROVE  /\ n \in Nat /\ n <= MaxObligations /\ books \in Loose(n) /\ DOMAIN books.obl = 1..n
         /\ \A m \in Members : books.wallet[m] \in Wallet
         /\ books.treasury \in Treasury /\ books.core \in Nat
         /\ payout \in [Payouts -> PayoutRecords] /\ done \subseteq Orders \union Transfers
         /\ Fits(books, Held(payout)) /\ AddUp(books, payout, n)
<1>1. books \in Books /\ n <= MaxObligations
  BY TypeParts DEF IInv
<1>2. /\ n \in Nat /\ books \in Loose(n) /\ DOMAIN books.obl = 1..n
      /\ \A m \in Members : books.wallet[m] \in Wallet
      /\ books.treasury \in Treasury /\ books.core \in Nat
  BY <1>1, BooksLoose
<1>3. payout \in [Payouts -> PayoutRecords] /\ done \subseteq Orders \union Transfers
  BY TypeParts DEF IInv
<1>4. Fits(books, Held(payout)) /\ AddUp(books, payout, n)
  BY DEF IInv, Kept
<1> QED
  BY <1>1, <1>2, <1>3, <1>4

LEMMA ValidateKept ==
  ASSUME IInv, NEW m \in Members, NEW x \in Amounts, Validate(m, x)
  PROVE  IInv'
<1> DEFINE n == Len(books.obl)
<1>1. /\ n \in Nat /\ n <= MaxObligations /\ books \in Loose(n)
      /\ \A z \in Members : books.wallet[z] \in Wallet
      /\ books.treasury \in Treasury /\ books.core \in Nat
      /\ payout \in [Payouts -> PayoutRecords] /\ done \subseteq Orders \union Transfers
      /\ Fits(books, Held(payout)) /\ AddUp(books, payout, n)
  BY Known
<1>2. /\ n < MaxObligations /\ books' = Validated(books, m, x)
      /\ payout' = payout /\ done' = done
  BY DEF Validate, Validated
<1>3. MaxObligations \in Nat /\ x \in Nat
  BY ConstantsAssumption DEF Amounts
<1> HIDE DEF n
<1>4. n + 1 \in Nat /\ n <= n + 1 /\ n + 1 <= MaxObligations
  BY <1>1, <1>2, <1>3
<1>5. /\ books' \in Loose(n + 1) /\ Fits(books', Held(payout')) /\ SameOwners(books, books', n)
  BY <1>1, <1>2, <1>3, ValidatedFits
<1>6. AddUp(books', payout', n + 1)
  BY <1>1, <1>2, <1>4, <1>5, AddUpStays
<1>7. /\ books'.treasury = books.treasury /\ books'.core = books.core
      /\ books'.wallet = [books.wallet EXCEPT ![m].pending = books.wallet[m].pending + x]
  BY <1>1, <1>2 DEF Validated, Loose
<1>8. \A z \in Members : books'.wallet[z] \in Wallet
  <2>1. books.wallet \in [Members -> LooseWallet]
    BY <1>1, LooseParts
  <2>2. books.wallet[m] \in Wallet
    BY <1>1
  <2> DEFINE w == books.wallet[m]
             v == [w EXCEPT !.pending = w.pending + x]
  <2>3. books'.wallet = [books.wallet EXCEPT ![m] = v]
    BY <1>7, <2>1 DEF LooseWallet
  <2>4. w \in Wallet
    BY <2>2
  <2> HIDE DEF w
  <2>5. v \in Wallet
    BY <1>3, <2>4 DEF Wallet
  <2> HIDE DEF v
  <2> QED
    BY <1>1, <2>1, <2>3, <2>5
<1>9. books'.core >= 0 /\ books'.treasury \in Treasury
  BY <1>1, <1>7
<1>10. payout' \in [Payouts -> PayoutRecords] /\ done' \subseteq Orders \union Transfers
  BY <1>1, <1>2
<1> USE DEF n
<1> QED
  BY <1>4, <1>5, <1>6, <1>8, <1>9, <1>10, StepKept

LEMMA RaiseKept ==
  ASSUME IInv, NEW i, NEW x \in Amounts, Raise(i, x)
  PROVE  IInv'
<1> DEFINE n == Len(books.obl)
<1>1. /\ n \in Nat /\ n <= MaxObligations /\ books \in Loose(n) /\ DOMAIN books.obl = 1..n
      /\ \A z \in Members : books.wallet[z] \in Wallet
      /\ books.treasury \in Treasury /\ books.core \in Nat
      /\ payout \in [Payouts -> PayoutRecords] /\ done \subseteq Orders \union Transfers
      /\ Fits(books, Held(payout)) /\ AddUp(books, payout, n)
  BY Known
<1>2. /\ i \in 1..n /\ x > books.obl[i].amount /\ books' = Increase(books, i, x)
      /\ payout' = payout /\ done' = done
  BY <1>1 DEF Raise
<1>3. x \in Nat
  BY ConstantsAssumption DEF Amounts
<1> HIDE DEF n
<1>4. n <= n
  BY <1>1
<1>5. /\ books' \in Loose(n) /\ Fits(books', Held(payout')) /\ SameOwners(books, books', n)
  BY <1>1, <1>2, <1>3, IncreaseFits
<1>6. AddUp(books', payout', n)
  BY <1>1, <1>2, <1>4, <1>5, AddUpStays
<1> DEFINE r == books.obl[i]
           m == r.owner
           w == books.wallet[m]
           v == [w EXCEPT !.pending = w.pending + x - r.amount]
<1>7. m \in Members /\ r \in Obligation /\ books.wallet \in [Members -> LooseWallet]
  BY <1>1, <1>2, LooseParts
<1>8. /\ books'.treasury = books.treasury /\ books'.core = books.core
      /\ books'.wallet = [books.wallet EXCEPT ![m].pending = books.wallet[m].pending + x - r.amount]
  BY <1>1, <1>2, <1>7 DEF Increase, Loose
<1>9. books'.wallet = [books.wallet EXCEPT ![m] = v]
  BY <1>7, <1>8 DEF LooseWallet
<1>10. w \in Wallet /\ x > r.amount
  BY <1>1, <1>2, <1>7
<1>11. v \in Wallet
  <2>1. r.amount \in Nat
    BY <1>7 DEF Obligation
  <2> HIDE DEF w, r, m
  <2>2. w.pending \in Nat
    BY <1>10 DEF Wallet
  <2>3. w.pending + x - r.amount \in Nat
    BY <1>3, <1>10, <2>1, <2>2
  <2> QED
    BY <1>10, <2>3 DEF Wallet
<1>12. \A z \in Members : books'.wallet[z] \in Wallet
  <2> HIDE DEF v, m
  <2> QED
    BY <1>1, <1>7, <1>9, <1>11
<1>13. books'.core >= 0 /\ books'.treasury \in Treasury
  BY <1>1, <1>8
<1>14. payout' \in [Payouts -> PayoutRecords] /\ done' \subseteq Orders \union Transfers
  BY <1>1, <1>2
<1> HIDE DEF v, w, m, r
<1> USE DEF n
<1> QED
  BY <1>1, <1>4, <1>5, <1>6, <1>12, <1>13, <1>14, StepKept

LEMMA CorrectKept ==
  ASSUME IInv, NEW i, NEW x \in Amounts \union {0}, Correct(i, x)
  PROVE  IInv'
<1> DEFINE n == Len(books.obl)
<1>1. /\ n \in Nat /\ n <= MaxObligations /\ books \in Loose(n) /\ DOMAIN books.obl = 1..n
      /\ payout \in [Payouts -> PayoutRecords] /\ done \subseteq Orders \union Transfers
      /\ Fits(books, Held(payout)) /\ AddUp(books, payout, n)
  BY Known
<1>2. /\ i \in 1..n /\ books' = Reduce(books, i, x) /\ Commits(books')
      /\ payout' = payout /\ done' = done
  BY <1>1 DEF Correct
<1>3. x \in Nat
  BY ConstantsAssumption DEF Amounts
<1> HIDE DEF n
<1>4. n <= n
  BY <1>1
<1>5. \A j \in DOMAIN Reduce(books, i, x).obl : Reduce(books, i, x).obl[j] \in Obligation
  BY <1>2 DEF Commits
<1>6. /\ books' \in Loose(n) /\ Fits(books', Held(payout')) /\ SameOwners(books, books', n)
  BY <1>1, <1>2, <1>3, <1>5, ReduceFits
<1>7. AddUp(books', payout', n)
  BY <1>1, <1>2, <1>4, <1>6, AddUpStays
<1>8. /\ \A z \in Members : books'.wallet[z] \in Wallet
      /\ books'.treasury \in Treasury /\ books'.core >= 0
  BY <1>2 DEF Commits
<1>9. payout' \in [Payouts -> PayoutRecords] /\ done' \subseteq Orders \union Transfers
  BY <1>1, <1>2
<1> USE DEF n
<1> QED
  BY <1>1, <1>4, <1>6, <1>7, <1>8, <1>9, StepKept

LEMMA CreditKept ==
  ASSUME IInv,
         \/ \E o \in Orders : CreditFundingOrder(o)
         \/ \E t \in Transfers : TransferFromCore(t)
  PROVE  IInv'
<1> DEFINE n == Len(books.obl)
<1>1. /\ n \in Nat /\ n <= MaxObligations /\ books \in Loose(n)
      /\ payout \in [Payouts -> PayoutRecords] /\ done \subseteq Orders \union Transfers
      /\ Fits(books, Held(payout)) /\ AddUp(books, payout, n)
  BY Known
<1>2. \A e \in Orders \union Transfers : CreditAmount[e] \in Nat
  BY ConstantsAssumption
<1>3. \E run : /\ books' = run.books /\ run \in Runs(n)
               /\ Fits(run.books, Held(payout)) /\ SameOwners(books, run.books, n)
  <2>1. CASE \E o \in Orders : CreditFundingOrder(o)
    <3>1. PICK o \in Orders : CreditFundingOrder(o)
      BY <2>1
    <3>2. CreditAmount[o] \in Nat
      BY <1>2
    <3>3. books' = Credited(books, Cash, CreditAmount[o]).books
      BY <3>1 DEF CreditFundingOrder
    <3> HIDE DEF n
    <3> QED
      BY <1>1, <3>2, <3>3, CreditedFits
  <2>2. CASE \E t \in Transfers : TransferFromCore(t)
    <3>1. PICK t \in Transfers : TransferFromCore(t)
      BY <2>2
    <3>2. CreditAmount[t] \in Nat
      BY <1>2
    <3>3. books' = Credited([books EXCEPT !.core = @ - CreditAmount[t]], Core, CreditAmount[t]).books
      BY <3>1 DEF TransferFromCore
    <3> HIDE DEF n
    <3> QED
      BY <1>1, <3>2, <3>3, CreditedFits
  <2> QED
    BY <2>1, <2>2
<1>4. /\ Commits(books') /\ payout' = payout /\ done' \subseteq Orders \union Transfers
  BY <1>1 DEF CreditFundingOrder, TransferFromCore
<1> HIDE DEF n
<1>5. n <= n
  BY <1>1
<1>6. books' \in Loose(n) /\ Fits(books', Held(payout')) /\ SameOwners(books, books', n)
  BY <1>3, <1>4 DEF Runs
<1>7. AddUp(books', payout', n)
  BY <1>1, <1>4, <1>5, <1>6, AddUpStays
<1>8. /\ \A z \in Members : books'.wallet[z] \in Wallet
      /\ books'.treasury \in Treasury /\ books'.core >= 0
  BY <1>4 DEF Commits
<1>9. payout' \in [Payouts -> PayoutRecords]
  BY <1>1, <1>4
<1> USE DEF n
<1> QED
  BY <1>1, <1>4, <1>5, <1>6, <1>7, <1>8, <1>9, StepKept

LEMMA RequestWithdrawalKept ==
  ASSUME IInv, NEW p \in Payouts, NEW m \in Members, NEW x \in Amounts, RequestWithdrawal(p, m, x)
  PROVE  IInv'
<1> DEFINE n == Len(books.obl)
           share == Split(Reservable(books, m), x)
           r == [state |-> "HELD", kind |-> "MEMBER", member |-> m, amount |-> x, share |-> share]
           w == books.wallet[m]
           v == [w EXCEPT !.available = w.available - x, !.reserved = w.reserved + x]
<1>1. /\ n \in Nat /\ n <= MaxObligations /\ books \in Loose(n) /\ DOMAIN books.obl = 1..n
      /\ \A z \in Members : books.wallet[z] \in Wallet
      /\ books.treasury \in Treasury /\ books.core \in Nat
      /\ payout \in [Payouts -> PayoutRecords] /\ done \subseteq Orders \union Transfers
      /\ Fits(books, Held(payout)) /\ AddUp(books, payout, n)
  BY Known
<1>2. /\ payout[p] = NoPayout /\ w.available >= x /\ SumOf(Reservable(books, m)) >= x
      /\ books' = Withdrawn(books, p, m, x)
      /\ payout' = [payout EXCEPT ![p] = r] /\ done' = done
  BY DEF RequestWithdrawal, Withdrawn
<1>3. x \in Nat /\ x <= MaxAmount
  BY ConstantsAssumption DEF Amounts
<1>4. r \in PayoutRecords /\ r.state = "HELD" /\ r.amount = x /\ r.share = share /\ r.member = m
  <2>1. Reservable(books, m) \in [1..n -> Nat]
    <3>1. \A i \in 1..n : Spendable(books.obl[i]) \in Nat
      <4>1. \A i \in 1..n : books.obl[i] \in Obligation
        BY <1>1, LooseParts
      <4> QED
        BY <4>1 DEF Spendable, Obligation
    <3> HIDE DEF n
    <3> QED
      BY <1>1, <3>1 DEF Reservable
  <2>2. share \in [1..n -> Nat] /\ \A i \in 1..n : share[i] <= x
    <3>1. x \in Int /\ x >= 0
      BY <1>3
    <3> HIDE DEF n
    <3> QED
      BY <1>1, <2>1, <3>1, SplitBounds
  <2> HIDE DEF share, n
  <2>3. MaxAmount \in Nat /\ MaxObligations \in Nat
    BY ConstantsAssumption
  <2>4. share \in [1..n -> 0..MaxAmount] /\ n \in 0..MaxObligations
    <3>1. \A i \in 1..n : share[i] \in 0..MaxAmount
      BY <1>3, <2>2, <2>3
    <3> QED
      BY <1>1, <2>2, <2>3, <3>1
  <2>5. share \in Shares
    BY <2>4 DEF Shares
  <2> QED
    BY <2>5 DEF PayoutRecords, MemberPayout
<1> HIDE DEF n, share, r
<1>5. /\ payout' \in [Payouts -> PayoutRecords]
      /\ payout'[p] = r /\ \A z \in Payouts : z # p => payout'[z] = payout[z]
      /\ Held(payout)[p] = 0 /\ Held(payout')[p] = x
      /\ \A z \in Payouts : z # p => Held(payout')[z] = Held(payout)[z]
  <2> DEFINE f == payout
             g == payout'
  <2>1. f \in [Payouts -> PayoutRecords] /\ f[p] = NoPayout
    BY <1>1, <1>2
  <2>2. r \in PayoutRecords /\ r.state = "HELD" /\ g = [f EXCEPT ![p] = r]
    BY <1>2, <1>4
  <2> HIDE DEF f, g
  <2>3. /\ g \in [Payouts -> PayoutRecords]
        /\ g[p] = r /\ \A z \in Payouts : z # p => g[z] = f[z]
    BY <2>1, <2>2
  <2>4. f[p].state # "HELD"
    BY <2>1 DEF NoPayout
  <2>5. /\ Held(f)[p] = 0 /\ Held(g)[p] = x
        /\ \A z \in Payouts : z # p => Held(g)[z] = Held(f)[z]
    BY <1>4, <2>3, <2>4 DEF Held
  <2> QED
    BY <2>3, <2>5 DEF f, g
<1>6. Held(payout')[p] = Held(payout)[p] + x
  BY <1>3, <1>5
<1>7. /\ books' \in Loose(n) /\ Fits(books', Held(payout')) /\ SameOwners(books, books', n)
      /\ Shared(books', share, m, x, n)
  <2> DEFINE g == Held(payout')
             h == Held(payout)
             c == books'
  <2>1. /\ books \in Loose(n) /\ n \in Nat /\ Fits(books, h) /\ x \in Nat
        /\ SumOf(Reservable(books, m)) >= x
        /\ g[p] = h[p] + x /\ \A z \in Payouts : z # p => g[z] = h[z]
    BY <1>1, <1>2, <1>3, <1>5, <1>6
  <2>2. c = Withdrawn(books, p, m, x)
    BY <1>2
  <2> HIDE DEF c, g, h
  <2>3. /\ c \in Loose(n) /\ Fits(c, g) /\ SameOwners(books, c, n)
        /\ Shared(c, Split(Reservable(books, m), x), m, x, n)
    BY <2>1, <2>2, WithdrawnFits
  <2> QED
    BY <2>3 DEF share, c, g
<1>8. n <= n
  BY <1>1
<1>9. AddUp(books', payout', n)
  <2>1. AddUp(books', payout, n)
    BY <1>1, <1>7, <1>8, AddUpStays
  <2> QED
    BY <1>4, <1>5, <1>7, <2>1 DEF AddUp
<1>10. /\ books'.treasury = books.treasury /\ books'.core = books.core
       /\ books'.wallet = [books.wallet EXCEPT ![m] = [books.wallet[m] EXCEPT !.available = @ - x,
                                                                             !.reserved = @ + x]]
  BY <1>1, <1>2 DEF Withdrawn, Loose
<1>11. \A z \in Members : books'.wallet[z] \in Wallet
  <2>1. books.wallet \in [Members -> LooseWallet] /\ w \in Wallet
    BY <1>1, LooseParts
  <2>2. books'.wallet = [books.wallet EXCEPT ![m] = v]
    BY <1>10
  <2> HIDE DEF w
  <2>3. w.available - x \in Nat /\ w.reserved + x \in Nat
    BY <1>2, <1>3, <2>1 DEF Wallet
  <2>4. v \in Wallet
    BY <2>1, <2>3 DEF Wallet
  <2> HIDE DEF v
  <2> QED
    BY <1>1, <2>1, <2>2, <2>4
<1>12. books'.core >= 0 /\ books'.treasury \in Treasury /\ done' \subseteq Orders \union Transfers
  BY <1>1, <1>2, <1>10
<1> HIDE DEF w, v
<1> USE DEF n
<1> QED
  BY <1>1, <1>5, <1>7, <1>8, <1>9, <1>11, <1>12, StepKept

LEMMA RequestTreasuryKept ==
  ASSUME IInv, NEW p \in Payouts, NEW x \in Amounts, RequestTreasury(p, x)
  PROVE  IInv'
<1> DEFINE n == Len(books.obl)
           r == [state |-> "HELD", kind |-> "TREASURY", amount |-> x]
           t == books.treasury
<1>1. /\ n \in Nat /\ n <= MaxObligations /\ books \in Loose(n) /\ DOMAIN books.obl = 1..n
      /\ \A z \in Members : books.wallet[z] \in Wallet
      /\ books.treasury \in Treasury /\ books.core \in Nat
      /\ payout \in [Payouts -> PayoutRecords] /\ done \subseteq Orders \union Transfers
      /\ Fits(books, Held(payout)) /\ AddUp(books, payout, n)
  BY Known
<1>2. /\ payout[p] = NoPayout /\ t.available >= x
      /\ books' = TreasuryHeld(books, p, x)
      /\ payout' = [payout EXCEPT ![p] = r] /\ done' = done
  BY DEF RequestTreasury, TreasuryHeld
<1>3. x \in Nat /\ -x \in Int /\ x \in Int
  BY ConstantsAssumption DEF Amounts
<1>4. r \in PayoutRecords /\ r.state = "HELD" /\ r.amount = x /\ r.kind = "TREASURY"
  BY DEF PayoutRecords, TreasuryPayout
<1> HIDE DEF n, r
<1>5. /\ payout' \in [Payouts -> PayoutRecords]
      /\ payout'[p] = r /\ \A z \in Payouts : z # p => payout'[z] = payout[z]
      /\ Held(payout)[p] = 0 /\ Held(payout')[p] = x
      /\ \A z \in Payouts : z # p => Held(payout')[z] = Held(payout)[z]
  <2> DEFINE f == payout
             g == payout'
  <2>1. f \in [Payouts -> PayoutRecords] /\ f[p] = NoPayout
    BY <1>1, <1>2
  <2>2. r \in PayoutRecords /\ r.state = "HELD" /\ g = [f EXCEPT ![p] = r]
    BY <1>2, <1>4
  <2> HIDE DEF f, g
  <2>3. /\ g \in [Payouts -> PayoutRecords]
        /\ g[p] = r /\ \A z \in Payouts : z # p => g[z] = f[z]
    BY <2>1, <2>2
  <2>4. f[p].state # "HELD"
    BY <2>1 DEF NoPayout
  <2>5. /\ Held(f)[p] = 0 /\ Held(g)[p] = x
        /\ \A z \in Payouts : z # p => Held(g)[z] = Held(f)[z]
    BY <1>4, <2>3, <2>4 DEF Held
  <2> QED
    BY <2>3, <2>5 DEF f, g
<1>6. Held(payout')[p] = Held(payout)[p] + x
  BY <1>3, <1>5
<1>7. TreasuryMoves(books, books', p, -x, x)
  BY <1>1, <1>2, <1>3, TreasuryOperations
<1>8. books' \in Loose(n) /\ Fits(books', Held(payout'))
  BY <1>1, <1>3, <1>5, <1>6, <1>7, TreasuryStep
<1>9. /\ SameOwners(books, books', n) /\ n <= n
      /\ books'.wallet = books.wallet /\ books'.core = books.core
  BY <1>1, <1>7 DEF TreasuryMoves, SameOwners
<1>10. AddUp(books', payout', n)
  <2>1. AddUp(books', payout, n)
    BY <1>1, <1>9, AddUpStays
  <2>2. payout'[p].kind # "MEMBER"
    BY <1>4, <1>5
  <2> QED
    BY <1>5, <2>1, <2>2 DEF AddUp
<1>11. books'.treasury \in Treasury
  <2>1. books'.treasury = [t EXCEPT !.available = @ - x, !.reserved = @ + x]
    BY <1>1, <1>2 DEF TreasuryHeld, Loose, LooseTreasury
  <2>2. t \in Treasury
    BY <1>1
  <2> HIDE DEF t
  <2>3. t.available - x \in Nat /\ t.reserved + x \in Nat
    BY <1>2, <1>3, <2>2 DEF Treasury
  <2> QED
    BY <2>1, <2>2, <2>3 DEF Treasury
<1>12. /\ books'.core >= 0 /\ done' \subseteq Orders \union Transfers
       /\ \A z \in Members : books'.wallet[z] \in Wallet
  BY <1>1, <1>2, <1>9
<1> HIDE DEF t
<1> USE DEF n
<1> QED
  BY <1>1, <1>5, <1>8, <1>9, <1>10, <1>11, <1>12, StepKept

\* A payout that ends holds nothing any more.
Ends(pay, g, p, e) == pay[p].state = "HELD" /\ g = [pay EXCEPT ![p].state = e]

LEMMA PayoutEnds ==
  ASSUME NEW pay \in [Payouts -> PayoutRecords], NEW p \in Payouts,
         NEW e \in {"PAID", "FAILED"}, NEW g, Ends(pay, g, p, e)
  PROVE  /\ g \in [Payouts -> PayoutRecords]
         /\ pay[p].amount \in Nat /\ pay[p].kind \in {"MEMBER", "TREASURY"}
         /\ pay[p].kind = "MEMBER" => pay[p].member \in Members
         /\ Held(pay)[p] = pay[p].amount /\ Held(g)[p] = 0
         /\ \A z \in Payouts : z # p => Held(g)[z] = Held(pay)[z]
         /\ \A b, n : AddUp(b, pay, n) => AddUp(b, g, n)
<1> DEFINE r == pay[p]
           s == [r EXCEPT !.state = e]
<1>1. r.state = "HELD" /\ g = [pay EXCEPT ![p] = s]
  BY DEF Ends
<1>2. r \in TreasuryPayout \/ r \in MemberPayout
  BY <1>1 DEF PayoutRecords, NoPayout
<1> HIDE DEF r
<1>3. s.state = e /\ s \in PayoutRecords
  <2>1. CASE r \in TreasuryPayout
    BY <2>1 DEF TreasuryPayout, PayoutRecords
  <2>2. CASE r \in MemberPayout
    BY <2>2 DEF MemberPayout, PayoutRecords
  <2> QED
    BY <1>2, <2>1, <2>2
<1>4. /\ r.amount \in Nat /\ r.kind \in {"MEMBER", "TREASURY"}
      /\ r.kind = "MEMBER" => r.member \in Members
  <2>1. Amounts \subseteq Nat
    BY ConstantsAssumption DEF Amounts
  <2> QED
    BY <1>2, <2>1 DEF TreasuryPayout, MemberPayout
<1> HIDE DEF s
<1>5. /\ g \in [Payouts -> PayoutRecords] /\ g[p] = s
      /\ \A z \in Payouts : z # p => g[z] = pay[z]
  BY <1>1, <1>3
<1>6. s.state # "HELD"
  BY <1>3
<1> QED
  BY <1>1, <1>4, <1>5, <1>6 DEF Held, AddUp, r

LEMMA PayKept ==
  ASSUME IInv, NEW p \in Payouts, Pay(p)
  PROVE  IInv'
<1> DEFINE n == Len(books.obl)
           t == payout[p]
           f == payout
           g == payout'
           c == books'
<1>1. /\ n \in Nat /\ n <= MaxObligations /\ books \in Loose(n)
      /\ f \in [Payouts -> PayoutRecords] /\ done \subseteq Orders \union Transfers
      /\ Fits(books, Held(f)) /\ AddUp(books, f, n)
  BY Known
<1>2. /\ t.state = "HELD" /\ c = Paid(books, p) /\ Commits(c)
      /\ Ends(f, g, p, "PAID") /\ done' = done
  BY DEF Pay, Ends
<1> HIDE DEF n, f, g, c
<1>3. /\ g \in [Payouts -> PayoutRecords]
      /\ f[p].amount \in Nat /\ f[p].kind \in {"MEMBER", "TREASURY"}
      /\ f[p].kind = "MEMBER" => f[p].member \in Members
      /\ Held(f)[p] = f[p].amount /\ Held(g)[p] = 0
      /\ \A z \in Payouts : z # p => Held(g)[z] = Held(f)[z]
      /\ \A b, k : AddUp(b, f, k) => AddUp(b, g, k)
  BY <1>1, <1>2, PayoutEnds
<1>4. t.amount \in Nat /\ Held(g)[p] = Held(f)[p] - t.amount /\ t = f[p]
  BY <1>3 DEF f
<1>5. c \in Loose(n) /\ Fits(c, Held(g)) /\ SameOwners(books, c, n)
  <2> DEFINE h == Held(f)
             h2 == Held(g)
             x == t.amount
  <2>1. h2[p] = h[p] - x /\ (\A z \in Payouts : z # p => h2[z] = h[z]) /\ Fits(books, h) /\ x \in Nat
    BY <1>1, <1>3, <1>4
  <2>2. CASE t.kind = "MEMBER"
    <3> DEFINE m == t.member
               share == t.share
    <3>1. m \in Members
      BY <1>3, <1>4, <2>2
    <3>2. Shared(books, share, m, x, n)
      BY <1>1, <1>2, <1>4, <2>2 DEF AddUp
    <3>3. c = MemberPaid(books, p, m, x, share)
      BY <1>1, <1>2, <2>2 DEF Paid, MemberPaid, Loose
    <3>4. \A j \in DOMAIN c.obl : c.obl[j] \in Obligation
      BY <1>2 DEF Commits
    <3> HIDE DEF m, share, x, h, h2
    <3>5. \A j \in DOMAIN MemberPaid(books, p, m, x, share).obl :
            MemberPaid(books, p, m, x, share).obl[j] \in Obligation
      BY <3>3, <3>4
    <3>6. c \in Loose(n) /\ Fits(c, h2) /\ SameOwners(books, c, n)
      BY <1>1, <2>1, <3>1, <3>2, <3>3, <3>5, MemberPaidFits
    <3> QED
      BY <3>6 DEF h2
  <2>3. CASE t.kind = "TREASURY"
    <3>1. c = TreasuryPaid(books, p, x)
      BY <1>1, <1>2, <2>3 DEF Paid, TreasuryPaid, Loose
    <3> HIDE DEF x, h, h2
    <3>2. TreasuryMoves(books, c, p, 0, -x)
      BY <1>1, <2>1, <3>1, TreasuryOperations
    <3>3. 0 \in Int /\ -x \in Int /\ h2[p] = h[p] + (-x)
      <4>1. h[p] \in Int
        BY <1>3, <2>1 DEF h
      <4> QED
        BY <2>1, <4>1
    <3>4. c \in Loose(n) /\ Fits(c, h2)
      BY <1>1, <2>1, <3>2, <3>3, TreasuryStep
    <3>5. SameOwners(books, c, n)
      BY <3>2 DEF SameOwners, TreasuryMoves
    <3> QED
      BY <3>4, <3>5 DEF h2
  <2> QED
    BY <1>3, <1>4, <2>2, <2>3
<1>6. n <= n
  BY <1>1
<1>7. AddUp(c, g, n)
  <2>1. AddUp(c, f, n)
    BY <1>1, <1>5, <1>6, AddUpStays
  <2> QED
    BY <1>3, <2>1
<1>8. /\ \A m \in Members : c.wallet[m] \in Wallet
      /\ c.treasury \in Treasury /\ c.core >= 0
  BY <1>2 DEF Commits
<1>9. done' \subseteq Orders \union Transfers
  BY <1>1, <1>2
<1> HIDE DEF t
<1> USE DEF n, g, c
<1> QED
  BY <1>1, <1>3, <1>5, <1>6, <1>7, <1>8, <1>9, StepKept

LEMMA ReleaseKept ==
  ASSUME IInv, NEW p \in Payouts, Release(p)
  PROVE  IInv'
<1> DEFINE n == Len(books.obl)
           t == payout[p]
           f == payout
           g == payout'
           c == books'
<1>1. /\ n \in Nat /\ n <= MaxObligations /\ books \in Loose(n)
      /\ \A m \in Members : books.wallet[m] \in Wallet
      /\ f \in [Payouts -> PayoutRecords] /\ done \subseteq Orders \union Transfers
      /\ Fits(books, Held(f)) /\ AddUp(books, f, n)
  BY Known
<1>2. /\ t.state = "HELD" /\ c = Released(books, p) /\ Commits(c) /\ CanPayBack(books, p)
      /\ Ends(f, g, p, "FAILED") /\ done' = done
  BY DEF Release, Ends
<1> HIDE DEF n, f, g, c
<1>3. /\ g \in [Payouts -> PayoutRecords]
      /\ f[p].amount \in Nat /\ f[p].kind \in {"MEMBER", "TREASURY"}
      /\ f[p].kind = "MEMBER" => f[p].member \in Members
      /\ Held(f)[p] = f[p].amount /\ Held(g)[p] = 0
      /\ \A z \in Payouts : z # p => Held(g)[z] = Held(f)[z]
      /\ \A b, k : AddUp(b, f, k) => AddUp(b, g, k)
  BY <1>1, <1>2, PayoutEnds
<1>4. t.amount \in Nat /\ Held(g)[p] = Held(f)[p] - t.amount /\ t = f[p]
  BY <1>3 DEF f
<1>5. c \in Loose(n) /\ Fits(c, Held(g)) /\ SameOwners(books, c, n)
  <2> DEFINE h == Held(f)
             h2 == Held(g)
             x == t.amount
  <2>1. h2[p] = h[p] - x /\ (\A z \in Payouts : z # p => h2[z] = h[z]) /\ Fits(books, h) /\ x \in Nat
    BY <1>1, <1>3, <1>4
  <2>2. CASE t.kind = "MEMBER"
    <3> DEFINE m == t.member
               share == t.share
               y == Withheld(books, p)
    <3>1. m \in Members
      BY <1>3, <1>4, <2>2
    <3>2. Shared(books, share, m, x, n)
      BY <1>1, <1>2, <1>4, <2>2 DEF AddUp
    <3>3. c = MemberReleased(books, p, m, x, y, share)
      BY <1>1, <1>2, <2>2 DEF Released, MemberReleased, Loose
    <3>4. \A j \in DOMAIN c.obl : c.obl[j] \in Obligation
      BY <1>2 DEF Commits
    <3>5. y \in Nat
      <4>1. books.wallet[m].recovery \in Nat
        BY <1>1, <3>1 DEF Wallet
      <4> QED
        BY <2>1, <4>1 DEF Withheld, Smaller
    <3>6. y <= Owes(books.obl, m)
      <4>1. y <= DebtOf(books, m)
        BY <1>2, <2>2 DEF CanPayBack
      <4> HIDE DEF y
      <4> QED
        BY <4>1, SumsOwned
    <3> HIDE DEF m, share, x, h, h2, y
    <3>7. \A j \in DOMAIN MemberReleased(books, p, m, x, y, share).obl :
            MemberReleased(books, p, m, x, y, share).obl[j] \in Obligation
      BY <3>3, <3>4
    <3>8. c \in Loose(n) /\ Fits(c, h2) /\ SameOwners(books, c, n)
      BY <1>1, <2>1, <3>1, <3>2, <3>3, <3>5, <3>6, <3>7, MemberReleasedFits
    <3> QED
      BY <3>8 DEF h2
  <2>3. CASE t.kind = "TREASURY"
    <3>1. c = TreasuryReleased(books, p, x)
      BY <1>1, <1>2, <2>3 DEF Released, TreasuryReleased, Loose
    <3> HIDE DEF x, h, h2
    <3>2. TreasuryMoves(books, c, p, x, -x)
      BY <1>1, <2>1, <3>1, TreasuryOperations
    <3>3. x \in Int /\ -x \in Int /\ h2[p] = h[p] + (-x)
      <4>1. h[p] \in Int
        BY <1>3, <2>1 DEF h
      <4> QED
        BY <2>1, <4>1
    <3>4. c \in Loose(n) /\ Fits(c, h2)
      BY <1>1, <2>1, <3>2, <3>3, TreasuryStep
    <3>5. SameOwners(books, c, n)
      BY <3>2 DEF SameOwners, TreasuryMoves
    <3> QED
      BY <3>4, <3>5 DEF h2
  <2> QED
    BY <1>3, <1>4, <2>2, <2>3
<1>6. n <= n
  BY <1>1
<1>7. AddUp(c, g, n)
  <2>1. AddUp(c, f, n)
    BY <1>1, <1>5, <1>6, AddUpStays
  <2> QED
    BY <1>3, <2>1
<1>8. /\ \A m \in Members : c.wallet[m] \in Wallet
      /\ c.treasury \in Treasury /\ c.core >= 0
  BY <1>2 DEF Commits
<1>9. done' \subseteq Orders \union Transfers
  BY <1>1, <1>2
<1> HIDE DEF t
<1> USE DEF n, g, c
<1> QED
  BY <1>1, <1>3, <1>5, <1>6, <1>7, <1>8, <1>9, StepKept

-----------------------------------------------------------------------------
(* The theorems.                                                           *)

LEMMA NextKept == IInv /\ [Next]_vars => IInv'
<1> SUFFICES ASSUME IInv, [Next]_vars PROVE IInv'
  OBVIOUS
<1>1. CASE ConversionNext
  BY <1>1, ValidateKept, RaiseKept, CorrectKept DEF ConversionNext
<1>2. CASE \/ \E o \in Orders : CreditFundingOrder(o)
           \/ \E t \in Transfers : TransferFromCore(t)
  BY <1>2, CreditKept
<1>3. CASE \E p \in Payouts : PayoutNext(p)
  <2>1. PICK p \in Payouts : PayoutNext(p)
    BY <1>3
  <2> QED
    BY <2>1, RequestWithdrawalKept, RequestTreasuryKept, PayKept, ReleaseKept DEF PayoutNext
<1>4. CASE UNCHANGED vars
  BY <1>4 DEF vars, IInv, Kept, TypeOK
<1> QED
  BY <1>1, <1>2, <1>3, <1>4 DEF Next

\* Every operation of the tenant finance service leaves books of the right
\* type that fit together.
THEOREM BooksAreKept == Spec => []IInv
<1>1. Init => IInv
  BY InitKept
<1>2. IInv /\ [Next]_vars => IInv'
  BY NextKept
<1> QED
  BY <1>1, <1>2, PTL DEF Spec

\* Rows hold what the columns and CHECK constraints of the schema admit, after
\* every conversion, funding, correction and payout.
THEOREM BooksTyped == Spec => []TypeOK
<1>1. IInv => TypeOK
  BY DEF IInv
<1> QED
  BY <1>1, BooksAreKept, PTL

\* Treasury, core wallet, member wallets and held payouts are each the balance
\* of their ledger account, though every handler updates them by statements of
\* their own.
THEOREM LedgerIsTheBalance == Spec => []LedgerMatchesProjections
<1>1. IInv => LedgerMatchesProjections
  <2> SUFFICES ASSUME IInv PROVE LedgerMatchesProjections
    OBVIOUS
  <2>1. LedgerFits(books, Held(payout))
    BY DEF IInv, Kept, Fits
  <2>2. SumOf([m \in Members |-> books.wallet[m].recovery]) = Debts(books)
    BY DEF SumOf, Debts, DebtsOf, Total
  <2>3. \A p \in Payouts : Held(payout)[p] = HeldAmount(p)
    BY DEF Held, HeldAmount
  <2> QED
    BY <2>1, <2>2, <2>3 DEF LedgerMatchesProjections, LedgerFits
<1> QED
  BY <1>1, BooksAreKept, PTL

\* The wallet of a member is the sum of his obligations, for what waits, what he
\* owes, what is reserved and what was paid: the check at the end of
\* settleTenantRecovery never throws for want of a debt that the wallet shows.
THEOREM WalletsAreTheirObligations == Spec => []WalletsMatchObligations
<1>1. IInv => WalletsMatchObligations
  <2> SUFFICES ASSUME IInv PROVE WalletsMatchObligations
    OBVIOUS
  <2>1. \A m \in Members : RowFits(books, m)
    BY DEF IInv, Kept, Fits
  <2> QED
    BY <2>1, SumsOwned DEF WalletsMatchObligations, RowFits
<1> QED
  BY <1>1, BooksAreKept, PTL

\* Waiting, available, reserved and paid cashback of a member less his debt is
\* the cashback of his valid conversions, through any order of corrections,
\* fundings, debts, payouts and releases.
THEOREM CashbackReachesItsMember == Spec => []MembersGetTheirCashback
<1>1. IInv => MembersGetTheirCashback
  <2> SUFFICES ASSUME IInv PROVE MembersGetTheirCashback
    OBVIOUS
  <2>1. \A m \in Members : RowFits(books, m)
    BY DEF IInv, Kept, Fits
  <2> QED
    BY <2>1, SumsOwned DEF MembersGetTheirCashback, RowFits
<1> QED
  BY <1>1, BooksAreKept, PTL

\* The cash that came in is what treasury, members and held payouts can still
\* take out: no funding, offset, correction or payout makes money or loses it.
THEOREM PromisesAreCovered == Spec => []CashCoversPromises
<1>1. IInv => CashCoversPromises
  <2> SUFFICES ASSUME IInv PROVE CashCoversPromises
    OBVIOUS
  <2>1. CashFits(books)
    BY DEF IInv, Kept, Fits
  <2>2. SumOf([m \in Members |-> books.wallet[m].available + books.wallet[m].reserved])
          = Funds(books)
    BY DEF SumOf, Funds, FundsOf, Total
  <2> QED
    BY <2>1, <2>2 DEF CashCoversPromises, CashFits
<1> QED
  BY <1>1, BooksAreKept, PTL
=============================================================================
