--------------------------- MODULE MCTenantPayout ---------------------------
(* Small instances of TenantPayout for TLC. *)
EXTENDS TenantPayout

CONSTANTS p1, p2, p3, ann, bob

\* Every payout is asked for by ann; p1 is the large one.
AskedByAnn == [p \in Payouts |-> ann]
Amounts == [p \in Payouts |-> IF p = p1 THEN 2 ELSE 1]
=============================================================================
