-------------------------- MODULE MCTenantFinance ---------------------------
(* Small instances of TenantFinance for TLC. *)
EXTENDS TenantFinance

CONSTANTS an, bo, p1, p2, o1, o2, t1

\* The first order pays for two units of cashback, everything else for one.
Credits == [c \in Orders \union Transfers |-> IF c = o1 THEN 2 ELSE 1]
=============================================================================
