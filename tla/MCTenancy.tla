----------------------------- MODULE MCTenancy -------------------------------
(* A small instance of Tenancy for TLC. *)
EXTENDS Tenancy

SeatsOfPlan == [plan \in PlanCodes |-> IF plan = "PRO" THEN 2 ELSE 1]
=============================================================================
