--------------------------- MODULE PayoutContract ---------------------------
(***************************************************************************)
(* What a source account is promised about the payouts drawn on it, with   *)
(* approvals, providers, retries and operators left out: money is set      *)
(* aside, leaves at most once and only while it is set aside, and the      *)
(* reservation ends as spent if it left and as returned if it did not.     *)
(***************************************************************************)
EXTENDS Integers

CONSTANTS Payouts, Amount

VARIABLES
  phase,      \* "none", "held", "spent" or "returned", for each payout
  left,       \* how often money has left for it
  available   \* what the account can still spend

contractVars == <<phase, left, available>>

Init ==
  /\ phase \in [Payouts -> {"none", "held", "spent", "returned"}]
  /\ left \in [Payouts -> {0, 1}]
  /\ \A p \in Payouts : /\ phase[p] = "spent" => left[p] = 1
                        /\ phase[p] \in {"none", "returned"} => left[p] = 0
  /\ available \in Nat

Hold(p) ==
  /\ phase[p] = "none"
  /\ available >= Amount[p]
  /\ phase' = [phase EXCEPT ![p] = "held"]
  /\ available' = available - Amount[p]
  /\ left' = left

MoneyLeaves(p) ==
  /\ phase[p] = "held"
  /\ left[p] = 0
  /\ left' = [left EXCEPT ![p] = 1]
  /\ UNCHANGED <<phase, available>>

Spend(p) ==
  /\ phase[p] = "held"
  /\ left[p] = 1
  /\ phase' = [phase EXCEPT ![p] = "spent"]
  /\ UNCHANGED <<left, available>>

Return(p) ==
  /\ phase[p] = "held"
  /\ left[p] = 0
  /\ phase' = [phase EXCEPT ![p] = "returned"]
  /\ available' = available + Amount[p]
  /\ left' = left

Next == \E p \in Payouts : Hold(p) \/ MoneyLeaves(p) \/ Spend(p) \/ Return(p)

Spec == Init /\ [][Next]_contractVars
=============================================================================
