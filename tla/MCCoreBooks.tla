----------------------------- MODULE MCCoreBooks -----------------------------
(* Small instances of the core's books for TLC. *)
EXTENDS BalanceAdjustment, TLC

CONSTANTS kim, livetag, official, ana, bo, cy

\* AddLiveTag is provisional (2), the official report authoritative (3).
Weights == [s \in CoreSources |-> IF s = official THEN 3 ELSE 2]
Clicks == [o \in CoreOrders |-> kim]
Amounts == {-1}
ActorSymmetry == Permutations(Staff) \union Permutations(Ingesters)

\* Two calls of ingestConversion overlap before anything else happens; when they
\* have made two conversions of one order, nothing is adjusted and no day
\* passes.
RacesAreEarly ==
  /\ Cardinality({w \in Ingesters : ingest[w] # Idle}) > 1 =>
       MadeConversions = {} /\ clock = 0
  /\ \/ /\ Cardinality(MadeConversions) <= 1
        /\ Cardinality({w \in Ingesters : ingest[w] # Idle}) <= 1
     \/ clock = 0 /\ \A a \in Adjustments : adjustment[a] = NoAdjustment
=============================================================================
