--------------------------- MODULE MCAgentRuntime ---------------------------
(* Instances of AgentRuntime for TLC. *)
EXTENDS AgentRuntime, FiniteSetsExt, TLC

CONSTANTS c1, c2, g1, g2

SumOfSpend ==
  [S \in SUBSET Calls |-> MapThenSumSet(LAMBDA c : Spend[c], S)]

(* Against a cap of 2 either call fits and both together do not.           *)
SmallSpend == (c1 :> 1) @@ (c2 :> 2)
UnitSpend == [c \in Calls |-> 1]

OneRank == [g \in Grants |-> 0]
TwoRanks == (g1 :> 0) @@ (g2 :> 1)

CapOfTwo == [g \in Grants |-> 2]
NoCaps == [g \in Grants |-> NoCap]
LimitOfOne == [g \in Grants |-> 1]
NarrowCapped == (g1 :> 2) @@ (g2 :> NoCap)
FirstHasBudget == (g1 :> TRUE) @@ (g2 :> FALSE)
Budgeted == [g \in Grants |-> TRUE]
=============================================================================
