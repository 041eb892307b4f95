----------------------------- MODULE MCIngestion ----------------------------
(***************************************************************************)
(* Instances of Ingestion, and of the history read from it, for TLC.  Host *)
(* threads are interchangeable.                                            *)
(***************************************************************************)
EXTENDS History, TLC

CONSTANTS h1, h2

TwoHosts == {h1, h2}
HostSymmetry == Permutations(TwoHosts)

\* Costs 0, 1 and 2: short texts are free.
MixedCost(turn) == (turn.of + IF turn.role = "user" THEN 0 ELSE 1) % 3

TokensByDefault == [mode |-> "tokens", budget |-> 3]
SmallBudgets == {0, 1, 2}
=============================================================================
