-------------------------- MODULE MCAlertLifecycle --------------------------
(* Instances of AlertLifecycle for TLC: two alerts that ingestion raised   *)
(* on one transaction, or one alert on each of two transactions.           *)
EXTENDS AlertLifecycle, TLC

Shared == [a \in {1, 2} |-> "t1"]
Separate == [a \in {1, 2} |-> IF a = 1 THEN "t1" ELSE "t2"]
OfficerSymmetry == Permutations(Officer)
=============================================================================
