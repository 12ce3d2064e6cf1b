------------------------ MODULE MCTransactionIngest -------------------------
(* Instances of TransactionIngest for TLC: a customer who moves cash       *)
(* between two accounts, and the requests that do it, all alike.           *)
EXTENDS TransactionIngest, TLC

CONSTANTS A, B, K

Owner == [a \in Account |-> "owner"]
Cash(from, to, amount, at) ==
  [from |-> from, to |-> to, amount |-> amount, cash |-> TRUE, at |-> at]
Sent(route, k, p) == [route |-> route, key |-> k, pay |-> p]
Calls == {Sent("sync", K, Cash(A, B, 10, 1)), Sent("sync", K, Cash(B, A, 9, 2)),
          Sent("sync", NoKey, Cash(A, B, 10, 1)),
          Sent("async", K, Cash(A, B, 10, 1))}
RequestSymmetry == Permutations(Request)
=============================================================================
