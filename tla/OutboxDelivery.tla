--------------------------- MODULE OutboxDelivery ---------------------------
(***************************************************************************)
(* The outbox relay implements EventDelivery.                              *)
(***************************************************************************)
EXTENDS Outbox

(* How a status is seen from outside.                                      *)
FateOf(status) ==
  CASE status = "none"                     -> "unborn"
    [] status \in {"PENDING", "PROCESSING"} -> "owed"
    [] status = "FAILED"                   -> "dead"
    [] status \in {"PUBLISHED", "pruned"}  -> "done"

Delivery == INSTANCE EventDelivery
              WITH fate  <- [e \in Event |-> FateOf(row[e].status)],
                   taken <- {e \in Event : copies[e] > 0}

(* Every step of the relays, the clock and the crashes is a step of the    *)
(* promise or leaves it alone.                                             *)
KeepsThePromise == Delivery!Spec
=============================================================================
