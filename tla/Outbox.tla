------------------------------- MODULE Outbox -------------------------------
(***************************************************************************)
(* The transactional outbox of database/outbox.py: business transactions   *)
(* insert rows into transactional_outbox, and the relay engines of the API *)
(* pods lease batches of rows, publish them to Kafka and write the outcome *)
(* back.  Every database transaction of the code is one step; the network  *)
(* calls between them, and whatever happens while a relay waits, are       *)
(* separate steps.                                                         *)
(*                                                                         *)
(* headers.lease_id is written by a fetch and never read again, so a row   *)
(* carries no holder here: a relay remembers its batch only in its own     *)
(* memory, as in the code.                                                 *)
(***************************************************************************)
EXTENDS Naturals, FiniteSets

CONSTANTS
  Event,         \* the events, numbered in the order of their created_at
  TenantEvent,   \* the events recorded with a tenant_id
  Relay,         \* the relay engines, one per API pod
  BypassesRLS,   \* does the database role ignore row level security?
  BatchSize,     \* rows per fetch (50 in main.py)
  MaxRetries,    \* failures before a row is dead-lettered (5)
  PruneLimit,    \* rows per pruning statement (1000)
  MaxFaults      \* bound of the model: relay cycles that are lost half-way

ASSUME OutboxAssumption ==
  /\ Event \subseteq Nat
  /\ TenantEvent \subseteq Event
  /\ BypassesRLS \in BOOLEAN
  /\ BatchSize \in Nat \ {0}
  /\ MaxRetries \in Nat \ {0}
  /\ PruneLimit \in Nat \ {0}
  /\ MaxFaults \in Nat

VARIABLES
  row,        \* row[e]: the row of e in transactional_outbox
  todo,       \* todo[r]: events r has leased and not yet handed to the broker
  ok,         \* ok[r]: published_ids of the cycle r is in
  failed,     \* failed[r]: failed_records of the cycle r is in
  copies,     \* copies[e]: how often the broker took e (0, 1, or 2 for more)
  takenOver,  \* history: events leased again while a lease was outstanding
  ackLost,    \* history: events the broker took although the send raised
  faults      \* number of lost cycles, for MaxFaults only

vars == <<row, todo, ok, failed, copies, takenOver, ackLost, faults>>

Status == {"none", "PENDING", "PROCESSING", "PUBLISHED", "FAILED", "pruned"}

(* age: is the timestamp the present status is judged by (leased_at of a   *)
(* PROCESSING row, published_at of a PUBLISHED one) past its limit?        *)
Row == [status : Status, retry : Nat, age : {"fresh", "stale"}]

(* A row that is in the table at all.                                      *)
Exists(e) == row[e].status \notin {"none", "pruned"}

(* The relay acquires its connections from the pool and sets no            *)
(* app.current_tenant_id, so the policy shows it the rows without tenant   *)
(* only, unless the database role bypasses row level security.             *)
Visible(e) == Exists(e) /\ (BypassesRLS \/ e \notin TenantEvent)

(* Variant of Leasable: without the recovery of expired leases.            *)
LeasableNoRecovery == {e \in Event : Visible(e) /\ row[e].status = "PENDING"}

Leasable == {e \in Event : /\ Visible(e)
                           /\ \/ row[e].status = "PENDING"
                              \/ row[e].status = "PROCESSING" /\ row[e].age = "stale"}

Oldest(S, n) == {e \in S : Cardinality({f \in S : f < e}) < n}

InFlight(r) == todo[r] \cup ok[r] \cup failed[r]

Idle(r) == InFlight(r) = {}

(* Rows that are locked while another relay writes its outcomes.           *)
LockedByOthers(r) ==
  UNION {ok[q] \cup failed[q] : q \in {p \in Relay \ {r} : todo[p] = {}}}

(* The broker's view, counted up to "more than once".                      *)
OneMore(n) == IF n = 0 THEN 1 ELSE 2

MarkPublished(w) == [w EXCEPT !.status = "PUBLISHED", !.age = "fresh"]

(* mark_outbox_event_failed looks at neither the status nor the lease.     *)
MarkFailed(w) ==
  [w EXCEPT !.retry = @ + 1,
            !.status = IF w.retry + 1 >= MaxRetries THEN "FAILED" ELSE "PENDING",
            !.age = "fresh"]

-----------------------------------------------------------------------------
Init ==
  /\ row = [e \in Event |-> [status |-> "none", retry |-> 0, age |-> "fresh"]]
  /\ todo = [r \in Relay |-> {}]
  /\ ok = [r \in Relay |-> {}]
  /\ failed = [r \in Relay |-> {}]
  /\ copies = [e \in Event |-> 0]
  /\ takenOver = {}
  /\ ackLost = {}
  /\ faults = 0

(* A business transaction that recorded e commits.  created_at is the      *)
(* start of that transaction, so commits need not follow created_at.       *)
RecordEvent(e) ==
  /\ row[e].status = "none"
  /\ row' = [row EXCEPT ![e].status = "PENDING"]
  /\ UNCHANGED <<todo, ok, failed, copies, takenOver, ackLost, faults>>

(* Variant of FetchBatch: the rows are selected and not marked PROCESSING. *)
FetchBatchUnmarked(r) ==
  /\ Idle(r)
  /\ \E locked \in SUBSET LockedByOthers(r) :
       LET batch == Oldest(Leasable \ locked, BatchSize)
       IN  batch # {} /\ todo' = [todo EXCEPT ![r] = batch]
  /\ UNCHANGED <<row, ok, failed, copies, takenOver, ackLost, faults>>

(* One fetch transaction: the oldest leasable rows that are not locked by  *)
(* a concurrent transaction become PROCESSING, with a fresh leased_at.     *)
FetchBatch(r) ==
  /\ Idle(r)
  /\ \E locked \in SUBSET LockedByOthers(r) :
       LET batch == Oldest(Leasable \ locked, BatchSize)
       IN  /\ batch # {}
           /\ todo' = [todo EXCEPT ![r] = batch]
           /\ row' = [e \in Event |->
                IF e \in batch
                THEN [row[e] EXCEPT !.status = "PROCESSING", !.age = "fresh"]
                ELSE row[e]]
           /\ takenOver' = takenOver
                \cup {e \in batch : row[e].status = "PROCESSING"}
  /\ UNCHANGED <<ok, failed, copies, ackLost, faults>>

(* The broker confirms the send.  UPDATE ... RETURNING gives the batch in  *)
(* no particular order, hence any event of it may be next.                 *)
PublishConfirmed(r, e) ==
  /\ e \in todo[r]
  /\ todo' = [todo EXCEPT ![r] = @ \ {e}]
  /\ ok' = [ok EXCEPT ![r] = @ \cup {e}]
  /\ copies' = [copies EXCEPT ![e] = OneMore(@)]
  /\ UNCHANGED <<row, failed, takenOver, ackLost, faults>>

(* Variant of PublishRefused: the fallback that logs the payload counts as *)
(* a success.                                                              *)
PublishRefusedAsOk(r, e) ==
  /\ e \in todo[r]
  /\ todo' = [todo EXCEPT ![r] = @ \ {e}]
  /\ ok' = [ok EXCEPT ![r] = @ \cup {e}]
  /\ UNCHANGED <<row, failed, copies, takenOver, ackLost, faults>>

(* No producer, or the broker refuses: publish_transaction_async returns   *)
(* False and nothing reached the topic.                                    *)
PublishRefused(r, e) ==
  /\ e \in todo[r]
  /\ todo' = [todo EXCEPT ![r] = @ \ {e}]
  /\ failed' = [failed EXCEPT ![r] = @ \cup {e}]
  /\ UNCHANGED <<row, ok, copies, takenOver, ackLost, faults>>

(* The broker took the record and the acknowledgement is lost (request     *)
(* timeout): the code sees an exception and reports a failure.             *)
PublishAckLost(r, e) ==
  /\ e \in todo[r]
  /\ todo' = [todo EXCEPT ![r] = @ \ {e}]
  /\ failed' = [failed EXCEPT ![r] = @ \cup {e}]
  /\ copies' = [copies EXCEPT ![e] = OneMore(@)]
  /\ ackLost' = ackLost \cup {e}
  /\ UNCHANGED <<row, ok, takenOver, faults>>

Publish(r) == \E e \in Event : \/ PublishConfirmed(r, e)
                               \/ PublishRefused(r, e)
                               \/ PublishAckLost(r, e)

(* The transaction that writes the outcomes of a whole batch back, by id   *)
(* only: a lease that expired meanwhile, or a status another relay wrote,  *)
(* does not stop it.  Rows that are gone or hidden are not updated.        *)
PersistStatuses(r) ==
  /\ todo[r] = {}
  /\ ~Idle(r)
  /\ row' = [e \in Event |->
       CASE Visible(e) /\ e \in ok[r]     -> MarkPublished(row[e])
         [] Visible(e) /\ e \in failed[r] -> MarkFailed(row[e])
         [] OTHER                         -> row[e]]
  /\ ok' = [ok EXCEPT ![r] = {}]
  /\ failed' = [failed EXCEPT ![r] = {}]
  /\ UNCHANGED <<todo, copies, takenOver, ackLost, faults>>

(* The pod dies, the task is cancelled at shutdown, or the persisting      *)
(* transaction fails and the cycle's handler swallows it: the cycle's      *)
(* local lists are gone and the rows stay PROCESSING.                      *)
LoseCycle(r) ==
  /\ ~Idle(r)
  /\ faults < MaxFaults
  /\ todo' = [todo EXCEPT ![r] = {}]
  /\ ok' = [ok EXCEPT ![r] = {}]
  /\ failed' = [failed EXCEPT ![r] = {}]
  /\ faults' = faults + 1
  /\ UNCHANGED <<row, copies, takenOver, ackLost>>

(* 300 seconds since leased_at, or 24 hours since published_at.  A batch   *)
(* of 50 sends of up to 10 seconds each outlasts a lease.                  *)
TimePasses(e) ==
  /\ row[e].status \in {"PROCESSING", "PUBLISHED"}
  /\ row[e].age = "fresh"
  /\ row' = [row EXCEPT ![e].age = "stale"]
  /\ UNCHANGED <<todo, ok, failed, copies, takenOver, ackLost, faults>>

(* The retention step that ends a cycle: PruneLimit rows at most, picked   *)
(* in no order, among the PUBLISHED ones past their retention.             *)
Prunable == {e \in Event : /\ Visible(e)
                           /\ row[e].status = "PUBLISHED"
                           /\ row[e].age = "stale"}

PruneRetention(r) ==
  /\ Idle(r)
  /\ \E gone \in SUBSET Prunable :
       /\ gone # {}
       /\ gone = Prunable \/ Cardinality(gone) = PruneLimit
       /\ row' = [e \in Event |->
            IF e \in gone
            THEN [row[e] EXCEPT !.status = "pruned", !.age = "fresh"]
            ELSE row[e]]
  /\ UNCHANGED <<todo, ok, failed, copies, takenOver, ackLost, faults>>

Next ==
  \/ \E e \in Event : RecordEvent(e) \/ TimePasses(e)
  \/ \E r \in Relay :
       \/ FetchBatch(r)
       \/ Publish(r)
       \/ PersistStatuses(r)
       \/ LoseCycle(r)
       \/ PruneRetention(r)

Spec == Init /\ [][Next]_vars

(* A relay that is up keeps running its loop, and leases do expire.        *)
Fairness ==
  /\ \A r \in Relay : /\ WF_vars(FetchBatch(r))
                      /\ WF_vars(Publish(r))
                      /\ WF_vars(PersistStatuses(r))
  /\ \A e \in Event : WF_vars(row[e].status = "PROCESSING" /\ TimePasses(e))

FairSpec == Spec /\ Fairness

-----------------------------------------------------------------------------
(* Every variable has its type.                                            *)
TypeOK ==
  /\ row \in [Event -> Row]
  /\ todo \in [Relay -> SUBSET Event]
  /\ ok \in [Relay -> SUBSET Event]
  /\ failed \in [Relay -> SUBSET Event]
  /\ copies \in [Event -> 0..2]
  /\ takenOver \subseteq Event
  /\ ackLost \subseteq Event
  /\ faults \in 0..MaxFaults

(* Zero loss: an event that was recorded and is no longer owed (PUBLISHED, *)
(* or deleted by the pruner) did reach the broker.  No interleaving of     *)
(* leases, expiries, crashes and late write-backs may mark or delete a row *)
(* whose event was never sent.                                             *)
NothingLost ==
  \A e \in Event : row[e].status \in {"PUBLISHED", "pruned"} => copies[e] > 0

(* Duplicates have a cause: an event that was never leased twice at once   *)
(* and whose acknowledgements all arrived is on the topic at most once,    *)
(* and is dead-lettered only if the broker never took it.                  *)
CleanEventsOnce ==
  \A e \in Event \ (takenOver \cup ackLost) :
    /\ copies[e] <= 1
    /\ row[e].status = "FAILED" => copies[e] = 0

(* Leases exclude each other until one expires: while an event was never   *)
(* taken over, at most one relay has it in hand, and its row says so.      *)
SoleHolder ==
  \A e \in Event \ takenOver : \A r \in Relay : e \in InFlight(r) =>
    /\ row[e].status = "PROCESSING"
    /\ \A q \in Relay : e \in InFlight(q) => q = r

(* The retry budget: rows the relays still work on have retries left, and  *)
(* dead-lettered ones have used them all, whoever reported the failures.   *)
RetryBudget ==
  \A e \in Event :
    /\ row[e].status \in {"PENDING", "PROCESSING"} => row[e].retry < MaxRetries
    /\ row[e].status = "FAILED" => row[e].retry >= MaxRetries

(* A published row is taken back (to PENDING or FAILED) only by a relay    *)
(* that lost its lease: never for an event that was leased once at a time. *)
ConfirmedUnlessTakenOver ==
  [][\A e \in Event :
       row[e].status = "PUBLISHED" /\ row'[e].status \in {"PENDING", "FAILED"}
         => e \in takenOver]_vars

(* Every recorded event is eventually published or dead-lettered: no row   *)
(* stays PENDING or PROCESSING for ever.                                   *)
EventuallySettled ==
  \A e \in Event :
    row[e].status = "PENDING" ~> row[e].status \in {"PUBLISHED", "FAILED", "pruned"}

(* What the module's doc says: the outbox publishes every recorded event.  *)
(* Every event that is not dead-lettered reaches the broker.               *)
EventuallyPublished ==
  \A e \in Event :
    row[e].status = "PENDING" ~> (copies[e] > 0 \/ row[e].status = "FAILED")
=============================================================================
