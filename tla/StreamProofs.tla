--------------------------- MODULE StreamProofs -----------------------------
(***************************************************************************)
(* What tlapm proves of the way of events: the outbox relay, the workers,  *)
(* the detection rules with their configuration, and the whitelist; for    *)
(* any number of events, relays, workers, processes, transactions and      *)
(* dispositions, any batch size and retry limit, and with or without row   *)
(* level security, what TLC checks on instances.                           *)
(***************************************************************************)
EXTENDS OutboxDelivery, GraphSync, ScoringWorker, DetectionRules, RuleConfig, WhitelistCache,
        SequenceTheorems, Sums

-----------------------------------------------------------------------------
(* The outbox relay.                                                       *)

(* An outcome list only names events of the batch that were tried, and     *)
(* published_ids only events the broker has.                               *)
ListsOK ==
  \A r \in Relay :
    /\ todo[r] \cap (ok[r] \cup failed[r]) = {}
    /\ \A e \in ok[r] : copies[e] > 0

(* A row that is still to be sent, or was given up, was never sent as long *)
(* as nothing disturbed its event; nor was one a relay found refused.      *)
CleanOK ==
  \A e \in Event \ (takenOver \cup ackLost) :
    /\ copies[e] <= 1
    /\ row[e].status \in {"none", "PENDING", "FAILED"} => copies[e] = 0
    /\ \A r \in Relay : e \in todo[r] \cup failed[r] => copies[e] = 0

(* RetryBudget, with the rows that are not recorded yet.                   *)
BudgetOK ==
  \A e \in Event :
    /\ row[e].status \in {"none", "PENDING", "PROCESSING"}
         => row[e].retry < MaxRetries
    /\ row[e].status = "FAILED" => row[e].retry >= MaxRetries

(* What a relay has in hand was recorded.                                  *)
RecordedOK ==
  \A r \in Relay : \A e \in InFlight(r) : row[e].status # "none"

(* The inductive invariant.                                                *)
IInv ==
  /\ TypeOK
  /\ ListsOK
  /\ NothingLost
  /\ SoleHolder
  /\ CleanOK
  /\ BudgetOK
  /\ RecordedOK

-----------------------------------------------------------------------------
(* A step is one of these; the lemmas below go through them in turn.       *)
LEMMA StepCases ==
  ASSUME [Next]_vars
  PROVE  \/ \E e \in Event : RecordEvent(e)
         \/ \E e \in Event : TimePasses(e)
         \/ \E r \in Relay : FetchBatch(r)
         \/ \E r \in Relay, e \in Event : PublishConfirmed(r, e)
         \/ \E r \in Relay, e \in Event : PublishRefused(r, e)
         \/ \E r \in Relay, e \in Event : PublishAckLost(r, e)
         \/ \E r \in Relay : PersistStatuses(r)
         \/ \E r \in Relay : LoseCycle(r)
         \/ \E r \in Relay : PruneRetention(r)
         \/ UNCHANGED vars
BY DEF Next, Publish

(* What a fetch does to the state, whichever batch it leases.              *)
Leases(r, fetched) ==
  /\ Idle(r)
  /\ todo' = [todo EXCEPT ![r] = fetched]
  /\ row' = [e \in Event |->
       IF e \in fetched
       THEN [row[e] EXCEPT !.status = "PROCESSING", !.age = "fresh"]
       ELSE row[e]]
  /\ takenOver' = takenOver \cup {e \in fetched : row[e].status = "PROCESSING"}
  /\ UNCHANGED <<ok, failed, copies, ackLost, faults>>

LEMMA FetchLeases ==
  ASSUME NEW r \in Relay, FetchBatch(r)
  PROVE  \E fetched \in SUBSET Leasable : Leases(r, fetched)
<1>1. PICK locked \in SUBSET LockedByOthers(r) :
        Leases(r, Oldest(Leasable \ locked, BatchSize))
  BY DEF FetchBatch, Leases
<1>2. Oldest(Leasable \ locked, BatchSize) \subseteq Leasable
  BY DEF Oldest
<1> QED
  BY <1>1, <1>2

(* The two write-backs of a row.                                           *)
LEMMA RowChanges ==
  ASSUME NEW w \in Row
  PROVE  /\ MarkPublished(w) \in Row
         /\ MarkPublished(w).status = "PUBLISHED"
         /\ MarkFailed(w) \in Row
         /\ MarkFailed(w).retry = w.retry + 1
         /\ \/ MarkFailed(w).status = "FAILED" /\ w.retry + 1 >= MaxRetries
            \/ MarkFailed(w).status = "PENDING" /\ w.retry + 1 < MaxRetries
<1>1. /\ MarkPublished(w) \in Row
      /\ MarkPublished(w).status = "PUBLISHED"
  BY DEF MarkPublished, Row, Status
<1>2. w.retry \in Nat /\ w.retry + 1 \in Nat
  BY DEF Row
<1>3. CASE w.retry + 1 >= MaxRetries
  BY <1>1, <1>2, <1>3 DEF MarkFailed, Row, Status
<1>4. CASE w.retry + 1 < MaxRetries
  <2>1. MarkFailed(w) =
          [w EXCEPT !.retry = w.retry + 1, !.status = "PENDING", !.age = "fresh"]
    <3>1. ~(w.retry + 1 >= MaxRetries)
      BY <1>2, <1>4, OutboxAssumption
    <3> QED
      BY <3>1, Zenon DEF MarkFailed
  <2> QED
    BY <1>1, <1>2, <1>4, <2>1 DEF Row, Status
<1> QED
  BY <1>2, <1>3, <1>4, OutboxAssumption

(* The invariant holds initially.                                          *)
LEMMA InitIInv == Init => IInv
BY OutboxAssumption
   DEF Init, IInv, TypeOK, ListsOK, NothingLost, SoleHolder, CleanOK, BudgetOK,
       RecordedOK, Row, Status, InFlight

(* Every step preserves the types.                                         *)
LEMMA NextTypeOK == TypeOK /\ [Next]_vars => TypeOK'
<1> SUFFICES ASSUME TypeOK, [Next]_vars PROVE TypeOK'
  OBVIOUS
<1> USE DEF TypeOK
<1>1. CASE \E e \in Event : RecordEvent(e)
  <2>1. row' \in [Event -> Row]
    BY <1>1 DEF RecordEvent, Row, Status
  <2> QED
    BY <1>1, <2>1 DEF RecordEvent
<1>2. CASE \E e \in Event : TimePasses(e)
  BY <1>2 DEF TimePasses, Row, Status
<1>3. CASE \E r \in Relay : FetchBatch(r)
  <2>1. PICK r \in Relay, fetched \in SUBSET Leasable : Leases(r, fetched)
    BY <1>3, FetchLeases
  <2>2. fetched \subseteq Event
    BY DEF Leasable
  <2>3. row' \in [Event -> Row]
    <3>1. \A e \in Event :
            [row[e] EXCEPT !.status = "PROCESSING", !.age = "fresh"] \in Row
      BY DEF Row, Status
    <3> QED BY <2>1, <3>1 DEF Leases
  <2>4. todo' \in [Relay -> SUBSET Event] /\ takenOver' \subseteq Event
    BY <2>1, <2>2 DEF Leases
  <2> QED
    BY <2>1, <2>3, <2>4 DEF Leases
<1>4. CASE \E r \in Relay, e \in Event : PublishConfirmed(r, e)
  BY <1>4 DEF PublishConfirmed, OneMore
<1>5. CASE \E r \in Relay, e \in Event : PublishRefused(r, e)
  BY <1>5 DEF PublishRefused
<1>6. CASE \E r \in Relay, e \in Event : PublishAckLost(r, e)
  BY <1>6 DEF PublishAckLost, OneMore
<1>7. CASE \E r \in Relay : PersistStatuses(r)
  <2>1. row' \in [Event -> Row]
    BY <1>7, RowChanges DEF PersistStatuses
  <2> QED
    BY <1>7, <2>1 DEF PersistStatuses
<1>8. CASE \E r \in Relay : LoseCycle(r)
  BY <1>8, OutboxAssumption DEF LoseCycle
<1>9. CASE \E r \in Relay : PruneRetention(r)
  <2>1. PICK gone \in SUBSET Prunable :
          row' = [e \in Event |->
            IF e \in gone
            THEN [row[e] EXCEPT !.status = "pruned", !.age = "fresh"]
            ELSE row[e]]
    BY <1>9 DEF PruneRetention
  <2>2. \A e \in Event : [row[e] EXCEPT !.status = "pruned", !.age = "fresh"] \in Row
    BY DEF Row, Status
  <2>3. row' \in [Event -> Row]
    BY <2>1, <2>2
  <2> QED
    BY <1>9, <2>3 DEF PruneRetention
<1>10. CASE UNCHANGED vars
  BY <1>10 DEF vars
<1> QED
  BY <1>1, <1>2, <1>3, <1>4, <1>5, <1>6, <1>7, <1>8, <1>9, <1>10, StepCases

(* Type correctness of the outbox.                                         *)
THEOREM OutboxTypeOK == Spec => []TypeOK
<1>1. Init => TypeOK
  BY InitIInv DEF IInv
<1> QED
  BY <1>1, NextTypeOK, PTL DEF Spec

-----------------------------------------------------------------------------
(* What a step may do to one row; the lemmas below need nothing else of    *)
(* the steps that write rows.                                              *)
LEMMA PersistRows ==
  ASSUME TypeOK, NEW r \in Relay, PersistStatuses(r), NEW e \in Event
  PROVE  \/ row'[e] = row[e]
         \/ e \in ok[r] /\ row'[e] = MarkPublished(row[e])
         \/ e \in failed[r] /\ row'[e] = MarkFailed(row[e])
BY DEF PersistStatuses, TypeOK

LEMMA PruneRows ==
  ASSUME TypeOK, NEW r \in Relay, PruneRetention(r), NEW e \in Event
  PROVE  \/ row'[e] = row[e]
         \/ /\ row[e].status = "PUBLISHED"
            /\ row'[e].status = "pruned"
            /\ row'[e].retry = row[e].retry
<1>1. PICK gone \in SUBSET Prunable :
        row' = [f \in Event |->
          IF f \in gone
          THEN [row[f] EXCEPT !.status = "pruned", !.age = "fresh"]
          ELSE row[f]]
  BY DEF PruneRetention
<1>2. e \in gone => row[e].status = "PUBLISHED"
  BY <1>1 DEF Prunable
<1> QED
  BY <1>1, <1>2 DEF TypeOK, Row

LEMMA LeaseRows ==
  ASSUME TypeOK, NEW r \in Relay, NEW fetched \in SUBSET Leasable,
         Leases(r, fetched), NEW e \in Event
  PROVE  \/ e \notin fetched /\ row'[e] = row[e]
         \/ /\ e \in fetched
            /\ row[e].status \in {"PENDING", "PROCESSING"}
            /\ row'[e].status = "PROCESSING"
            /\ row'[e].retry = row[e].retry
            /\ row[e].status = "PROCESSING" => e \in takenOver'
<1>1. e \in fetched => row[e].status \in {"PENDING", "PROCESSING"}
  BY DEF Leasable
<1>2. row'[e] = IF e \in fetched
                THEN [row[e] EXCEPT !.status = "PROCESSING", !.age = "fresh"]
                ELSE row[e]
  BY DEF Leases
<1> QED
  BY <1>1, <1>2 DEF Leases, TypeOK, Row

LEMMA RecordRows ==
  ASSUME TypeOK, NEW f \in Event, RecordEvent(f), NEW e \in Event
  PROVE  \/ row'[e] = row[e]
         \/ /\ row[e].status = "none"
            /\ row'[e].status = "PENDING"
            /\ row'[e].retry = row[e].retry
BY DEF RecordEvent, TypeOK, Row

LEMMA TimeRows ==
  ASSUME TypeOK, NEW f \in Event, TimePasses(f), NEW e \in Event
  PROVE  row'[e].status = row[e].status /\ row'[e].retry = row[e].retry
BY DEF TimePasses, TypeOK, Row

-----------------------------------------------------------------------------
(* The lists of a relay stay within its batch, and what it will report as  *)
(* published has been sent.                                                *)
LEMMA NextListsOK == TypeOK /\ ListsOK /\ [Next]_vars => ListsOK'
<1> SUFFICES ASSUME TypeOK, ListsOK, [Next]_vars PROVE ListsOK'
  OBVIOUS
<1> USE DEF TypeOK, ListsOK
<1>1. CASE \E e \in Event : RecordEvent(e)
  BY <1>1 DEF RecordEvent
<1>2. CASE \E e \in Event : TimePasses(e)
  BY <1>2 DEF TimePasses
<1>3. CASE \E r \in Relay : FetchBatch(r)
  <2>1. PICK r \in Relay, fetched \in SUBSET Leasable : Leases(r, fetched)
    BY <1>3, FetchLeases
  <2> QED
    BY <2>1 DEF Leases, Idle, InFlight
<1>4. CASE \E r \in Relay, e \in Event : PublishConfirmed(r, e)
  BY <1>4 DEF PublishConfirmed, OneMore
<1>5. CASE \E r \in Relay, e \in Event : PublishRefused(r, e)
  BY <1>5 DEF PublishRefused
<1>6. CASE \E r \in Relay, e \in Event : PublishAckLost(r, e)
  BY <1>6 DEF PublishAckLost, OneMore
<1>7. CASE \E r \in Relay : PersistStatuses(r)
  BY <1>7 DEF PersistStatuses
<1>8. CASE \E r \in Relay : LoseCycle(r)
  BY <1>8 DEF LoseCycle
<1>9. CASE \E r \in Relay : PruneRetention(r)
  BY <1>9 DEF PruneRetention
<1>10. CASE UNCHANGED vars
  BY <1>10 DEF vars
<1> QED
  BY <1>1, <1>2, <1>3, <1>4, <1>5, <1>6, <1>7, <1>8, <1>9, <1>10, StepCases

(* The broker never forgets an event it took.                              *)
LEMMA CopiesGrow ==
  ASSUME TypeOK, [Next]_vars, NEW e \in Event, copies[e] > 0
  PROVE  copies'[e] > 0
<1>1. CASE \E r \in Relay : FetchBatch(r)
  BY <1>1 DEF FetchBatch
<1>2. CASE \E r \in Relay, f \in Event :
             PublishConfirmed(r, f) \/ PublishAckLost(r, f)
  BY <1>2 DEF PublishConfirmed, PublishAckLost, OneMore, TypeOK
<1>3. CASE UNCHANGED copies
  BY <1>3
<1> QED
  BY <1>1, <1>2, <1>3, StepCases
     DEF RecordEvent, TimePasses, PublishRefused, PersistStatuses, LoseCycle,
         PruneRetention, vars

(* A row becomes PUBLISHED or disappears only for an event that was sent.  *)
LEMMA NextNothingLost ==
  TypeOK /\ ListsOK /\ NothingLost /\ [Next]_vars => NothingLost'
<1> SUFFICES ASSUME TypeOK, ListsOK, NothingLost, [Next]_vars,
                    NEW e \in Event, row'[e].status \in {"PUBLISHED", "pruned"}
             PROVE  copies'[e] > 0
  BY DEF NothingLost
<1> SUFFICES copies[e] > 0
  BY CopiesGrow
<1> SUFFICES ASSUME row[e].status \notin {"PUBLISHED", "pruned"}
             PROVE  copies[e] > 0
  BY DEF NothingLost
<1>1. CASE \E f \in Event : RecordEvent(f)
  BY <1>1, RecordRows
<1>2. CASE \E f \in Event : TimePasses(f)
  BY <1>2, TimeRows
<1>3. CASE \E r \in Relay : FetchBatch(r)
  <2>1. PICK r \in Relay, fetched \in SUBSET Leasable : Leases(r, fetched)
    BY <1>3, FetchLeases
  <2> QED
    BY <2>1, LeaseRows
<1>4. CASE \E r \in Relay : PersistStatuses(r)
  <2>1. PICK r \in Relay : PersistStatuses(r)
    BY <1>4
  <2>2. row[e] \in Row
    BY DEF TypeOK
  <2>3. e \in ok[r]
    BY <2>1, <2>2, PersistRows, RowChanges
  <2> QED
    BY <2>3 DEF ListsOK
<1>5. CASE \E r \in Relay : PruneRetention(r)
  BY <1>5, PruneRows
<1>6. CASE row' = row
  BY <1>6
<1> QED
  BY <1>1, <1>2, <1>3, <1>4, <1>5, <1>6, StepCases
     DEF PublishConfirmed, PublishRefused, PublishAckLost, LoseCycle, vars
(* An event is in flight at its sole holder and PROCESSING until somebody  *)
(* leases it a second time.                                                *)
LEMMA NextSoleHolder == TypeOK /\ SoleHolder /\ [Next]_vars => SoleHolder'
<1> SUFFICES ASSUME TypeOK, SoleHolder, [Next]_vars,
                    NEW e \in Event \ takenOver', NEW p \in Relay,
                    e \in InFlight(p)'
             PROVE  /\ row'[e].status = "PROCESSING"
                    /\ \A q \in Relay : e \in InFlight(q)' => q = p
  BY DEF SoleHolder
<1> USE DEF InFlight
<1>a. e \notin takenOver
  BY StepCases
     DEF RecordEvent, TimePasses, FetchBatch, PublishConfirmed, PublishRefused,
         PublishAckLost, PersistStatuses, LoseCycle, PruneRetention, vars
<1>b. ASSUME \A q \in Relay : InFlight(q)' \subseteq InFlight(q)
      PROVE  /\ row[e].status = "PROCESSING"
             /\ e \in InFlight(p)
             /\ \A q \in Relay : e \in InFlight(q)' => q = p
  <2>1. e \in InFlight(p)
    BY <1>b
  <2> QED
    BY <1>a, <1>b, <2>1 DEF SoleHolder
<1>1. CASE \E f \in Event : RecordEvent(f)
  <2>1. \A q \in Relay : InFlight(q)' \subseteq InFlight(q)
    BY <1>1 DEF RecordEvent
  <2> QED
    BY <1>1, <1>b, <2>1, RecordRows
<1>2. CASE \E f \in Event : TimePasses(f)
  <2>1. \A q \in Relay : InFlight(q)' \subseteq InFlight(q)
    BY <1>2 DEF TimePasses
  <2> QED
    BY <1>2, <1>b, <2>1, TimeRows
<1>3. CASE \E r \in Relay : FetchBatch(r)
  <2>1. PICK r \in Relay, fetched \in SUBSET Leasable : Leases(r, fetched)
    BY <1>3, FetchLeases
  <2>2. InFlight(r)' = fetched
    BY <2>1 DEF Leases, Idle, TypeOK
  <2>3. \A q \in Relay \ {r} : InFlight(q)' = InFlight(q)
    BY <2>1 DEF Leases, TypeOK
  <2>4. CASE e \in fetched
    <3>1. row[e].status = "PENDING" /\ row'[e].status = "PROCESSING"
      BY <2>1, <2>4, LeaseRows
    <3>2. \A q \in Relay : e \notin InFlight(q)
      BY <1>a, <3>1 DEF SoleHolder
    <3> QED
      BY <2>2, <2>3, <3>1, <3>2
  <2>5. CASE e \notin fetched
    <3>1. row'[e] = row[e]
      BY <2>1, <2>5, LeaseRows
    <3>2. p # r /\ e \in InFlight(p)
      BY <2>2, <2>3, <2>5
    <3> QED
      BY <1>a, <2>2, <2>3, <2>5, <3>1, <3>2 DEF SoleHolder
  <2> QED
    BY <2>4, <2>5
<1>4. CASE \E r \in Relay, f \in Event :
             \/ PublishConfirmed(r, f)
             \/ PublishRefused(r, f)
             \/ PublishAckLost(r, f)
  <2>1. row' = row /\ \A q \in Relay : InFlight(q)' \subseteq InFlight(q)
    BY <1>4 DEF PublishConfirmed, PublishRefused, PublishAckLost, TypeOK
  <2> QED
    BY <1>b, <2>1
<1>5. CASE \E r \in Relay : PersistStatuses(r)
  <2>1. PICK r \in Relay : PersistStatuses(r)
    BY <1>5
  <2>2. /\ InFlight(r)' = {}
        /\ \A q \in Relay : InFlight(q)' \subseteq InFlight(q)
    BY <2>1 DEF PersistStatuses, TypeOK
  <2>3. p # r /\ e \notin InFlight(r)
    BY <1>a, <2>2 DEF SoleHolder
  <2>4. row'[e] = row[e]
    BY <2>1, <2>3, PersistRows
  <2> QED
    BY <1>b, <2>2, <2>4
<1>6. CASE \E r \in Relay : LoseCycle(r)
  <2>1. row' = row /\ \A q \in Relay : InFlight(q)' \subseteq InFlight(q)
    BY <1>6 DEF LoseCycle, TypeOK
  <2> QED
    BY <1>b, <2>1
<1>7. CASE \E r \in Relay : PruneRetention(r)
  <2>1. \A q \in Relay : InFlight(q)' \subseteq InFlight(q)
    BY <1>7 DEF PruneRetention
  <2> QED
    BY <1>7, <1>b, <2>1, PruneRows
<1>8. CASE UNCHANGED vars
  BY <1>8, <1>b DEF vars
<1> QED
  BY <1>1, <1>2, <1>3, <1>4, <1>5, <1>6, <1>7, <1>8, StepCases
(* While nothing disturbs an event, its copies follow its row and lists.   *)
LEMMA NextCleanOK ==
  TypeOK /\ ListsOK /\ SoleHolder /\ CleanOK /\ [Next]_vars => CleanOK'
<1> DEFINE Clean(e) ==
      /\ copies[e] <= 1
      /\ row[e].status \in {"none", "PENDING", "FAILED"} => copies[e] = 0
      /\ \A r \in Relay : e \in todo[r] \cup failed[r] => copies[e] = 0
<1> SUFFICES ASSUME TypeOK, ListsOK, SoleHolder, CleanOK, [Next]_vars,
                    NEW e \in Event \ (takenOver' \cup ackLost')
             PROVE  Clean(e)'
  BY DEF CleanOK
<1>a. e \notin takenOver /\ e \notin ackLost
  BY StepCases
     DEF RecordEvent, TimePasses, FetchBatch, PublishConfirmed, PublishRefused,
         PublishAckLost, PersistStatuses, LoseCycle, PruneRetention, vars
<1>b. Clean(e)
  BY <1>a DEF CleanOK
<1>1. CASE \E f \in Event : RecordEvent(f)
  <2>1. UNCHANGED <<todo, failed, copies>>
    BY <1>1 DEF RecordEvent
  <2> QED
    BY <1>1, <1>b, <2>1, RecordRows
<1>2. CASE \E f \in Event : TimePasses(f)
  <2>1. UNCHANGED <<todo, failed, copies>>
    BY <1>2 DEF TimePasses
  <2> QED
    BY <1>2, <1>b, <2>1, TimeRows
<1>3. CASE \E r \in Relay : FetchBatch(r)
  <2>1. PICK r \in Relay, fetched \in SUBSET Leasable : Leases(r, fetched)
    BY <1>3, FetchLeases
  <2>2. UNCHANGED <<failed, copies>>
    BY <2>1 DEF Leases
  <2>3. e \in fetched => row[e].status = "PENDING"
    BY <2>1, LeaseRows
  <2>4. e \in fetched => copies[e] = 0
    BY <1>b, <2>3
  <2>5. \A q \in Relay : e \in todo'[q] => e \in todo[q] \/ e \in fetched
    BY <2>1 DEF Leases, TypeOK
  <2>6. row'[e] = row[e] \/ row'[e].status = "PROCESSING"
    BY <2>1, LeaseRows
  <2> QED
    BY <1>b, <2>2, <2>4, <2>5, <2>6
<1>4. CASE \E r \in Relay, f \in Event : PublishConfirmed(r, f)
  <2>1. PICK r \in Relay, f \in Event : PublishConfirmed(r, f)
    BY <1>4
  <2>2. CASE f # e
    BY <1>b, <2>1, <2>2 DEF PublishConfirmed, TypeOK
  <2>3. CASE f = e
    <3>1. e \in todo[r] /\ copies[e] = 0
      BY <1>b, <2>1, <2>3 DEF PublishConfirmed
    <3>2. /\ row[e].status = "PROCESSING"
          /\ \A q \in Relay : e \in InFlight(q) => q = r
      BY <1>a, <3>1 DEF SoleHolder, InFlight
    <3>3. e \notin failed[r]
      BY <3>1 DEF ListsOK
    <3>4. copies'[e] = 1
      BY <2>1, <2>3, <3>1 DEF PublishConfirmed, OneMore, TypeOK
    <3>5. \A q \in Relay : e \notin todo'[q] \cup failed'[q]
      BY <2>1, <2>3, <3>2, <3>3 DEF PublishConfirmed, InFlight, TypeOK
    <3>6. row' = row
      BY <2>1 DEF PublishConfirmed
    <3> QED
      BY <3>2, <3>4, <3>5, <3>6
  <2> QED
    BY <2>2, <2>3
<1>5. CASE \E r \in Relay, f \in Event : PublishRefused(r, f)
  BY <1>5, <1>b DEF PublishRefused, TypeOK
<1>6. CASE \E r \in Relay, f \in Event : PublishAckLost(r, f)
  <2>1. PICK r \in Relay, f \in Event : PublishAckLost(r, f)
    BY <1>6
  <2>2. f # e
    BY <2>1 DEF PublishAckLost
  <2> QED
    BY <1>b, <2>1, <2>2 DEF PublishAckLost, TypeOK
<1>7. CASE \E r \in Relay : PersistStatuses(r)
  <2>1. PICK r \in Relay : PersistStatuses(r)
    BY <1>7
  <2>2. /\ UNCHANGED <<todo, copies>>
        /\ \A q \in Relay : failed'[q] \subseteq failed[q]
    BY <2>1 DEF PersistStatuses, TypeOK
  <2>3. \/ row'[e] = row[e]
        \/ row'[e].status = "PUBLISHED"
        \/ e \in failed[r]
    <3>1. row[e] \in Row
      BY DEF TypeOK
    <3> QED
      BY <2>1, <3>1, PersistRows, RowChanges
  <2> QED
    BY <1>b, <2>2, <2>3
<1>8. CASE \E r \in Relay : LoseCycle(r)
  BY <1>8, <1>b DEF LoseCycle, TypeOK
<1>9. CASE \E r \in Relay : PruneRetention(r)
  <2>1. UNCHANGED <<todo, failed, copies>>
    BY <1>9 DEF PruneRetention
  <2> QED
    BY <1>9, <1>b, <2>1, PruneRows
<1>10. CASE UNCHANGED vars
  BY <1>10, <1>b DEF vars
<1> QED
  BY <1>1, <1>2, <1>3, <1>4, <1>5, <1>6, <1>7, <1>8, <1>9, <1>10, StepCases

(* Retries are counted, and the limit decides between retry and DLQ.       *)
LEMMA NextBudgetOK == TypeOK /\ BudgetOK /\ [Next]_vars => BudgetOK'
<1> DEFINE Budget(w) ==
      /\ w.status \in {"none", "PENDING", "PROCESSING"} => w.retry < MaxRetries
      /\ w.status = "FAILED" => w.retry >= MaxRetries
<1> SUFFICES ASSUME TypeOK, BudgetOK, [Next]_vars, NEW e \in Event
             PROVE  Budget(row'[e])
  BY DEF BudgetOK
<1>a. Budget(row[e]) /\ row[e] \in Row
  BY DEF BudgetOK, TypeOK
<1>1. CASE \E f \in Event : RecordEvent(f)
  BY <1>1, <1>a, RecordRows
<1>2. CASE \E f \in Event : TimePasses(f)
  BY <1>2, <1>a, TimeRows
<1>3. CASE \E r \in Relay : FetchBatch(r)
  <2>1. PICK r \in Relay, fetched \in SUBSET Leasable : Leases(r, fetched)
    BY <1>3, FetchLeases
  <2> QED
    BY <1>a, <2>1, LeaseRows
<1>4. CASE \E r \in Relay : PersistStatuses(r)
  BY <1>4, <1>a, PersistRows, RowChanges
<1>5. CASE \E r \in Relay : PruneRetention(r)
  BY <1>5, <1>a, PruneRows
<1>6. CASE row' = row
  BY <1>6, <1>a
<1> QED
  BY <1>1, <1>2, <1>3, <1>4, <1>5, <1>6, StepCases
     DEF PublishConfirmed, PublishRefused, PublishAckLost, LoseCycle, vars

(* No row is unrecorded again.                                             *)
LEMMA StaysRecorded ==
  ASSUME TypeOK, [Next]_vars, NEW e \in Event, row[e].status # "none"
  PROVE  row'[e].status # "none"
<1>1. CASE \E f \in Event : RecordEvent(f)
  BY <1>1, RecordRows
<1>2. CASE \E f \in Event : TimePasses(f)
  BY <1>2, TimeRows
<1>3. CASE \E r \in Relay : FetchBatch(r)
  <2>1. PICK r \in Relay, fetched \in SUBSET Leasable : Leases(r, fetched)
    BY <1>3, FetchLeases
  <2> QED
    BY <2>1, LeaseRows
<1>4. CASE \E r \in Relay : PersistStatuses(r)
  <2>1. row[e] \in Row
    BY DEF TypeOK
  <2> QED
    BY <1>4, <2>1, PersistRows, RowChanges
<1>5. CASE \E r \in Relay : PruneRetention(r)
  BY <1>5, PruneRows
<1>6. CASE row' = row
  BY <1>6
<1> QED
  BY <1>1, <1>2, <1>3, <1>4, <1>5, <1>6, StepCases
     DEF PublishConfirmed, PublishRefused, PublishAckLost, LoseCycle, vars

LEMMA NextRecordedOK == TypeOK /\ RecordedOK /\ [Next]_vars => RecordedOK'
<1> SUFFICES ASSUME TypeOK, RecordedOK, [Next]_vars,
                    NEW p \in Relay, NEW e \in InFlight(p)'
             PROVE  row'[e].status # "none"
  BY DEF RecordedOK
<1>0. e \in Event
  BY NextTypeOK DEF TypeOK, InFlight
<1>1. CASE \E r \in Relay : FetchBatch(r)
  <2>1. PICK r \in Relay, fetched \in SUBSET Leasable : Leases(r, fetched)
    BY <1>1, FetchLeases
  <2>2. e \in InFlight(p) \/ e \in fetched
    BY <2>1 DEF Leases, InFlight, TypeOK
  <2>3. e \in fetched => row'[e].status = "PROCESSING"
    BY <1>0, <2>1, LeaseRows
  <2> QED
    BY <1>0, <2>2, <2>3, StaysRecorded DEF RecordedOK
<1>2. CASE e \in InFlight(p)
  BY <1>0, <1>2, StaysRecorded DEF RecordedOK
<1>3. CASE ~\E r \in Relay : FetchBatch(r)
  <2>1. e \in InFlight(p)
    <3> USE DEF InFlight, TypeOK
    <3>1. CASE \E r \in Relay, f \in Event :
                 \/ PublishConfirmed(r, f)
                 \/ PublishRefused(r, f)
                 \/ PublishAckLost(r, f)
      BY <3>1 DEF PublishConfirmed, PublishRefused, PublishAckLost
    <3>2. CASE \E r \in Relay : PersistStatuses(r) \/ LoseCycle(r)
      BY <3>2 DEF PersistStatuses, LoseCycle
    <3>3. CASE UNCHANGED <<todo, ok, failed>>
      BY <3>3
    <3> QED
      BY <1>3, <3>1, <3>2, <3>3, StepCases
         DEF RecordEvent, TimePasses, PruneRetention, vars
  <2> QED
    BY <1>2, <2>1
<1> QED
  BY <1>1, <1>3

-----------------------------------------------------------------------------
(* The invariant is inductive.                                             *)
LEMMA NextIInv == IInv /\ [Next]_vars => IInv'
BY NextTypeOK, NextListsOK, NextNothingLost, NextSoleHolder, NextCleanOK,
   NextBudgetOK, NextRecordedOK DEF IInv

LEMMA IInvHolds == Spec => []IInv
BY InitIInv, NextIInv, PTL DEF Spec

(* Zero loss: whatever the relays, the clock and the crashes do, a row is  *)
(* marked PUBLISHED or pruned only if the broker has its event.            *)
THEOREM OutboxNothingLost == Spec => []NothingLost
<1>1. IInv => NothingLost
  BY DEF IInv
<1> QED
  BY <1>1, IInvHolds, PTL

(* Leases are exclusive until one of them expires.                         *)
THEOREM OutboxSoleHolder == Spec => []SoleHolder
<1>1. IInv => SoleHolder
  BY DEF IInv
<1> QED
  BY <1>1, IInvHolds, PTL

(* Duplicates and wrongly dead-lettered events are due to an expired lease *)
(* or a lost acknowledgement only.                                         *)
THEOREM OutboxCleanEventsOnce == Spec => []CleanEventsOnce
<1>1. IInv => CleanEventsOnce
  BY DEF IInv, CleanOK, CleanEventsOnce
<1> QED
  BY <1>1, IInvHolds, PTL

(* No row is retried past its budget, none is dead-lettered before it.     *)
THEOREM OutboxRetryBudget == Spec => []RetryBudget
<1>1. IInv => RetryBudget
  BY DEF IInv, BudgetOK, RetryBudget
<1> QED
  BY <1>1, IInvHolds, PTL

(* A confirmed row is taken back only after its lease was taken over.      *)
THEOREM OutboxConfirmed == Spec => ConfirmedUnlessTakenOver
<1> DEFINE Kept == \A e \in Event :
      row[e].status = "PUBLISHED" /\ row'[e].status \in {"PENDING", "FAILED"}
        => e \in takenOver
<1>1. ASSUME IInv, [Next]_vars, NEW e \in Event, row[e].status = "PUBLISHED",
             row'[e].status \in {"PENDING", "FAILED"}
      PROVE  e \in takenOver
  <2> USE <1>1 DEF IInv
  <2>1. CASE \E f \in Event : RecordEvent(f)
    BY <2>1, RecordRows
  <2>2. CASE \E f \in Event : TimePasses(f)
    BY <2>2, TimeRows
  <2>3. CASE \E r \in Relay : FetchBatch(r)
    <3>1. PICK r \in Relay, fetched \in SUBSET Leasable : Leases(r, fetched)
      BY <2>3, FetchLeases
    <3> QED
      BY <3>1, LeaseRows
  <2>4. CASE \E r \in Relay : PersistStatuses(r)
    <3>1. PICK r \in Relay : PersistStatuses(r)
      BY <2>4
    <3>2. row[e] \in Row
      BY DEF TypeOK
    <3>3. e \in failed[r]
      BY <3>1, <3>2, PersistRows, RowChanges
    <3> QED
      BY <3>3 DEF SoleHolder, InFlight
  <2>5. CASE \E r \in Relay : PruneRetention(r)
    BY <2>5, PruneRows
  <2>6. CASE row' = row
    BY <2>6
  <2> QED
    BY <2>1, <2>2, <2>3, <2>4, <2>5, <2>6, StepCases
       DEF PublishConfirmed, PublishRefused, PublishAckLost, LoseCycle, vars
<1>2. IInv /\ [Next]_vars => [Kept]_vars
  BY <1>1
<1> QED
  BY <1>2, IInvHolds, PTL DEF Spec, ConfirmedUnlessTakenOver
-----------------------------------------------------------------------------
(* The relay implements EventDelivery: the initial states map to initial   *)
(* states and every step to a Record, a Take, a WriteBack or a stutter.    *)
LEMMA FateCases ==
  ASSUME NEW s \in Status
  PROVE  /\ FateOf(s) \in Delivery!Fate
         /\ FateOf(s) = "unborn" <=> s = "none"
         /\ FateOf(s) = "done" <=> s \in {"PUBLISHED", "pruned"}
BY DEF FateOf, Status, Delivery!Fate

THEOREM OutboxKeepsThePromise == Spec => KeepsThePromise
<1> DEFINE fate  == [e \in Event |-> FateOf(row[e].status)]
           taken == {e \in Event : copies[e] > 0}
<1>1. Init => Delivery!Init
  BY DEF Init, Delivery!Init, FateOf
<1>2. ASSUME IInv, IInv', [Next]_vars
      PROVE  [Delivery!Next]_<<fate, taken>>
  <2> USE <1>2 DEF IInv
  <2>a. ASSUME UNCHANGED copies,
               \A e \in Event : \/ row'[e].status = row[e].status
                                \/ /\ row[e].status # "none"
                                   /\ row'[e].status # "none"
        PROVE  Delivery!WriteBack
    <3>1. taken' = taken
      BY <2>a
    <3>2. fate' \in [Event -> Delivery!Fate]
      BY FateCases DEF TypeOK, Row
    <3>3. \A e \in Event :
            \/ fate'[e] = fate[e]
            \/ /\ fate[e] # "unborn"
               /\ fate'[e] # "unborn"
               /\ fate'[e] = "done" => e \in taken
      <4> TAKE e \in Event
      <4>1. row[e].status \in Status /\ row'[e].status \in Status
        BY DEF TypeOK, Row
      <4>2. row'[e].status \in {"PUBLISHED", "pruned"} => e \in taken
        BY <2>a DEF NothingLost
      <4> QED
        BY <2>a, <4>1, <4>2, FateCases
    <3> QED
      BY <3>1, <3>2, <3>3 DEF Delivery!WriteBack
  <2>b. ASSUME NEW e \in Event, row' = row, row[e].status # "none",
               taken' = taken \cup {e}
        PROVE  Delivery!Take(e)
    <3>1. row[e].status \in Status
      BY DEF TypeOK, Row
    <3> QED
      BY <2>b, <3>1, FateCases DEF Delivery!Take
  <2>c. ASSUME NEW r \in Relay, NEW e \in Event, e \in todo[r]
        PROVE  row[e].status # "none"
    BY <2>c DEF RecordedOK, InFlight
  <2>1. CASE \E e \in Event : RecordEvent(e)
    <3>1. PICK e \in Event : RecordEvent(e)
      BY <2>1
    <3>2. FateOf("none") = "unborn" /\ FateOf("PENDING") = "owed"
      BY DEF FateOf
    <3>4. row[e].status = "none" /\ row'[e].status = "PENDING"
      BY <3>1 DEF RecordEvent, TypeOK, Row
    <3>5. \A f \in Event \ {e} : row'[f] = row[f]
      BY <3>1 DEF RecordEvent, TypeOK
    <3>6. fate[e] = "unborn" /\ fate' = [fate EXCEPT ![e] = "owed"]
      BY <3>2, <3>4, <3>5
    <3>3. taken' = taken
      BY <3>1 DEF RecordEvent
    <3> QED
      BY <3>3, <3>6 DEF Delivery!Next, Delivery!Record
  <2>2. CASE \E e \in Event : TimePasses(e)
    <3>1. UNCHANGED copies
      BY <2>2 DEF TimePasses
    <3> QED
      BY <2>2, <2>a, <3>1, TimeRows DEF Delivery!Next
  <2>3. CASE \E r \in Relay : FetchBatch(r)
    <3>1. PICK r \in Relay, fetched \in SUBSET Leasable : Leases(r, fetched)
      BY <2>3, FetchLeases
    <3>2. UNCHANGED copies
      BY <3>1 DEF Leases
    <3>3. \A e \in Event : \/ row'[e].status = row[e].status
                           \/ row[e].status # "none" /\ row'[e].status # "none"
      BY <3>1, LeaseRows
    <3> QED
      BY <2>a, <3>2, <3>3 DEF Delivery!Next
  <2>4. CASE \E r \in Relay, e \in Event :
               PublishConfirmed(r, e) \/ PublishAckLost(r, e)
    <3>1. PICK r \in Relay, e \in Event :
                 PublishConfirmed(r, e) \/ PublishAckLost(r, e)
      BY <2>4
    <3>2. row' = row /\ row[e].status # "none"
      BY <2>c, <3>1 DEF PublishConfirmed, PublishAckLost
    <3>3. copies' = [copies EXCEPT ![e] = OneMore(@)]
      BY <3>1 DEF PublishConfirmed, PublishAckLost
    <3>4. taken' = taken \cup {e}
      BY <3>3 DEF OneMore, TypeOK
    <3> QED
      BY <2>b, <3>2, <3>4 DEF Delivery!Next
  <2>5. CASE \E r \in Relay : PersistStatuses(r)
    <3>1. PICK r \in Relay : PersistStatuses(r)
      BY <2>5
    <3>2. UNCHANGED copies
      BY <3>1 DEF PersistStatuses
    <3>3. ASSUME NEW e \in Event
          PROVE  \/ row'[e].status = row[e].status
                 \/ row[e].status # "none" /\ row'[e].status # "none"
      <4>1. row[e] \in Row
        BY DEF TypeOK
      <4>2. e \in ok[r] \cup failed[r] => row[e].status # "none"
        BY DEF RecordedOK, InFlight
      <4> QED
        BY <3>1, <4>1, <4>2, PersistRows, RowChanges
    <3> QED
      BY <2>a, <3>2, <3>3 DEF Delivery!Next
  <2>6. CASE \E r \in Relay : PruneRetention(r)
    <3>1. PICK r \in Relay : PruneRetention(r)
      BY <2>6
    <3>2. UNCHANGED copies
      BY <3>1 DEF PruneRetention
    <3>3. \A e \in Event : \/ row'[e].status = row[e].status
                           \/ row[e].status # "none" /\ row'[e].status # "none"
      BY <3>1, PruneRows
    <3> QED
      BY <2>a, <3>2, <3>3 DEF Delivery!Next
  <2>7. CASE UNCHANGED <<row, copies>>
    BY <2>7
  <2> QED
    BY <2>1, <2>2, <2>3, <2>4, <2>5, <2>6, <2>7, StepCases
       DEF PublishRefused, LoseCycle, vars
<1> QED
  BY <1>1, <1>2, IInvHolds, PTL DEF Spec, KeepsThePromise, Delivery!Spec

-----------------------------------------------------------------------------
(* The graph synchronisation.                                              *)

(* The shape of the log and of what was made of it ...                     *)
LogType ==
  /\ ledger \subseteq Tx /\ sent \in [Tx -> Nat]
  /\ topic \in Seq(ledger) /\ offset \in 0..Len(topic)
  /\ graph \subseteq ledger /\ marked \subseteq ledger
  /\ dead \subseteq 0..Len(topic) /\ unwritten \subseteq 0..Len(topic)

(* ... of the consumers ...                                                *)
ConsumerType ==
  /\ owner \in Syncer \cup {Nobody} /\ routed \subseteq Syncer
  /\ mode \in [Syncer -> {"starting", "stream", "poll", "ended"}] /\ syncFaults \in Nat
  /\ fetch \in [Syncer -> Nat] /\ tries \in [Syncer -> 0..MaxAttempts]
  /\ batch \in [Syncer -> Nat \X Nat]
  /\ \A w \in Syncer : batch[w][2] <= Len(topic)
  /\ \A w \in routed : InHand(w)

(* ... and of the polls.                                                   *)
PollType == rows \in [Syncer -> Seq(ledger)] /\ written \in [Syncer -> SUBSET ledger]

SyncTyping == LogType /\ ConsumerType /\ PollType

(* The offsets whose message is dealt with.                                *)
Done == {o \in 0..Len(topic) - 1 : topic[o + 1] \in graph \/ o \in dead \cup unwritten}

(* Everything before the committed offset and before the message in hand   *)
(* is dealt with; a worker that is done with its message has dealt with    *)
(* it; what the owner of the partition has fetched is dealt with or in its *)
(* hand; the rows a poll has written are in the graph.                     *)
Progress ==
  /\ 0..offset - 1 \subseteq Done
  /\ \A w \in Syncer :
       /\ batch[w][1] <= batch[w][2] /\ batch[w][2] <= Len(topic)
       /\ 0..batch[w][1] - 1 \subseteq Done
       /\ w \in routed => InHand(w) /\ batch[w][1] \in Done
       /\ owner = w =>
            /\ fetch[w] <= Len(topic)
            /\ \A o \in 0..fetch[w] - 1 : o \in Done \/ o \in batch[w][1]..batch[w][2] - 1
       /\ written[w] \subseteq graph
  /\ marked \subseteq graph

(* A sequence with its elements, and one element more.                     *)
LEMMA Extended ==
  ASSUME NEW S, NEW T, S \subseteq T, NEW q \in Seq(S)
  PROVE  /\ q \in Seq(T) /\ Len(q) \in Nat /\ DOMAIN q = 1..Len(q)
         /\ \A i \in 1..Len(q) : q[i] \in S
         /\ q # <<>> => Head(q) \in S /\ Tail(q) \in Seq(S)
         /\ \A x \in T : /\ Append(q, x) \in Seq(T) /\ Len(Append(q, x)) = Len(q) + 1
                         /\ Append(q, x)[Len(q) + 1] = x
                         /\ \A i \in 1..Len(q) : Append(q, x)[i] = q[i]
<1>1. Len(q) \in Nat /\ DOMAIN q = 1..Len(q) /\ \A i \in 1..Len(q) : q[i] \in S
  OBVIOUS
<1>2. q \in Seq(T)
  BY <1>1
<1>3. q # <<>> => Head(q) \in S /\ Tail(q) \in Seq(S)
  OBVIOUS
<1>4. ASSUME NEW x \in T
      PROVE  /\ Append(q, x) \in Seq(T) /\ Len(Append(q, x)) = Len(q) + 1
             /\ Append(q, x)[Len(q) + 1] = x
             /\ \A i \in 1..Len(q) : Append(q, x)[i] = q[i]
  BY <1>2
<1> QED
  BY <1>1, <1>2, <1>3, <1>4

(* The workers keep the shape of their state.                              *)
LEMMA SyncTyped == SyncSpec => []SyncTyping
<1> USE SyncAssumption
<1>1. SyncInit => SyncTyping
  BY DEF SyncInit, SyncTyping, LogType, ConsumerType, InHand, PollType, Empty
<1>2. SyncTyping /\ [SyncNext]_syncVars => SyncTyping'
  <2> SUFFICES ASSUME SyncTyping, [SyncNext]_syncVars PROVE SyncTyping'
    OBVIOUS
  <2>t. /\ Len(topic) \in Nat /\ DOMAIN topic = 1..Len(topic)
        /\ \A i \in 1..Len(topic) : topic[i] \in ledger
    BY Extended DEF SyncTyping, LogType
  <2>b. \A w \in Syncer : /\ batch[w] = <<batch[w][1], batch[w][2]>>
                          /\ batch[w][1] \in Nat /\ batch[w][2] \in Nat
    BY DEF SyncTyping, ConsumerType, InHand
  <2>f. Fault => syncFaults' \in Nat
    BY DEF Fault, SyncTyping, ConsumerType, InHand
  <2>g. ASSUME NEW t \in ledger, NEW fine \in BOOLEAN, WriteEdge(t, fine)
        PROVE  graph' \subseteq ledger /\ syncFaults' \in Nat
    <3>1. graph' \subseteq ledger
      BY <2>g DEF WriteEdge, SyncTyping, LogType
    <3>2. syncFaults' = syncFaults \/ Fault
      BY <2>g DEF WriteEdge
    <3> QED
      BY <3>1, <3>2, <2>f DEF SyncTyping, ConsumerType, InHand
  <2>h. ASSUME NEW w \in Syncer, InHand(w)
        PROVE  topic[batch[w][1] + 1] \in ledger /\ batch[w][1] \in 0..Len(topic)
    <3>1. batch[w][2] <= Len(topic) /\ batch[w][1] < batch[w][2]
      BY <2>h DEF InHand, SyncTyping, ConsumerType
    <3>2. batch[w][1] + 1 \in 1..Len(topic)
      BY <3>1, <2>t, <2>b
    <3> QED
      BY <3>2, <2>t, <2>b
  <2>l. ASSUME UNCHANGED <<ledger, sent, topic, offset, graph, marked, dead, unwritten>>
        PROVE  LogType'
    BY <2>l DEF SyncTyping, LogType
  <2>c. ASSUME UNCHANGED <<owner, routed, mode, syncFaults, fetch, tries, batch, topic>>
        PROVE  ConsumerType'
    BY <2>c DEF SyncTyping, ConsumerType, InHand
  <2>p. ASSUME UNCHANGED <<rows, written, ledger>> PROVE PollType'
    BY <2>p DEF SyncTyping, PollType
  <2> USE DEF logVars, streamVars, pollVars
  <2>1. ASSUME NEW t \in Tx, Ledger(t) PROVE SyncTyping'
    <3>1. ledger' \subseteq Tx /\ ledger \subseteq ledger'
      BY <2>1 DEF Ledger, SyncTyping, LogType
    <3>2. topic \in Seq(ledger') /\ \A w \in Syncer : rows[w] \in Seq(ledger')
      BY <3>1, Extended DEF SyncTyping, LogType, PollType
    <3>3. PollType'
      BY <2>1, <3>1, <3>2 DEF Ledger, SyncTyping, PollType
    <3>4. LogType'
      BY <2>1, <3>1, <3>2 DEF Ledger, SyncTyping, LogType
    <3> QED
      BY <2>1, <3>3, <3>4, <2>c DEF Ledger, SyncTyping
  <2>2. ASSUME NEW t \in Tx, Send(t) PROVE SyncTyping'
    <3>1. t \in ledger /\ topic' = Append(topic, t)
      BY <2>2 DEF Send
    <3>2. topic' \in Seq(ledger) /\ Len(topic') = Len(topic) + 1
      BY <3>1, Extended DEF SyncTyping, LogType
    <3>3. LogType'
      BY <2>2, <2>t, <3>2 DEF Send, SyncTyping, LogType
    <3>4. ConsumerType'
      <4>1. UNCHANGED <<owner, routed, mode, syncFaults, fetch, tries, batch>>
        BY <2>2 DEF Send
      <4>2. \A w \in Syncer : batch[w][2] <= Len(topic')
        BY <2>t, <2>b, <3>2 DEF SyncTyping, ConsumerType
      <4> QED
        BY <4>1, <4>2 DEF SyncTyping, ConsumerType, InHand
    <3> QED
      BY <2>2, <3>3, <3>4, <2>p DEF Send, SyncTyping
  <2>3. ASSUME NEW w \in Syncer, Probe(w) PROVE SyncTyping'
    <3>1. syncFaults' \in Nat
      BY <2>3, <2>f DEF Probe, SyncTyping, ConsumerType, InHand
    <3>2. ConsumerType'
      BY <2>3, <3>1 DEF Probe, SyncTyping, ConsumerType, InHand
    <3> QED
      BY <2>3, <3>2, <2>l, <2>p DEF Probe, SyncTyping
  <2>4. ASSUME NEW w \in Syncer, Assign(w) PROVE SyncTyping'
    <3>1. syncFaults' \in Nat
      BY <2>4, <2>f DEF Assign, SyncTyping, ConsumerType, InHand
    <3>2. fetch' \in [Syncer -> Nat]
      BY <2>4, <2>t DEF Assign, ResumeAt, SyncTyping, ConsumerType, InHand, LogType
    <3>3. ConsumerType'
      BY <2>4, <3>1, <3>2 DEF Assign, SyncTyping, ConsumerType, InHand
    <3> QED
      BY <2>4, <3>3, <2>l, <2>p DEF Assign, SyncTyping
  <2>5. ASSUME NEW w \in Syncer, Fetch(w) PROVE SyncTyping'
    <3>1. PICK end \in fetch[w] + 1 .. Len(topic) :
            /\ batch' = [batch EXCEPT ![w] = <<fetch[w], end>>]
            /\ fetch' = [fetch EXCEPT ![w] = end]
      BY <2>5 DEF Fetch
    <3>2. fetch[w] \in Nat /\ end \in Nat /\ fetch[w] < end /\ end <= Len(topic)
      BY <3>1, <2>t DEF SyncTyping, ConsumerType, InHand
    <3>3. /\ batch' \in [Syncer -> Nat \X Nat] /\ fetch' \in [Syncer -> Nat]
          /\ \A v \in Syncer : batch'[v][2] <= Len(topic)
          /\ \A v \in routed : batch'[v][1] < batch'[v][2]
      BY <3>1, <3>2 DEF SyncTyping, ConsumerType, InHand
    <3>4. ConsumerType'
      BY <2>5, <3>3 DEF Fetch, SyncTyping, ConsumerType, InHand
    <3> QED
      BY <2>5, <3>4, <2>l, <2>p DEF Fetch, SyncTyping
  <2>6. ASSUME NEW w \in Syncer, Attempt(w) PROVE SyncTyping'
    <3>1. topic[batch[w][1] + 1] \in ledger
      BY <2>6, <2>h DEF Attempt
    <3>2. PICK fine \in BOOLEAN :
            /\ WriteEdge(topic[batch[w][1] + 1], fine)
            /\ IF fine THEN routed' = routed \cup {w} /\ UNCHANGED tries
               ELSE tries' = [tries EXCEPT ![w] = @ + 1] /\ UNCHANGED routed
      BY <2>6 DEF Attempt
    <3>3. graph' \subseteq ledger /\ syncFaults' \in Nat
      BY <3>1, <3>2, <2>g
    <3>4. \/ routed' = routed \cup {w} /\ UNCHANGED tries
          \/ tries' = [tries EXCEPT ![w] = @ + 1] /\ UNCHANGED routed
      BY <3>2, Zenon
    <3>a. /\ tries[w] \in 0..MaxAttempts /\ tries[w] < MaxAttempts /\ InHand(w)
          /\ tries \in [Syncer -> 0..MaxAttempts] /\ routed \subseteq Syncer
      BY <2>6 DEF Attempt, SyncTyping, ConsumerType, InHand
    <3>b. [tries EXCEPT ![w] = @ + 1] \in [Syncer -> 0..MaxAttempts]
      BY <3>a
    <3>5. /\ routed' \subseteq Syncer /\ tries' \in [Syncer -> 0..MaxAttempts]
          /\ \A v \in routed' : v \in routed \/ InHand(v)
      BY <3>4, <3>a, <3>b
    <3>6. ConsumerType'
      BY <2>6, <3>3, <3>5 DEF Attempt, SyncTyping, ConsumerType, InHand
    <3>7. LogType'
      BY <2>6, <3>3 DEF Attempt, SyncTyping, LogType
    <3> QED
      BY <2>6, <3>6, <3>7, <2>p DEF Attempt, SyncTyping
  <2>7. ASSUME NEW w \in Syncer, DeadLetter(w) PROVE SyncTyping'
    <3>1. /\ dead' \subseteq 0..Len(topic) /\ unwritten' \subseteq 0..Len(topic)
          /\ syncFaults' \in Nat
      BY <2>7, <2>h, <2>f DEF DeadLetter, SyncTyping, LogType, ConsumerType, InHand
    <3>2. ConsumerType'
      BY <2>7, <3>1 DEF DeadLetter, SyncTyping, ConsumerType, InHand
    <3>3. LogType'
      BY <2>7, <3>1 DEF DeadLetter, SyncTyping, LogType
    <3> QED
      BY <2>7, <3>2, <3>3, <2>p DEF DeadLetter, SyncTyping
  <2>r. ASSUME NEW w \in Syncer, NEW m \in {"stream", "ended"}, Restart(w, m),
               syncFaults' \in Nat
        PROVE  SyncTyping'
    <3>1. ConsumerType'
      <4>1. /\ owner' \in Syncer \cup {Nobody} /\ routed' \subseteq Syncer
            /\ mode' \in [Syncer -> {"starting", "stream", "poll", "ended"}]
            /\ fetch' \in [Syncer -> Nat] /\ tries' \in [Syncer -> 0..MaxAttempts]
        BY <2>r DEF Restart, SyncTyping, ConsumerType
      <4>2. batch' = [batch EXCEPT ![w] = <<0, 0>>] /\ batch \in [Syncer -> Nat \X Nat]
        BY <2>r DEF Restart, Empty, SyncTyping, ConsumerType
      <4>3. batch' \in [Syncer -> Nat \X Nat] /\ \A v \in Syncer : batch'[v][2] <= Len(topic)
        BY <2>t, <4>2 DEF SyncTyping, ConsumerType
      <4>4. topic' = topic /\ routed' = routed \ {w}
        BY <2>r DEF Restart
      <4>5. \A v \in routed' : batch'[v] = batch[v] /\ InHand(v)
        BY <4>2, <4>4 DEF SyncTyping, ConsumerType
      <4> QED
        BY <2>r, <4>1, <4>3, <4>4, <4>5 DEF ConsumerType, InHand
    <3>2. PollType'
      BY <2>r DEF Restart, SyncTyping, PollType
    <3> QED
      BY <2>r, <3>1, <3>2, <2>l DEF Restart, SyncTyping
  <2>8. ASSUME NEW w \in Syncer, CommitOffset(w) PROVE SyncTyping'
    <3>a. batch[w][1] < batch[w][2] /\ batch[w][2] <= Len(topic)
      BY <2>8 DEF CommitOffset, SyncTyping, ConsumerType, InHand
    <3>1. offset' \in 0..Len(topic)
      BY <2>8, <2>t, <2>b, <3>a DEF CommitOffset, Settled
    <3>2. LogType'
      BY <2>8, <3>1 DEF CommitOffset, SyncTyping, LogType
    <3>3. ConsumerType'
      <4>1. /\ owner' = owner /\ mode' = mode /\ fetch' = fetch /\ syncFaults' = syncFaults
            /\ topic' = topic /\ routed' = routed \ {w} /\ tries' = [tries EXCEPT ![w] = 0]
            /\ batch' = [batch EXCEPT ![w] = <<batch[w][1] + 1, batch[w][2]>>]
        BY <2>8 DEF CommitOffset
      <4>2. /\ batch' \in [Syncer -> Nat \X Nat]
            /\ \A v \in Syncer : batch'[v][2] = batch[v][2]
            /\ \A v \in Syncer : v # w => batch'[v] = batch[v]
        BY <2>b, <4>1 DEF SyncTyping, ConsumerType
      <4>3. tries' \in [Syncer -> 0..MaxAttempts]
        BY <4>1 DEF SyncTyping, ConsumerType
      <4> QED
        BY <4>1, <4>2, <4>3 DEF SyncTyping, ConsumerType, InHand
    <3> QED
      BY <2>8, <3>2, <3>3, <2>p DEF CommitOffset, SyncTyping
  <2>9. ASSUME NEW w \in Syncer, CommitRefused(w) PROVE SyncTyping'
    <3>1. syncFaults' \in Nat
      BY <2>9, <2>f DEF CommitRefused, SyncTyping, ConsumerType, InHand
    <3> QED
      BY <2>9, <3>1, <2>r DEF CommitRefused
  <2>10. ASSUME NEW w \in Syncer, PollRead(w) PROVE SyncTyping'
    <3>1. PICK r \in UNION {[1..n -> Unsynced] : n \in 1..PollLimit} :
            rows' = [rows EXCEPT ![w] = r]
      BY <2>10 DEF PollRead
    <3>2. PICK n \in 1..PollLimit : r \in [1..n -> Unsynced]
      BY <3>1
    <3>3. r \in Seq(ledger)
      <4>1. n \in Nat /\ Unsynced \subseteq ledger
        BY DEF Unsynced
      <4> QED
        BY <3>2, <4>1
    <3>4. PollType'
      BY <2>10, <3>1, <3>3 DEF PollRead, SyncTyping, PollType
    <3> QED
      BY <2>10, <3>4, <2>l, <2>c DEF PollRead, SyncTyping
  <2>11. ASSUME NEW w \in Syncer, PollWrite(w) PROVE SyncTyping'
    <3>1. Head(rows[w]) \in ledger /\ Tail(rows[w]) \in Seq(ledger)
      BY <2>11, Extended DEF PollWrite, SyncTyping, PollType
    <3>2. PICK fine \in BOOLEAN :
            /\ WriteEdge(Head(rows[w]), fine)
            /\ written' = [written EXCEPT ![w] = Delivered(w, fine)]
      BY <2>11 DEF PollWrite
    <3>3. graph' \subseteq ledger /\ syncFaults' \in Nat
      BY <3>1, <3>2, <2>g
    <3>4. Delivered(w, fine) \subseteq ledger
      BY <3>1 DEF Delivered, SyncTyping, PollType
    <3>5. PollType'
      BY <2>11, <3>1, <3>2, <3>4 DEF PollWrite, SyncTyping, PollType
    <3>6. LogType'
      BY <2>11, <3>3 DEF PollWrite, SyncTyping, LogType
    <3>7. ConsumerType'
      BY <2>11, <3>3 DEF PollWrite, SyncTyping, ConsumerType, InHand
    <3> QED
      BY <3>5, <3>6, <3>7 DEF SyncTyping
  <2>12. ASSUME NEW w \in Syncer, PollMark(w) PROVE SyncTyping'
    <3>1. syncFaults' \in Nat /\ marked' \subseteq ledger
      BY <2>12, <2>f DEF PollMark, SyncTyping, ConsumerType, InHand, PollType, LogType
    <3>2. PollType'
      BY <2>12 DEF PollMark, SyncTyping, PollType
    <3>3. LogType'
      BY <2>12, <3>1 DEF PollMark, SyncTyping, LogType
    <3>4. ConsumerType'
      BY <2>12, <3>1 DEF PollMark, SyncTyping, ConsumerType, InHand
    <3> QED
      BY <3>2, <3>3, <3>4 DEF SyncTyping
  <2>13. ASSUME NEW w \in Syncer, Die(w) PROVE SyncTyping'
    BY <2>13, <2>r, <2>f DEF Die
  <2>14. ASSUME NEW w \in Syncer, Revive(w) PROVE SyncTyping'
    <3>1. ConsumerType'
      BY <2>14 DEF Revive, SyncTyping, ConsumerType, InHand
    <3> QED
      BY <2>14, <3>1, <2>l, <2>p DEF Revive, SyncTyping
  <2>15. CASE UNCHANGED syncVars
    BY <2>15, <2>l, <2>c, <2>p DEF syncVars, SyncTyping
  <2> QED
    BY <2>1, <2>2, <2>3, <2>4, <2>5, <2>6, <2>7, <2>8, <2>9, <2>10, <2>11, <2>12,
       <2>13, <2>14, <2>15 DEF SyncNext, Consume, Poll
<1> QED
  BY <1>1, <1>2, PTL DEF SyncSpec

(* What is dealt with stays so, as long as the log only grows.             *)
LEMMA DoneStays ==
  ASSUME SyncTyping, SyncTyping', Len(topic) <= Len(topic'),
         \A i \in 1..Len(topic) : topic'[i] = topic[i],
         graph \subseteq graph', dead \subseteq dead', unwritten \subseteq unwritten'
  PROVE  Done \subseteq Done'
<1>1. Len(topic) \in Nat /\ Len(topic') \in Nat
  BY Extended DEF SyncTyping, LogType
<1>2. ASSUME NEW o \in Done PROVE o \in Done'
  <2>1. /\ o \in 0..Len(topic) - 1 /\ o + 1 \in 1..Len(topic) /\ o \in 0..Len(topic') - 1
        /\ topic[o + 1] \in graph \/ o \in dead \cup unwritten
    BY <1>1, <1>2 DEF Done
  <2>2. topic'[o + 1] \in graph' \/ o \in dead' \cup unwritten'
    BY <2>1
  <2> QED
    BY <2>1, <2>2 DEF Done
<1> QED
  BY <1>2

(* One step of the workers keeps the account of what is dealt with.        *)
LEMMA ProgressStep ==
  ASSUME SyncTyping, SyncTyping', Progress, [SyncNext]_syncVars PROVE Progress'
<1> USE SyncAssumption
<1>n. /\ Len(topic) \in Nat /\ Len(topic') \in Nat /\ offset \in Nat
      /\ \A w \in Syncer : /\ batch[w] = <<batch[w][1], batch[w][2]>>
                           /\ batch[w][1] \in Nat /\ batch[w][2] \in Nat /\ fetch[w] \in Nat
                           /\ batch[w][2] <= Len(topic)
  <2>1. Len(topic) \in Nat /\ Len(topic') \in Nat
    BY Extended DEF SyncTyping, LogType
  <2>2. batch \in [Syncer -> Nat \X Nat] /\ fetch \in [Syncer -> Nat]
    BY DEF SyncTyping, ConsumerType
  <2>3. \A w \in Syncer : /\ batch[w] = <<batch[w][1], batch[w][2]>>
                          /\ batch[w][1] \in Nat /\ batch[w][2] \in Nat /\ fetch[w] \in Nat
    BY <2>2
  <2>4. offset \in Nat /\ \A w \in Syncer : batch[w][2] <= Len(topic)
    BY <2>1 DEF SyncTyping, LogType, ConsumerType
  <2> QED
    BY <2>1, <2>3, <2>4
<1> DEFINE Mine(w, f, b) ==
      f <= Len(topic) /\ \A o \in 0..f - 1 : o \in Done \/ o \in b[1]..b[2] - 1
(* What has to be shown when the log is not shortened: the consumers ...   *)
<1>c. ASSUME Done \subseteq Done', Len(topic) <= Len(topic'),
             UNCHANGED <<owner, offset, fetch, batch, routed>>,
             graph \subseteq graph', UNCHANGED <<written, marked>>
      PROVE  Progress'
  <2>1. /\ 0..offset - 1 \subseteq Done' /\ marked' \subseteq graph'
        /\ \A w \in Syncer :
             /\ batch[w][1] <= batch[w][2] /\ 0..batch[w][1] - 1 \subseteq Done'
             /\ w \in routed => InHand(w) /\ batch[w][1] \in Done'
             /\ written'[w] \subseteq graph'
    BY <1>c DEF Progress
  <2>2. \A w \in Syncer : batch[w][2] <= Len(topic')
    BY <1>c, <1>n
  <2>3. \A w \in Syncer : owner = w =>
          /\ fetch[w] <= Len(topic')
          /\ \A o \in 0..fetch[w] - 1 : o \in Done' \/ o \in batch[w][1]..batch[w][2] - 1
    <3>1. \A w \in Syncer : owner = w =>
            /\ fetch[w] <= Len(topic)
            /\ \A o \in 0..fetch[w] - 1 : o \in Done \/ o \in batch[w][1]..batch[w][2] - 1
      BY DEF Progress
    <3> QED
      BY <1>c, <1>n, <3>1
  <2> QED
    BY <1>c, <2>1, <2>2, <2>3 DEF Progress, InHand
<1>l. ASSUME UNCHANGED <<topic, dead, unwritten>>, graph \subseteq graph'
      PROVE  Done \subseteq Done'
  BY <1>l, DoneStays
<1>e. ASSUME NEW t, NEW fine, WriteEdge(t, fine) PROVE graph \subseteq graph' /\ (fine => t \in graph')
  BY <1>e DEF WriteEdge
<1> USE DEF logVars, streamVars, pollVars
<1>1. ASSUME NEW t \in Tx, Ledger(t) PROVE Progress'
  BY <1>1, <1>l, <1>c DEF Ledger
<1>2. ASSUME NEW t \in Tx, Send(t) PROVE Progress'
  <2>1. t \in ledger /\ topic' = Append(topic, t)
    BY <1>2 DEF Send
  <2>2. Len(topic') = Len(topic) + 1 /\ \A i \in 1..Len(topic) : topic'[i] = topic[i]
    BY <2>1, Extended DEF SyncTyping, LogType
  <2>3. Done \subseteq Done'
    BY <1>2, <2>2, <1>n, DoneStays DEF Send
  <2> QED
    BY <1>2, <2>2, <2>3, <1>n, <1>c DEF Send
<1>3. ASSUME NEW w \in Syncer, Probe(w) PROVE Progress'
  BY <1>3, <1>l, <1>c DEF Probe
<1>4. ASSUME NEW w \in Syncer, Assign(w) PROVE Progress'
  <2>1. /\ owner' = w /\ fetch' = [fetch EXCEPT ![w] = offset] /\ fetch'[w] = offset
        /\ UNCHANGED <<offset, batch, routed, written, marked, graph, topic, dead, unwritten>>
        /\ \A v \in Syncer : v # w => fetch'[v] = fetch[v]
    BY <1>4 DEF Assign, ResumeAt, SyncTyping, ConsumerType
  <2>2. Done \subseteq Done'
    BY <2>1, <1>l
  <2>3. offset <= Len(topic) /\ 0..offset - 1 \subseteq Done
    BY DEF Progress, SyncTyping, LogType
  <2> QED
    BY <2>1, <2>2, <2>3, <1>n DEF Progress, InHand
<1>5. ASSUME NEW w \in Syncer, Fetch(w) PROVE Progress'
  <2>1. PICK end \in fetch[w] + 1 .. Len(topic) :
          /\ batch' = [batch EXCEPT ![w] = <<fetch[w], end>>]
          /\ fetch' = [fetch EXCEPT ![w] = end]
    BY <1>5 DEF Fetch
  <2>2. /\ end \in Nat /\ fetch[w] < end /\ end <= Len(topic) /\ owner = w /\ ~InHand(w)
        /\ batch'[w][1] = fetch[w] /\ batch'[w][2] = end /\ fetch'[w] = end
        /\ \A v \in Syncer : v # w => batch'[v] = batch[v] /\ fetch'[v] = fetch[v]
        /\ UNCHANGED <<offset, owner, routed, written, marked, graph, topic, dead, unwritten>>
    BY <1>5, <2>1, <1>n DEF Fetch, SyncTyping, ConsumerType
  <2>3. Done \subseteq Done'
    BY <2>2, <1>l
  <2>4. 0..fetch[w] - 1 \subseteq Done /\ w \notin routed
    BY <2>2, <1>n DEF Progress, InHand
  <2>5. \A v \in Syncer : owner = v => v = w
    BY <2>2
  <2>6. \A v \in Syncer : batch'[v][1] <= batch'[v][2] /\ batch'[v][2] <= Len(topic')
    BY <2>2, <1>n DEF Progress
  <2>7. \A v \in Syncer : 0..batch'[v][1] - 1 \subseteq Done
    BY <2>2, <2>4 DEF Progress
  <2>8. \A v \in routed : /\ v \in Syncer /\ batch'[v][1] < batch'[v][2]
                         /\ batch'[v][1] \in Done
    BY <2>2, <2>4 DEF Progress, InHand, SyncTyping, ConsumerType
  <2>9. fetch'[w] <= Len(topic')
        /\ \A o \in 0..fetch'[w] - 1 : o \in Done \/ o \in batch'[w][1]..batch'[w][2] - 1
    <3>1. fetch[w] \in Nat /\ end \in Nat /\ fetch[w] < end /\ 0..fetch[w] - 1 \subseteq Done
      BY <2>2, <2>4, <1>n
    <3>2. \A o \in 0..end - 1 : o \in Done \/ o \in fetch[w]..end - 1
      BY <3>1
    <3>3. end <= Len(topic')
      BY <2>2
    <3> QED
      BY <2>2, <3>2, <3>3
  <2>10. 0..offset' - 1 \subseteq Done /\ marked' \subseteq graph'
         /\ \A v \in Syncer : written'[v] \subseteq graph'
    BY <2>2 DEF Progress
  <2> QED
    BY <2>2, <2>3, <2>5, <2>6, <2>7, <2>8, <2>9, <2>10 DEF Progress, InHand
<1>s. ASSUME NEW w \in Syncer, UNCHANGED <<owner, offset, fetch, batch, topic, written, marked>>,
             routed' \subseteq routed \cup {w}, InHand(w), graph \subseteq graph',
             dead \subseteq dead', unwritten \subseteq unwritten',
             w \in routed' => \/ topic[batch[w][1] + 1] \in graph'
                              \/ batch[w][1] \in dead' \cup unwritten'
      PROVE  Progress'
  <2>1. Done \subseteq Done'
    BY <1>s, <1>n, DoneStays
  <2>2. batch[w][1] \in 0..Len(topic) - 1
    BY <1>s, <1>n DEF InHand
  <2>3. w \in routed' => batch[w][1] \in Done'
    BY <1>s, <2>2 DEF Done
  <2> QED
    BY <1>s, <2>1, <2>3, <1>n DEF Progress, InHand
<1>6. ASSUME NEW w \in Syncer, Attempt(w) PROVE Progress'
  <2>1. PICK fine \in BOOLEAN :
          /\ WriteEdge(topic[batch[w][1] + 1], fine)
          /\ IF fine THEN routed' = routed \cup {w} /\ UNCHANGED tries
             ELSE tries' = [tries EXCEPT ![w] = @ + 1] /\ UNCHANGED routed
    BY <1>6 DEF Attempt
  <2>2. graph \subseteq graph' /\ (fine => topic[batch[w][1] + 1] \in graph')
    BY <2>1, <1>e
  <2>3. w \notin routed /\ InHand(w)
    BY <1>6 DEF Attempt
  <2>4. routed' \subseteq routed \cup {w} /\ (w \in routed' => topic[batch[w][1] + 1] \in graph')
    BY <2>1, <2>2, <2>3, Zenon
  <2> QED
    BY <1>6, <2>2, <2>3, <2>4, <1>s DEF Attempt
<1>7. ASSUME NEW w \in Syncer, DeadLetter(w) PROVE Progress'
  BY <1>7, <1>s DEF DeadLetter
<1>r. ASSUME NEW w \in Syncer, NEW m, Restart(w, m) PROVE Progress'
  <2>1. /\ UNCHANGED <<offset, fetch, marked, graph, topic, dead, unwritten>>
        /\ batch'[w] = <<0, 0>> /\ written'[w] = {} /\ routed' = routed \ {w}
        /\ \A v \in Syncer : v # w => batch'[v] = batch[v] /\ written'[v] = written[v]
        /\ owner' = IF owner = w THEN Nobody ELSE owner
    BY <1>r DEF Restart, Empty, SyncTyping, ConsumerType, PollType
  <2>2. Done \subseteq Done'
    BY <2>1, <1>l
  <2>3. owner' # w /\ \A v \in Syncer : owner' = v => owner = v
    BY <2>1
  <2> QED
    BY <2>1, <2>2, <2>3, <1>n DEF Progress, InHand
<1>8. ASSUME NEW w \in Syncer, CommitOffset(w) PROVE Progress'
  <2>1. /\ w \in routed /\ owner = w /\ offset' = batch[w][1] + 1
        /\ batch'[w][1] = batch[w][1] + 1 /\ batch'[w][2] = batch[w][2]
        /\ routed' = routed \ {w}
        /\ \A v \in Syncer : v # w => batch'[v] = batch[v]
        /\ UNCHANGED <<owner, fetch, written, marked, graph, topic, dead, unwritten>>
    BY <1>8 DEF CommitOffset, Settled, SyncTyping, ConsumerType
  <2>2. Done \subseteq Done'
    BY <2>1, <1>l
  <2>3. batch[w][1] < batch[w][2] /\ 0..batch[w][1] - 1 \subseteq Done /\ batch[w][1] \in Done
    BY <2>1 DEF Progress, InHand
  <2>4. 0..batch[w][1] \subseteq Done
    BY <2>3, <1>n
  <2>5. \A v \in Syncer : owner = v => v = w
    BY <2>1
  <2>6. \A v \in Syncer : batch'[v][1] <= batch'[v][2] /\ batch'[v][2] <= Len(topic')
    <3>1. \A v \in Syncer : batch[v][1] <= batch[v][2] /\ batch[v][2] <= Len(topic)
      BY DEF Progress
    <3> QED
      BY <2>1, <2>3, <3>1, <1>n
  <2>7. \A v \in Syncer : 0..batch'[v][1] - 1 \subseteq Done
    BY <2>1, <2>4, <1>n DEF Progress
  <2>8. \A v \in routed' : /\ v \in Syncer /\ batch'[v][1] < batch'[v][2]
                          /\ batch'[v][1] \in Done
    BY <2>1 DEF Progress, InHand, SyncTyping, ConsumerType
  <2>9. fetch'[w] <= Len(topic')
        /\ \A o \in 0..fetch'[w] - 1 : o \in Done \/ o \in batch'[w][1]..batch'[w][2] - 1
    <3>1. fetch[w] <= Len(topic) /\ \A o \in 0..fetch[w] - 1 :
                                     o \in Done \/ o \in batch[w][1]..batch[w][2] - 1
      BY <2>1 DEF Progress
    <3>2. \A o \in batch[w][1]..batch[w][2] - 1 :
            o = batch[w][1] \/ o \in batch[w][1] + 1..batch[w][2] - 1
      BY <1>n
    <3> QED
      BY <2>1, <2>3, <3>1, <3>2
  <2>10. 0..offset' - 1 \subseteq Done /\ marked' \subseteq graph'
         /\ \A v \in Syncer : written'[v] \subseteq graph'
    BY <2>1, <2>4, <1>n DEF Progress
  <2> QED
    BY <2>1, <2>2, <2>5, <2>6, <2>7, <2>8, <2>9, <2>10 DEF Progress, InHand
<1>9. ASSUME NEW w \in Syncer, CommitRefused(w) PROVE Progress'
  BY <1>9, <1>r DEF CommitRefused
<1>10. ASSUME NEW w \in Syncer, PollRead(w) PROVE Progress'
  BY <1>10, <1>l, <1>c DEF PollRead
<1>p. ASSUME NEW w \in Syncer, UNCHANGED <<owner, offset, fetch, batch, routed, topic, dead, unwritten>>,
             graph \subseteq graph', marked' \subseteq graph',
             \A v \in Syncer : written'[v] \subseteq graph'
      PROVE  Progress'
  <2>1. Done \subseteq Done'
    BY <1>p, <1>l
  <2> QED
    BY <1>p, <2>1, <1>n DEF Progress, InHand
<1>11. ASSUME NEW w \in Syncer, PollWrite(w) PROVE Progress'
  <2>1. PICK fine \in BOOLEAN :
          /\ WriteEdge(Head(rows[w]), fine)
          /\ written' = [written EXCEPT ![w] = Delivered(w, fine)]
    BY <1>11 DEF PollWrite
  <2>2. graph \subseteq graph' /\ (fine => Head(rows[w]) \in graph')
    BY <2>1, <1>e
  <2>3. written[w] \subseteq graph /\ marked \subseteq graph
        /\ \A v \in Syncer : written[v] \subseteq graph
    BY DEF Progress
  <2>4. Delivered(w, fine) \subseteq graph'
    BY <2>2, <2>3 DEF Delivered
  <2>5. \A v \in Syncer : written'[v] \subseteq graph'
    BY <2>1, <2>2, <2>3, <2>4 DEF SyncTyping, PollType
  <2> QED
    BY <1>11, <2>2, <2>3, <2>5, <1>p DEF PollWrite
<1>12. ASSUME NEW w \in Syncer, PollMark(w) PROVE Progress'
  <2>1. written[w] \subseteq graph /\ marked \subseteq graph
        /\ \A v \in Syncer : written[v] \subseteq graph
    BY DEF Progress
  <2>2. marked' \subseteq graph' /\ \A v \in Syncer : written'[v] \subseteq graph'
    BY <1>12, <2>1 DEF PollMark, SyncTyping, PollType
  <2> QED
    BY <1>12, <2>2, <1>p DEF PollMark
<1>13. ASSUME NEW w \in Syncer, Die(w) PROVE Progress'
  BY <1>13, <1>r DEF Die
<1>14. ASSUME NEW w \in Syncer, Revive(w) PROVE Progress'
  BY <1>14, <1>l, <1>c DEF Revive
<1>15. CASE UNCHANGED syncVars
  BY <1>15, <1>l, <1>c DEF syncVars
<1> QED
  BY <1>1, <1>2, <1>3, <1>4, <1>5, <1>6, <1>7, <1>8, <1>9, <1>10, <1>11, <1>12,
     <1>13, <1>14, <1>15 DEF SyncNext, Consume, Poll

(* The graph synchronisation keeps the types of its state.                 *)
THEOREM SyncTypes == SyncSpec => []SyncTypeOK
<1>1. SyncTyping => SyncTypeOK
  <2> SUFFICES ASSUME SyncTyping PROVE SyncTypeOK
    OBVIOUS
  <2>1. topic \in Seq(Tx)
    BY Extended DEF SyncTyping, LogType
  <2>2. graph \subseteq ledger /\ marked \subseteq ledger /\ dead \cup unwritten \subseteq 0..Len(topic)
    BY DEF SyncTyping, LogType
  <2> QED
    BY <2>1, <2>2 DEF SyncTyping, LogType, ConsumerType, SyncTypeOK
<1> QED
  BY <1>1, SyncTyped, PTL

(* Neither source forgets a transaction that is not in the graph.          *)
THEOREM NothingForgotten == SyncSpec => []SyncSettled
<1>1. SyncInit => Progress
  BY DEF SyncInit, Progress, Empty, InHand, Done
<1>2. SyncTyping /\ SyncTyping' /\ Progress /\ [SyncNext]_syncVars => Progress'
  BY ProgressStep
<1>3. Progress => SyncSettled
  BY DEF Progress, Done, SyncSettled, CommittedIsSettled, MarkedIsInGraph
<1> QED
  BY <1>1, <1>2, <1>3, SyncTyped, PTL DEF SyncSpec

-----------------------------------------------------------------------------
(* The scoring worker.                                                     *)

(* The shape of the state of the scoring worker; the row of a transaction  *)
(* and the counters apart, nothing of it but the log grows.                *)
ScoreTyping ==
  /\ raw \in Seq(Scored) /\ resent \in [Scored -> Nat] /\ alertRows \in [Scored -> Nat]
  /\ accepted \subseteq Buffered
  /\ position \in 0..Len(raw) /\ vouched \in 0..position
  /\ hand = {} \/ \E o \in 0..position - 1 : hand = {o}
  /\ persisted \cup dropped \subseteq 0..Len(raw)
  /\ txRow \in [Scored -> {"NONE", "PENDING", "HELD", "COMPLETED"}]
  /\ kills \in Nat

(* The messages the iterator has passed and nobody has an answer for.      *)
Missing == (0..position - 1) \ (persisted \cup dropped \cup hand)

(* The scoring workers keep the shape of their state.                      *)
LEMMA ScoreTyped == ScoreSpec => []ScoreTyping
<1>1. ScoreInit => ScoreTyping
  BY DEF ScoreInit, ScoreTyping
<1>2. ScoreTyping /\ [ScoreNext]_scoreVars => ScoreTyping'
  <2> SUFFICES ASSUME ScoreTyping, [ScoreNext]_scoreVars PROVE ScoreTyping'
    OBVIOUS
  <2>n. Len(raw) \in Nat /\ position \in Nat /\ vouched \in Nat
    BY DEF ScoreTyping
  <2> USE DEF feedVars
  <2>1. ASSUME NEW t \in Scored, Accept(t) PROVE ScoreTyping'
    BY <2>1 DEF Accept, ScoreTyping
  <2>2. ASSUME NEW t \in Scored, Feed(t) PROVE ScoreTyping'
    <3>1. raw' \in Seq(Scored) /\ Len(raw') = Len(raw) + 1
      BY <2>2 DEF Feed, ScoreTyping
    <3>2. resent' \in [Scored -> Nat]
      BY <2>2 DEF Feed, ScoreTyping
    <3> QED
      BY <2>2, <3>1, <3>2, <2>n DEF Feed, ScoreTyping
  <2>3. CASE Take
    BY <2>3, <2>n DEF Take, ScoreTyping
  <2>4. CASE AutoCommit
    BY <2>4, <2>n DEF AutoCommit, ScoreTyping
  <2>h. ASSUME NEW o \in hand PROVE o \in 0..Len(raw) - 1 /\ raw[o + 1] \in Scored
    <3>1. o \in 0..Len(raw) - 1
      BY <2>h, <2>n DEF ScoreTyping
    <3>2. o + 1 \in 1..Len(raw)
      BY <3>1, <2>n
    <3> QED
      BY <3>1, <3>2 DEF ScoreTyping
  <2>5. ASSUME NEW o \in hand, Drop(o) PROVE ScoreTyping'
    <3>1. dropped' = dropped \cup {o} /\ hand' = {} /\ o \in 0..Len(raw)
          /\ UNCHANGED <<raw, resent, accepted, position, vouched, txRow, alertRows, persisted, kills>>
      BY <2>5, <2>h, <2>n DEF Drop
    <3> QED
      BY <3>1 DEF ScoreTyping
  <2>6. ASSUME NEW o \in hand, Persist(o) PROVE ScoreTyping'
    <3>1. PICK status \in {"HELD", "COMPLETED"}, alert \in {0, 1} :
            /\ txRow' = [txRow EXCEPT ![raw[o + 1]] = status]
            /\ alertRows' = [alertRows EXCEPT ![raw[o + 1]] = @ + alert]
      BY <2>6 DEF Persist
    <3>2. o \in 0..Len(raw) - 1 /\ raw[o + 1] \in Scored
      BY <2>6, <2>h
    <3>3. txRow' \in [Scored -> {"NONE", "PENDING", "HELD", "COMPLETED"}]
      BY <3>1, <3>2 DEF ScoreTyping
    <3>4. alertRows' \in [Scored -> Nat]
      BY <3>1, <3>2 DEF ScoreTyping
    <3>5. hand' = {} /\ persisted' = persisted \cup {o}
      BY <2>6 DEF Persist
    <3>6. persisted' \subseteq 0..Len(raw)
      <4>1. o \in 0..Len(raw) /\ persisted \subseteq 0..Len(raw)
        BY <3>2, <2>n DEF ScoreTyping
      <4> QED
        BY <3>5, <4>1
    <3> QED
      BY <2>6, <3>3, <3>4, <3>5, <3>6 DEF Persist, ScoreTyping
  <2>7. CASE Kill
    BY <2>7, <2>n DEF Kill, Resumed, ScoreTyping
  <2>8. CASE UNCHANGED scoreVars
    BY <2>8 DEF scoreVars, ScoreTyping
  <2> QED
    BY <2>1, <2>2, <2>3, <2>4, <2>5, <2>6, <2>7, <2>8 DEF ScoreNext, ScoreHand
<1> QED
  BY <1>1, <1>2, PTL DEF ScoreSpec

(* What is missing is finite, and so are its subsets.                      *)
LEMMA MissingFinite == ASSUME ScoreTyping PROVE IsFiniteSet(Missing)
<1>1. 0..position - 1 \subseteq 0..position /\ IsFiniteSet(0..position)
  BY FS_Interval DEF ScoreTyping
<1>2. Missing \subseteq 0..position
  BY <1>1 DEF Missing
<1> QED
  BY <1>1, <1>2, FS_Subset

(* No step but a kill adds to what is missing; a kill adds the message in  *)
(* hand.                                                                   *)
LEMMA MissingStep ==
  ASSUME ScoreTyping, ScoreTyping', [ScoreNext]_scoreVars
  PROVE  \/ Missing' \subseteq Missing /\ UNCHANGED kills
         \/ (\E o \in 0..position : Missing' \subseteq Missing \cup {o}) /\ kills' = kills + 1
<1>n. Len(raw) \in Nat /\ position \in Nat /\ vouched \in Nat /\ vouched <= position
  BY DEF ScoreTyping
<1> USE DEF feedVars
<1>1. ASSUME NEW t \in Scored, Accept(t) \/ Feed(t) PROVE Missing' = Missing /\ UNCHANGED kills
  BY <1>1 DEF Accept, Feed, Missing
<1>3. CASE Take
  BY <1>3, <1>n DEF Take, Missing
<1>4. CASE AutoCommit
  BY <1>4 DEF AutoCommit, Missing
<1>5. ASSUME NEW o \in hand, Drop(o) \/ Persist(o) PROVE Missing' \subseteq Missing /\ UNCHANGED kills
  <2>1. hand = {o} /\ hand' = {} /\ UNCHANGED <<position, kills>>
        /\ persisted' \cup dropped' = persisted \cup dropped \cup {o}
    BY <1>5 DEF Drop, Persist, ScoreTyping
  <2> QED
    BY <2>1 DEF Missing
<1>7. CASE Kill
  <2>1. hand' = {} /\ position' = vouched /\ UNCHANGED <<persisted, dropped>> /\ kills' = kills + 1
    BY <1>7 DEF Kill, Resumed
  <2>2. Missing' \subseteq Missing \cup hand
    BY <2>1, <1>n DEF Missing
  <2>3. \E o \in 0..position : hand \subseteq {o}
    <3>1. CASE hand = {}
      BY <3>1, <1>n
    <3>2. ASSUME NEW o \in 0..position - 1, hand = {o} PROVE \E q \in 0..position : hand \subseteq {q}
      BY <3>2, <1>n
    <3> QED
      BY <3>1, <3>2 DEF ScoreTyping
  <2> QED
    BY <2>1, <2>2, <2>3
<1>8. CASE UNCHANGED scoreVars
  BY <1>8 DEF scoreVars, Missing
<1> QED
  BY <1>1, <1>3, <1>4, <1>5, <1>7, <1>8 DEF ScoreNext, ScoreHand

(* The scoring worker keeps the types of its state.                        *)
THEOREM ScoreTypes == ScoreSpec => []ScoreTypeOK
<1>1. ScoreTyping => ScoreTypeOK
  <2> SUFFICES ASSUME ScoreTyping PROVE ScoreTypeOK
    OBVIOUS
  <2>n. Len(raw) \in Nat /\ position \in Nat /\ vouched \in Nat
    BY DEF ScoreTyping
  <2>1. hand \subseteq 0..position /\ Cardinality(hand) <= 1
    <3>1. CASE hand = {}
      BY <3>1, FS_EmptySet
    <3>2. ASSUME NEW o \in 0..position - 1, hand = {o}
          PROVE  hand \subseteq 0..position /\ Cardinality(hand) <= 1
      <4>1. o \in 0..position
        BY <2>n
      <4>2. Cardinality({o}) = 1
        BY FS_Singleton, Zenon
      <4> QED
        BY <3>2, <4>1, <4>2
    <3> QED
      BY <3>1, <3>2 DEF ScoreTyping
  <2> QED
    BY <2>1, <2>n DEF ScoreTyping, ScoreTypeOK
<1> QED
  BY <1>1, ScoreTyped, PTL

(* One message for each kill.                                             *)
OnePerKill == Cardinality(Missing) <= kills

(* Never more than one message lost for each kill.                         *)
THEOREM LossBounded == ScoreSpec => []AtMostOneLostPerKill
<1>1. ScoreInit => OnePerKill
  <2> SUFFICES ASSUME ScoreInit PROVE Cardinality(Missing) <= kills
    BY DEF OnePerKill
  <2>1. Missing = {}
    BY DEF ScoreInit, Missing
  <2> QED
    BY <2>1, FS_EmptySet DEF ScoreInit
<1>2. ScoreTyping /\ ScoreTyping' /\ OnePerKill /\ [ScoreNext]_scoreVars => OnePerKill'
  <2> SUFFICES ASSUME ScoreTyping, ScoreTyping', Cardinality(Missing) <= kills,
                      [ScoreNext]_scoreVars
               PROVE  Cardinality(Missing') <= kills'
    BY DEF OnePerKill
  <2>n. IsFiniteSet(Missing) /\ Cardinality(Missing) \in Nat /\ kills \in Nat /\ kills' \in Nat
    BY MissingFinite, FS_CardinalityType DEF ScoreTyping
  <2>1. CASE Missing' \subseteq Missing /\ UNCHANGED kills
    <3>1. Cardinality(Missing') <= Cardinality(Missing) /\ Cardinality(Missing') \in Nat
      BY <2>1, <2>n, FS_Subset, FS_CardinalityType
    <3> QED
      BY <2>1, <2>n, <3>1
  <2>2. ASSUME NEW o, Missing' \subseteq Missing \cup {o}, kills' = kills + 1
        PROVE  Cardinality(Missing') <= kills'
    <3>a. /\ IsFiniteSet(Missing \cup {o})
          /\ Cardinality(Missing \cup {o}) = Cardinality(Missing)
             \/ Cardinality(Missing \cup {o}) = Cardinality(Missing) + 1
      BY <2>n, FS_AddElement
    <3>1. /\ IsFiniteSet(Missing \cup {o})
          /\ Cardinality(Missing \cup {o}) <= Cardinality(Missing) + 1
          /\ Cardinality(Missing \cup {o}) \in Nat
      BY <2>n, <3>a
    <3>2. Cardinality(Missing') <= Cardinality(Missing \cup {o}) /\ Cardinality(Missing') \in Nat
      BY <2>2, <3>1, FS_Subset, FS_CardinalityType
    <3> QED
      BY <2>2, <2>n, <3>1, <3>2
  <2> QED
    BY <2>1, <2>2, MissingStep
<1>3. ScoreTyping /\ OnePerKill => AtMostOneLostPerKill
  <2> SUFFICES ASSUME ScoreTyping, Cardinality(Missing) <= kills PROVE AtMostOneLostPerKill
    BY DEF OnePerKill
  <2> DEFINE Lost == (0..vouched - 1) \ (persisted \cup dropped \cup hand)
  <2>1. Lost \subseteq Missing
    BY DEF Missing, ScoreTyping
  <2>2. Cardinality(Lost) <= Cardinality(Missing) /\ Cardinality(Lost) \in Nat
        /\ Cardinality(Missing) \in Nat
    BY <2>1, MissingFinite, FS_Subset, FS_CardinalityType
  <2>3. Cardinality(Lost) <= kills
    BY <2>2 DEF ScoreTyping
  <2> QED
    BY <2>3 DEF AtMostOneLostPerKill
<1> QED
  BY <1>1, <1>2, <1>3, ScoreTyped, PTL DEF ScoreSpec

-----------------------------------------------------------------------------
(* The rule configuration.                                                 *)

(* A process is in exactly one container.                                  *)
LEMMA HomeIs ==
  ASSUME NEW p \in Process
  PROVE  /\ Home(p) \in Container /\ p \in Home(p)
         /\ \A c \in Container : p \in c => c = Home(p)
<1>1. \E c \in Container : p \in c
  BY RulesAssumption
<1>2. Home(p) \in Container /\ p \in Home(p)
  BY <1>1 DEF Home
<1>3. ASSUME NEW c \in Container, p \in c PROVE c = Home(p)
  BY <1>2, <1>3, RulesAssumption
<1> QED
  BY <1>2, <1>3

ChangeType ==
  [op : {"none", "put", "patch"},
   step : {"new", "write", "reload", "patch", "patched", "done", "lost"},
   on : Process \cup {"none"}, config : Config, version : Nat]

(* The shape of the requests ...                                           *)
ChangesTyped ==
  /\ change \in [Change -> ChangeType]
  /\ \A r \in Change : change[r].step # "new" => change[r].on \in Process

(* ... and of the state of the rule configuration.                         *)
RulesTyping ==
  /\ file \in [Container -> Config \cup {Torn}] /\ latest \in [Container -> Config]
  /\ cache \in [Process -> Config \cup {Unread, Defaults}]
  /\ ChangesTyped
  /\ ruleRow \in RuleRow /\ ruleRow \in history /\ history \subseteq RuleRow
  /\ told \subseteq Process /\ unaware \subseteq Process

(* The rule configuration keeps the shape of its state.                    *)
LEMMA RulesTyped == RulesSpec => []RulesTyping
<1> USE RulesAssumption
<1>1. RulesInit => RulesTyping
  BY DEF RulesInit, RulesTyping, ChangesTyped, NoChange, RuleRow, ChangeType
<1>2. RulesTyping /\ [RulesNext]_rulesVars => RulesTyping'
  <2> SUFFICES ASSUME RulesTyping, [RulesNext]_rulesVars PROVE RulesTyping'
    OBVIOUS
  <2>c. \A r \in Change : /\ change[r] \in ChangeType /\ change[r].op \in {"none", "put", "patch"}
                          /\ change[r].on \in Process \cup {"none"} /\ change[r].config \in Config
                          /\ change[r].version \in Nat
    BY DEF RulesTyping, ChangesTyped, ChangeType
  <2>m. \A r \in Change : \A step \in {"reload", "patched", "done", "lost"} :
          Moved(change[r], step) \in ChangeType /\ Moved(change[r], step).on = change[r].on
    BY <2>c DEF Moved, ChangeType
  <2>s. ASSUME NEW r \in Change, NEW step \in {"reload", "patched", "done"},
               change[r].step # "new", Step(r, step)
        PROVE  ChangesTyped'
    <3>1. change' = [change EXCEPT ![r] = Moved(change[r], step)]
      BY <2>s DEF Step
    <3> QED
      BY <2>s, <2>m, <3>1 DEF RulesTyping, ChangesTyped
  <2>n. ASSUME NEW p \in Process, NEW r \in Change, NEW e \in ChangeType, e.on = p,
               change' = [change EXCEPT ![r] = e]
        PROVE  ChangesTyped'
    BY <2>n DEF RulesTyping, ChangesTyped
  <2>h. \A r \in Change : change[r].step # "new" =>
          /\ change[r].on \in Process /\ Home(change[r].on) \in Container
          /\ Home(change[r].on) \subseteq Process
    BY HomeIs DEF RulesTyping, ChangesTyped
  <2>a. ASSUME NEW r \in Change, NEW heard \in SUBSET Process, Announce(r, heard)
        PROVE  told' \subseteq Process /\ cache' \in [Process -> Config \cup {Unread, Defaults}]
    BY <2>a DEF Announce, Reloaded, RulesTyping
  <2>t. ASSUME NEW S \in SUBSET Process, Stop(S)
        PROVE  /\ ChangesTyped' /\ cache' \in [Process -> Config \cup {Unread, Defaults}]
               /\ told' \subseteq Process /\ unaware' \subseteq Process
    <3>1. \A r \in Change : change'[r] = change[r]
                            \/ (change[r].on \in S /\ change'[r] = Moved(change[r], "lost"))
      BY <2>t DEF Stop
    <3>2. ChangesTyped'
      BY <2>t, <2>c, <2>m, <3>1 DEF Stop, RulesTyping, ChangesTyped
    <3> QED
      BY <2>t, <3>2 DEF Stop, RulesTyping
  <2> USE DEF fileVars, tableVars
  <2>1. ASSUME NEW p \in Process, get_rules_config(p) PROVE RulesTyping'
    BY <2>1 DEF get_rules_config, RulesTyping, ChangesTyped
  <2>2. ASSUME NEW p \in Process, Hear(p) PROVE RulesTyping'
    BY <2>2 DEF Hear, RulesTyping, ChangesTyped
  <2>3. ASSUME NEW p \in Process, Respawn(p) PROVE RulesTyping'
    BY <2>3, <2>t DEF Respawn, Stop, RulesTyping
  <2>4. ASSUME NEW c \in Container, Redeploy(c) PROVE RulesTyping'
    <3>1. c \in SUBSET Process
      OBVIOUS
    <3> QED
      BY <2>4, <3>1, <2>t DEF Redeploy, Stop, RulesTyping
  <2>5. ASSUME NEW p \in Process, NEW r \in Change, NEW k \in Config,
               PutOpen(r, p, k) \/ PutNotOpened(r, p, k)
        PROVE  RulesTyping'
    <3>1. PICK step \in {"write", "reload"} : PutStart(r, p, k, step)
      BY <2>5 DEF PutOpen, PutNotOpened
    <3> DEFINE e == [op |-> "put", step |-> step, on |-> p, config |-> k, version |-> 0]
    <3>2. e \in ChangeType /\ e.on = p
      BY DEF ChangeType
    <3>3. change' = [change EXCEPT ![r] = e]
      BY <3>1 DEF PutStart
    <3> HIDE DEF e
    <3>4. ChangesTyped'
      BY <3>2, <3>3, <2>n
    <3>5. file' \in [Container -> Config \cup {Torn}] /\ latest' \in [Container -> Config]
      BY <2>5 DEF PutOpen, PutNotOpened, RulesTyping
    <3> QED
      BY <3>1, <3>4, <3>5 DEF PutStart, RulesTyping
  <2>6. ASSUME NEW p \in Process, NEW r \in Change, NEW k \in Config, PatchRead(r, p, k)
        PROVE  RulesTyping'
    <3> DEFINE e == [op |-> "patch", step |-> "patch", on |-> p, config |-> k,
                     version |-> ruleRow.version + 1]
    <3>1. e \in ChangeType /\ e.on = p
      BY DEF ChangeType, RulesTyping, RuleRow
    <3>2. change' = [change EXCEPT ![r] = e]
      BY <2>6 DEF PatchRead
    <3> HIDE DEF e
    <3>3. ChangesTyped'
      BY <3>1, <3>2, <2>n
    <3> QED
      BY <2>6, <3>3 DEF PatchRead, RulesTyping
  <2>7. ASSUME NEW r \in Change, PutWrite(r) \/ PutFails(r) PROVE RulesTyping'
    <3>1. Step(r, "reload") /\ change[r].step # "new"
      BY <2>7 DEF PutWrite, PutFails, On
    <3>2. ChangesTyped'
      BY <3>1, <2>s
    <3>3. latest' \in [Container -> Config] /\ file' \in [Container -> Config \cup {Torn}]
      BY <2>7, <2>c DEF PutWrite, PutFails, RulesTyping
    <3> QED
      BY <2>7, <3>2, <3>3 DEF PutWrite, PutFails, RulesTyping
  <2>8. ASSUME NEW r \in Change, PutReload(r) \/ PatchReload(r) PROVE RulesTyping'
    <3>1. Step(r, "done") /\ change[r].step # "new" /\ UNCHANGED <<fileVars, tableVars>>
      BY <2>8 DEF PutReload, PatchReload, On
    <3>2. PICK heard \in SUBSET Process : Announce(r, heard)
      BY <2>8 DEF PutReload, PatchReload
    <3>3. ChangesTyped'
      BY <3>1, <2>s
    <3>4. unaware' \subseteq Process
      BY <2>8, <3>1, <2>h DEF PutReload, PatchReload, RulesTyping
    <3> QED
      BY <3>1, <3>2, <3>3, <3>4, <2>a DEF RulesTyping
  <2>9. ASSUME NEW r \in Change, PatchWrite(r) PROVE RulesTyping'
    <3>1. Step(r, "patched") /\ change[r].step # "new"
      BY <2>9 DEF PatchWrite, On
    <3>2. ChangesTyped'
      BY <3>1, <2>s
    <3>3. ruleRow' \in RuleRow
      BY <2>9, <2>c DEF PatchWrite, RuleRow
    <3> QED
      BY <2>9, <3>2, <3>3 DEF PatchWrite, RulesTyping
  <2>10. CASE UNCHANGED rulesVars
    BY <2>10 DEF rulesVars, RulesTyping, ChangesTyped
  <2> QED
    BY <2>1, <2>2, <2>3, <2>4, <2>5, <2>6, <2>7, <2>8, <2>9, <2>10 DEF RulesNext
<1> QED
  BY <1>1, <1>2, PTL DEF RulesSpec

(* A container in which no two PUTs overlapped has at most one under way;  *)
(* its file is empty until that one has written it.                        *)
Alone(c) ==
  /\ \A r, s \in Writing(c) : r = s
  /\ \A r \in Writing(c) : change[r].step = "write" => file[c] = Torn

(* The file is what was put last once that is written, and without a PUT   *)
(* under way so is what evaluations use, but for those with a message to   *)
(* take.                                                                   *)
InForce(c) ==
  /\ \A r \in Writing(c) : change[r].step = "reload" => file[c] = latest[c]
  /\ Writing(c) = {} =>
       /\ file[c] = latest[c]
       /\ \A p \in c : p \notin told \cup unaware => cache[p] \in {Unread, latest[c]}

SteadyIn(c) == Alone(c) /\ (c \notin spoilt => InForce(c))

Steady == \A c \in Container : c \notin mixed => SteadyIn(c)

(* What a step does to the requests that write in a container.             *)
SameWriting(c) ==
  /\ Writing(c)' = Writing(c)
  /\ \A r \in Writing(c) : change'[r].step = change[r].step

(* A container the step only empties caches of stays as it is.             *)
LEMMA SteadyFrame ==
  ASSUME NEW c \in Container, SteadyIn(c), SameWriting(c),
         file'[c] = file[c], latest'[c] = latest[c],
         c \notin spoilt' => c \notin spoilt,
         Writing(c) = {} /\ c \notin spoilt =>
           \A p \in c : p \notin told' \cup unaware' =>
             \/ cache'[p] \in {Unread, latest[c]}
             \/ p \notin told \cup unaware /\ cache'[p] = cache[p]
  PROVE  SteadyIn(c)'
<1>1. Alone(c)'
  BY DEF SteadyIn, Alone, SameWriting
<1>2. ASSUME c \notin spoilt' PROVE InForce(c)'
  <2>1. InForce(c)
    BY <1>2 DEF SteadyIn
  <2>2. \A r \in Writing(c)' : change'[r].step = "reload" => file'[c] = latest'[c]
    BY <2>1 DEF InForce, SameWriting
  <2>3. ASSUME Writing(c)' = {}
        PROVE  /\ file'[c] = latest'[c]
               /\ \A p \in c : p \notin told' \cup unaware' => cache'[p] \in {Unread, latest'[c]}
    BY <1>2, <2>1, <2>3 DEF InForce, SameWriting
  <2> QED
    BY <2>2, <2>3 DEF InForce
<1> QED
  BY <1>1, <1>2 DEF SteadyIn

(* One step keeps it.                                                      *)
LEMMA SteadyStep ==
  ASSUME RulesTyping, RulesTyping', Steady, [RulesNext]_rulesVars PROVE Steady'
<1> USE RulesAssumption
<1> SUFFICES ASSUME NEW c \in Container, c \notin mixed' PROVE SteadyIn(c)'
  BY DEF Steady
<1>p. \A p \in c : p \in Process /\ c = Home(p)
  BY HomeIs
<1>s. ASSUME NEW r \in Change, NEW step, Step(r, step)
      PROVE  /\ change'[r].step = step /\ change'[r].on = change[r].on
             /\ \A s \in Change : s # r => change'[s] = change[s]
  BY <1>s DEF Step, Moved, RulesTyping, ChangesTyped
<1>h. \A r \in Change : change[r].step # "new" =>
        change[r].on \in Process /\ change[r].on \in Home(change[r].on)
  BY HomeIs DEF RulesTyping, ChangesTyped
<1> USE DEF fileVars, tableVars
<1>1. ASSUME NEW p \in Process, get_rules_config(p) PROVE SteadyIn(c)'
  <2>1. SteadyIn(c) /\ SameWriting(c) /\ UNCHANGED <<file, latest, spoilt, told, unaware>>
    BY <1>1 DEF get_rules_config, Steady, SameWriting, Writing
  <2>2. ASSUME Writing(c) = {}, c \notin spoilt, NEW q \in c
        PROVE  cache'[q] = latest[c] \/ cache'[q] = cache[q]
    <3>1. file[c] = latest[c] /\ latest[c] \in Config
      BY <2>1, <2>2 DEF SteadyIn, InForce, RulesTyping
    <3> QED
      BY <1>1, <1>p, <3>1 DEF get_rules_config, RulesTyping
  <2> QED
    BY <2>1, <2>2, SteadyFrame
<1>2. ASSUME NEW p \in Process, Hear(p) PROVE SteadyIn(c)'
  <2>1. SteadyIn(c) /\ SameWriting(c) /\ UNCHANGED <<file, latest, spoilt>>
    BY <1>2 DEF Hear, Steady, SameWriting, Writing
  <2>2. \A q \in c : cache'[q] = Unread \/ (cache'[q] = cache[q] /\ q # p)
    BY <1>2, <1>p DEF Hear, RulesTyping
  <2>3. \A q \in c : q # p /\ q \notin told' \cup unaware' => q \notin told \cup unaware
    BY <1>2 DEF Hear
  <2> QED
    BY <2>1, <2>2, <2>3, SteadyFrame
<1>t. ASSUME NEW S \in SUBSET Process, Stop(S)
      PROVE  /\ Writing(c)' = {r \in Writing(c) : change[r].on \notin S}
             /\ \A r \in Writing(c)' : change'[r] = change[r]
             /\ \A q \in c : IF q \in S THEN cache'[q] = Unread
                             ELSE /\ cache'[q] = cache[q]
                                  /\ q \notin told' \cup unaware' => q \notin told \cup unaware
  <2>1. \A r \in Change : IF change[r] # NoChange /\ change[r].on \in S
                          THEN change'[r] = Moved(change[r], "lost")
                          ELSE change'[r] = change[r]
    BY <1>t DEF Stop
  <2>2. \A r \in Change : Moved(change[r], "lost").step = "lost" /\ NoChange.step = "new"
    BY DEF Moved, NoChange
  <2>3. /\ Writing(c)' = {r \in Writing(c) : change[r].on \notin S}
        /\ \A r \in Writing(c)' : change'[r] = change[r]
    BY <2>1, <2>2 DEF Writing
  <2> QED
    BY <1>t, <1>p, <2>3 DEF Stop
<1>3. ASSUME NEW p \in Process, Respawn(p) PROVE SteadyIn(c)'
  <2>1. /\ SteadyIn(c) /\ UNCHANGED <<file, latest>> /\ Stop({p})
        /\ c \notin spoilt' => c \notin spoilt
    BY <1>3 DEF Respawn, Steady
  <2>2. /\ Writing(c)' = {r \in Writing(c) : change[r].on # p}
        /\ \A r \in Writing(c)' : change'[r] = change[r]
        /\ \A q \in c : cache'[q] = Unread
             \/ (cache'[q] = cache[q] /\ (q \notin told' \cup unaware' => q \notin told \cup unaware))
    BY <2>1, <1>t
  <2>3. CASE \E r \in Writing(c) : change[r].on = p
    <3>1. p \in c /\ Writing({p}) # {}
      BY <2>3 DEF Writing
    <3>2. c \in spoilt'
      BY <1>3, <1>p, <3>1 DEF Respawn
    <3> QED
      BY <2>1, <2>2, <3>2 DEF SteadyIn, Alone
  <2>4. CASE \A r \in Writing(c) : change[r].on # p
    <3>1. SameWriting(c)
      BY <2>2, <2>4 DEF SameWriting
    <3> QED
      BY <2>1, <2>2, <3>1, SteadyFrame
  <2> QED
    BY <2>3, <2>4
<1>4. ASSUME NEW d \in Container, Redeploy(d) PROVE SteadyIn(c)'
  <2>1. Stop(d) /\ d \in SUBSET Process
    BY <1>4 DEF Redeploy
  <2>2. CASE c = d
    <3>1. Writing(c)' = {} /\ \A q \in c : cache'[q] = Unread
      BY <2>1, <2>2, <1>t DEF Writing
    <3>2. file'[c] = latest'[c]
      BY <1>4, <2>2 DEF Redeploy, RulesTyping
    <3> QED
      BY <3>1, <3>2 DEF SteadyIn, Alone, InForce
  <2>3. CASE c # d
    <3>1. c \cap d = {} /\ \A r \in Writing(c) : change[r].on \in c
      BY <2>3 DEF Writing
    <3>2. SameWriting(c)
      BY <2>1, <3>1, <1>t DEF SameWriting
    <3>3. /\ SteadyIn(c) /\ file'[c] = file[c] /\ latest'[c] = latest[c]
          /\ c \notin spoilt' => c \notin spoilt
      BY <1>4, <2>3 DEF Redeploy, RulesTyping, Steady
    <3> QED
      BY <2>1, <3>1, <3>2, <3>3, <1>t, SteadyFrame
  <2> QED
    BY <2>2, <2>3
<1>5. ASSUME NEW p \in Process, NEW r \in Change, NEW k \in Config, NEW step \in {"write", "reload"},
             PutStart(r, p, k, step), file'[c] = Torn \/ p \notin c \/ step = "reload",
             p \in c => step = "write" \/ c \in spoilt',
             p \notin c => file'[c] = file[c] /\ latest'[c] = latest[c],
             c \notin spoilt' => c \notin spoilt
      PROVE  SteadyIn(c)'
  <2>1. /\ change'[r].step = step /\ change'[r].on = p
        /\ \A s \in Change : s # r => change'[s] = change[s]
        /\ change[r].step = "new" /\ UNCHANGED <<cache, told, unaware>>
    BY <1>5 DEF PutStart, RulesTyping, ChangesTyped, NoChange
  <2>2. CASE p \in c
    <3>1. Writing(c) = {}
      BY <1>5, <1>p, <2>2 DEF PutStart
    <3>2. Writing(c)' = {r}
      BY <2>1, <2>2, <3>1 DEF Writing
    <3>3. step = "write" => file'[c] = Torn
      BY <1>5, <2>2
    <3>4. Alone(c)'
      BY <2>1, <3>2, <3>3 DEF Alone
    <3>5. c \notin spoilt' => InForce(c)'
      BY <1>5, <2>1, <2>2, <3>2 DEF InForce
    <3> QED
      BY <3>4, <3>5 DEF SteadyIn
  <2>3. CASE p \notin c
    <3>1. SameWriting(c)
      BY <2>1, <2>3 DEF Writing, SameWriting
    <3>2. SteadyIn(c)
      BY <1>5 DEF PutStart, Steady
    <3> QED
      BY <1>5, <2>1, <2>3, <3>1, <3>2, SteadyFrame
  <2> QED
    BY <2>2, <2>3
<1>6. ASSUME NEW p \in Process, NEW r \in Change, NEW k \in Config, PutOpen(r, p, k)
      PROVE  SteadyIn(c)'
  <2>1. /\ p \in c => file'[c] = Torn
        /\ p \notin c => file'[c] = file[c]
        /\ UNCHANGED <<latest, spoilt>> /\ PutStart(r, p, k, "write")
    BY <1>6, <1>p, HomeIs DEF PutOpen, RulesTyping
  <2> QED
    BY <2>1, <1>5
<1>7. ASSUME NEW p \in Process, NEW r \in Change, NEW k \in Config, PutNotOpened(r, p, k)
      PROVE  SteadyIn(c)'
  <2>1. /\ p \in c => c \in spoilt'
        /\ p \notin c => latest'[c] = latest[c]
        /\ file' = file /\ PutStart(r, p, k, "reload")
        /\ c \notin spoilt' => c \notin spoilt
    BY <1>7, <1>p, HomeIs DEF PutNotOpened, RulesTyping
  <2> QED
    BY <2>1, <1>5
<1>8. ASSUME NEW p \in Process, NEW r \in Change, NEW k \in Config, PatchRead(r, p, k)
      PROVE  SteadyIn(c)'
  <2>1. /\ change'[r].step = "patch" /\ change[r].step = "new"
        /\ \A s \in Change : s # r => change'[s] = change[s]
    BY <1>8 DEF PatchRead, RulesTyping, ChangesTyped, NoChange
  <2>2. SameWriting(c)
    BY <2>1 DEF Writing, SameWriting
  <2>3. SteadyIn(c) /\ UNCHANGED <<file, latest, spoilt, cache, told, unaware>>
    BY <1>8 DEF PatchRead, Steady
  <2> QED
    BY <2>2, <2>3, SteadyFrame
<1>9. ASSUME NEW r \in Change, PutWrite(r) \/ PutFails(r) PROVE SteadyIn(c)'
  <2>1. /\ change'[r].step = "reload" /\ change'[r].on = change[r].on
        /\ \A s \in Change : s # r => change'[s] = change[s]
        /\ change[r].step = "write" /\ c \notin mixed /\ UNCHANGED <<cache, told, unaware>>
    BY <1>9, <1>s DEF PutWrite, PutFails, On
  <2>2. Writing(c)' = Writing(c) /\ SteadyIn(c)
    BY <2>1 DEF Writing, Steady
  <2>3. CASE change[r].on \in c
    <3>1. c = Home(change[r].on) /\ r \in Writing(c)
      BY <2>1, <2>3, <1>p DEF Writing
    <3>2. file[c] = Torn /\ \A s \in Writing(c) : s = r
      BY <2>1, <2>2, <3>1 DEF SteadyIn, Alone
    <3>3. Alone(c)'
      BY <2>1, <2>2, <3>2 DEF Alone
    <3>4. c \notin spoilt' => file'[c] = latest'[c]
      BY <1>9, <3>1, <3>2 DEF PutWrite, PutFails, RulesTyping
    <3>5. c \notin spoilt' => InForce(c)'
      BY <2>2, <3>1, <3>4 DEF InForce
    <3> QED
      BY <3>3, <3>5 DEF SteadyIn
  <2>4. CASE change[r].on \notin c
    <3>1. c # Home(change[r].on)
      BY <2>1, <2>4, <1>h
    <3>2. /\ file'[c] = file[c] /\ latest'[c] = latest[c]
          /\ c \notin spoilt' => c \notin spoilt
      BY <1>9, <3>1 DEF PutWrite, PutFails, RulesTyping
    <3>3. SameWriting(c)
      BY <2>1, <2>2, <2>4 DEF Writing, SameWriting
    <3> QED
      BY <2>1, <2>2, <3>2, <3>3, SteadyFrame
  <2> QED
    BY <2>3, <2>4
<1>10. ASSUME NEW r \in Change, PutReload(r) PROVE SteadyIn(c)'
  <2>1. /\ change'[r].step = "done" /\ change'[r].on = change[r].on
        /\ \A s \in Change : s # r => change'[s] = change[s]
        /\ change[r].step = "reload" /\ c \notin mixed /\ UNCHANGED <<file, latest, spoilt>>
    BY <1>10, <1>s DEF PutReload, On
  <2>2. PICK heard \in SUBSET Process :
          /\ cache' = [cache EXCEPT ![change[r].on] = Unread]
          /\ told' = told \cup heard
          /\ unaware' = (unaware \cup (Home(change[r].on) \ heard)) \ {change[r].on}
    BY <1>10 DEF PutReload, Announce, Reloaded
  <2>3. SteadyIn(c) /\ Writing(c)' = Writing(c) \ {r}
    BY <2>1 DEF Writing, Steady
  <2>4. \A q \in c : cache'[q] = Unread \/ (q # change[r].on /\ cache'[q] = cache[q])
    BY <2>2, <1>p DEF RulesTyping
  <2>5. CASE change[r].on \in c
    <3>1. c = Home(change[r].on) /\ r \in Writing(c)
      BY <2>1, <2>5, <1>p DEF Writing
    <3>2. Writing(c)' = {}
      BY <2>3, <3>1 DEF SteadyIn, Alone
    <3>3. c \notin spoilt => file'[c] = latest'[c]
      BY <2>1, <2>3, <3>1 DEF SteadyIn, InForce
    <3>4. \A q \in c : q \notin told' \cup unaware' => cache'[q] = Unread
      BY <2>2, <2>4, <3>1
    <3> QED
      BY <2>1, <3>2, <3>3, <3>4 DEF SteadyIn, Alone, InForce
  <2>6. CASE change[r].on \notin c
    <3>1. SameWriting(c)
      BY <2>1, <2>3, <2>6 DEF Writing, SameWriting
    <3>2. \A q \in c : q \notin told' \cup unaware' => q \notin told \cup unaware
      BY <2>2, <2>6
    <3> QED
      BY <2>1, <2>3, <2>4, <3>1, <3>2, SteadyFrame
  <2> QED
    BY <2>5, <2>6
<1>11. ASSUME NEW r \in Change, PatchWrite(r) \/ PatchReload(r) PROVE SteadyIn(c)'
  <2>1. PICK step \in {"patched", "done"} : Step(r, step)
    BY <1>11 DEF PatchWrite, PatchReload
  <2>2. /\ change[r].step \in {"patch", "patched"} /\ change'[r].step = step
        /\ \A s \in Change : s # r => change'[s] = change[s]
        /\ SteadyIn(c) /\ UNCHANGED <<file, latest, spoilt, unaware>>
    BY <1>11, <2>1, <1>s DEF PatchWrite, PatchReload, On, Steady
  <2>3. SameWriting(c)
    BY <2>1, <2>2 DEF Writing, SameWriting
  <2>4. \A q \in c : cache'[q] \in {Unread, cache[q]} /\ (q \notin told' => q \notin told)
    BY <1>11, <1>p DEF PatchWrite, PatchReload, Announce, Reloaded, RulesTyping
  <2> QED
    BY <2>2, <2>3, <2>4, SteadyFrame
<1>12. CASE UNCHANGED rulesVars
  <2>1. SteadyIn(c) /\ SameWriting(c) /\ UNCHANGED <<file, latest, spoilt, told, unaware, cache>>
    BY <1>12 DEF rulesVars, Steady, SameWriting, Writing
  <2> QED
    BY <2>1, SteadyFrame
<1> QED
  BY <1>1, <1>2, <1>3, <1>4, <1>6, <1>7, <1>8, <1>9, <1>10, <1>11, <1>12 DEF RulesNext

(* The rule configuration keeps the types of its state.                    *)
THEOREM RulesTypes == RulesSpec => []RulesTypeOK
<1>1. RulesTyping => RulesTypeOK
  BY DEF RulesTyping, RulesTypeOK
<1> QED
  BY <1>1, RulesTyped, PTL

(* Between PUTs the processes of a container that took or heard the last   *)
(* one evaluate with it.                                                   *)
THEOREM PutsTakeEffect == RulesSpec => []PutTakesEffect
<1>1. RulesInit => Steady
  BY RulesAssumption DEF RulesInit, Steady, SteadyIn, Alone, InForce, Writing, NoChange
<1>2. RulesTyping /\ RulesTyping' /\ Steady /\ [RulesNext]_rulesVars => Steady'
  BY SteadyStep
<1>3. Steady => PutTakesEffect
  BY DEF Steady, SteadyIn, InForce, PutTakesEffect
<1> QED
  BY <1>1, <1>2, <1>3, RulesTyped, PTL DEF RulesSpec

-----------------------------------------------------------------------------
(* The whitelist.                                                          *)

CacheKey == UNION {Keys(n, c) : n \in Entity, c \in Customer \cup {NoCustomer}}
Known == Customer \cup {NoCustomer}

(* A disposition on its way, and a look-up.                                *)
OnItsWay(a) ==
  \/ a = None
  \/ \E at \in {"table", "redis", "publish"}, d \in Disposition : a = [at |-> at, d |-> d]
Asked(k) ==
  \/ k = None
  \/ \E at \in {"redis", "replica", "hydrate"}, n \in Entity, c \in Known,
        due \in SUBSET Disposition :
       k = Ask(at, n, c, due) /\ (at = "hydrate" => due # {})

(* The shape of the state of the whitelist.                                *)
StoreType ==
  /\ local \in [Pod -> SUBSET (CacheKey \X Disposition)]
  /\ shared \subseteq CacheKey \X Disposition
RowType ==
  /\ table \subseteq Disposition /\ replica \subseteq table
  /\ added \subseteq Disposition /\ missed \subseteq Disposition /\ day \in Nat
AskType ==
  /\ DOMAIN adding = Pod /\ adding = [p \in Pod |-> adding[p]]
  /\ DOMAIN check = Pod /\ check = [p \in Pod |-> check[p]]
  /\ \A p \in Pod : OnItsWay(adding[p]) /\ Asked(check[p])
WhitelistTyping == StoreType /\ RowType /\ AskType

(* Writing a key keeps the shape of a store, and what a valid disposition  *)
(* is written over stays answered for.                                     *)
LEMMA PutShape ==
  ASSUME NEW store \in SUBSET (CacheKey \X Disposition), NEW d \in Disposition,
         NEW keys \in SUBSET CacheKey
  PROVE  Put(store, keys, d) \in SUBSET (CacheKey \X Disposition)
  BY DEF Put

(* The keys of a party that is screened are keys of the cache.             *)
LEMMA KeyShape ==
  ASSUME NEW n \in Entity, NEW c \in Known
  PROVE  Keys(n, c) \in SUBSET CacheKey /\ Keys(n, NoCustomer) \in SUBSET CacheKey
<1>1. ASSUME NEW m \in Entity, NEW b \in Customer \cup {NoCustomer}
      PROVE  Keys(m, b) \subseteq CacheKey
  BY <1>1 DEF CacheKey
<1> QED
  BY <1>1 DEF Known

(* The whitelist keeps the shape of its state.                             *)
LEMMA WhitelistTyped == WhitelistSpec => []WhitelistTyping
<1> USE WhitelistAssumption
<1>1. WhitelistInit => WhitelistTyping
  BY DEF WhitelistInit, WhitelistTyping, StoreType, RowType, AskType, OnItsWay, Asked, None
<1>2. WhitelistTyping /\ [WhitelistNext]_whitelistVars => WhitelistTyping'
  <2> SUFFICES ASSUME WhitelistTyping, [WhitelistNext]_whitelistVars PROVE WhitelistTyping'
    OBVIOUS
  <2>k. ASSUME NEW d \in Disposition PROVE Keys(d.name, d.cust) \in SUBSET CacheKey
    BY KeyShape DEF Known
  <2>s. ASSUME UNCHANGED <<local, shared>> PROVE StoreType'
    BY <2>s DEF WhitelistTyping, StoreType
  <2>r. ASSUME UNCHANGED <<table, replica, added, missed, day>> PROVE RowType'
    BY <2>r DEF WhitelistTyping, RowType
  <2>a. ASSUME UNCHANGED <<adding, check>> PROVE AskType'
    BY <2>a DEF WhitelistTyping, AskType
  <2>c. ASSUME NEW p \in Pod, NEW k, Asked(k), check' = [check EXCEPT ![p] = k], UNCHANGED adding
        PROVE  AskType'
    BY <2>c DEF WhitelistTyping, AskType
  <2>w. ASSUME NEW p \in Pod, NEW a, OnItsWay(a), adding' = [adding EXCEPT ![p] = a], UNCHANGED check
        PROVE  AskType'
    BY <2>w DEF WhitelistTyping, AskType
  <2>f. ASSUME NEW p \in Pod, NEW from \in {"table", "redis", "publish"}, adding[p].at = from
        PROVE  adding[p].d \in Disposition /\ adding[p] = [at |-> from, d |-> adding[p].d]
    BY <2>f DEF WhitelistTyping, AskType, OnItsWay, None
  <2>g. ASSUME NEW p \in Pod, NEW from \in {"table", "redis", "publish"},
               NEW to \in {"redis", "publish", "idle"}, Adding(p, from, to), UNCHANGED check
        PROVE  AskType'
    <3>1. adding[p].d \in Disposition
      BY <2>g, <2>f DEF Adding
    <3>2. CASE to = "idle"
      BY <2>g, <2>w, <3>2 DEF Adding, OnItsWay
    <3>3. CASE to # "idle"
      <4>1. adding' = [adding EXCEPT ![p] = [at |-> to, d |-> adding[p].d]]
        BY <2>g, <3>3 DEF Adding
      <4>2. OnItsWay([at |-> to, d |-> adding[p].d])
        BY <3>1, <3>3 DEF OnItsWay
      <4> QED
        BY <2>g, <2>w, <4>1, <4>2
    <3> QED
      BY <3>2, <3>3
  <2>q. ASSUME NEW p \in Pod, NEW at \in {"redis", "replica", "hydrate"}, check[p].at = at
        PROVE  /\ check[p].name \in Entity /\ check[p].cust \in Known
               /\ check[p].due \in SUBSET Disposition /\ (at = "hydrate" => check[p].due # {})
    BY <2>q DEF WhitelistTyping, AskType, Asked, Ask, None
  <2>n. Asked(None)
    BY DEF Asked
  <2> USE DEF cacheVars, dbVars, addVars
  <2>1. CASE NextDay
    <3>1. shared' \subseteq CacheKey \X Disposition /\ day' \in Nat
      BY <2>1 DEF NextDay, WhitelistTyping, StoreType, RowType
    <3> QED
      BY <2>1, <3>1, <2>a DEF NextDay, WhitelistTyping, StoreType, RowType
  <2>2. ASSUME NEW e \in shared, Evict(e) PROVE WhitelistTyping'
    BY <2>2, <2>a, <2>r DEF Evict, WhitelistTyping, StoreType
  <2>3. CASE Replay
    BY <2>3, <2>a, <2>s DEF Replay, WhitelistTyping, RowType
  <2>4. ASSUME NEW p \in Adder, NEW d \in Disposition, AddLocal(p, d) PROVE WhitelistTyping'
    <3>1. OnItsWay([at |-> "table", d |-> d]) /\ p \in Pod
      BY DEF OnItsWay
    <3>2. local[p] \in SUBSET (CacheKey \X Disposition)
      BY <3>1 DEF WhitelistTyping, StoreType
    <3>3. Put(local[p], Keys(d.name, d.cust), d) \in SUBSET (CacheKey \X Disposition)
      BY <3>2, <2>k, PutShape
    <3>4. StoreType'
      BY <2>4, <3>3 DEF AddLocal, WhitelistTyping, StoreType
    <3> QED
      BY <2>4, <3>1, <3>4, <2>r, <2>w DEF AddLocal, WhitelistTyping
  <2>5. ASSUME NEW p \in Adder, AddTable(p) PROVE WhitelistTyping'
    <3>1. p \in Pod /\ adding[p].d \in Disposition
      BY <2>5, <2>f DEF AddTable, Adding
    <3>2. RowType'
      BY <2>5, <3>1 DEF AddTable, WhitelistTyping, RowType
    <3> QED
      BY <2>5, <3>1, <3>2, <2>s, <2>g DEF AddTable, WhitelistTyping
  <2>6. ASSUME NEW p \in Adder, AddRedis(p) PROVE WhitelistTyping'
    <3>1. p \in Pod /\ adding[p].d \in Disposition
      BY <2>6, <2>f DEF AddRedis, Adding
    <3>2. shared' \in SUBSET (CacheKey \X Disposition)
      BY <2>6, <3>1, <2>k, PutShape DEF AddRedis, AddedKeys, WhitelistTyping, StoreType
    <3>3. StoreType'
      BY <2>6, <3>2 DEF AddRedis, WhitelistTyping, StoreType
    <3> QED
      BY <2>6, <3>1, <3>3, <2>r, <2>g DEF AddRedis, WhitelistTyping
  <2>7. ASSUME NEW p \in Adder, AddPublish(p) PROVE WhitelistTyping'
    <3>1. p \in Pod /\ adding[p].d \in Disposition
      BY <2>7, <2>f DEF AddPublish, Adding
    <3>2. \A q \in Pod : Put(local[q], Keys(adding[p].d.name, adding[p].d.cust), adding[p].d)
                           \in SUBSET (CacheKey \X Disposition)
      BY <3>1, <2>k, PutShape DEF WhitelistTyping, StoreType
    <3>3. local' \in [Pod -> SUBSET (CacheKey \X Disposition)]
      BY <2>7, <3>2 DEF AddPublish, WhitelistTyping, StoreType
    <3>4. StoreType' /\ RowType'
      BY <2>7, <3>1, <3>3 DEF AddPublish, WhitelistTyping, StoreType, RowType
    <3> QED
      BY <2>7, <3>1, <3>4, <2>g DEF AddPublish, WhitelistTyping
  <2>8. ASSUME NEW p \in Screener, NEW n \in Entity, NEW c \in Customer \cup {NoCustomer},
               CheckStart(p, n, c)
        PROVE  WhitelistTyping'
    <3>1. {d \in added : Matches(d, n, c)} \in SUBSET Disposition
      BY DEF WhitelistTyping, RowType
    <3>2. Asked(Ask("redis", n, c, {d \in added : Matches(d, n, c)}))
      BY <3>1 DEF Asked, Known
    <3> QED
      BY <2>8, <3>2, <2>c, <2>s, <2>r DEF CheckStart, WhitelistTyping
  <2>9. ASSUME NEW p \in Screener, CheckRedis(p) PROVE WhitelistTyping'
    <3>1. /\ p \in Pod /\ check[p].name \in Entity /\ check[p].cust \in Known
          /\ check[p].due \in SUBSET Disposition
      BY <2>9, <2>q DEF CheckRedis
    <3>2. Asked(Ask("replica", check[p].name, check[p].cust, check[p].due))
      BY <3>1 DEF Asked
    <3>3. AskType'
      BY <2>9, <3>1, <3>2, <2>c, <2>n DEF CheckRedis
    <3>4. local' \in [Pod -> SUBSET (CacheKey \X Disposition)]
      <4>1. CASE UNCHANGED local
        BY <4>1 DEF WhitelistTyping, StoreType
      <4>2. ASSUME NEW e \in Found(shared, check[p].name, check[p].cust),
                   local' = [local EXCEPT ![p] = Put(@, {e[1]}, e[2])]
            PROVE  local' \in [Pod -> SUBSET (CacheKey \X Disposition)]
        <5>1. e \in shared
          BY <4>2 DEF Found
        <5>2. {e[1]} \in SUBSET CacheKey /\ e[2] \in Disposition
          BY <5>1 DEF WhitelistTyping, StoreType
        <5>3. Put(local[p], {e[1]}, e[2]) \in SUBSET (CacheKey \X Disposition)
          BY <3>1, <5>2, PutShape DEF WhitelistTyping, StoreType
        <5> QED
          BY <4>2, <5>3 DEF WhitelistTyping, StoreType
      <4> QED
        BY <2>9, <4>1, <4>2 DEF CheckRedis
    <3>5. StoreType'
      BY <2>9, <3>4 DEF CheckRedis, WhitelistTyping, StoreType
    <3> QED
      BY <2>9, <3>3, <3>5, <2>r DEF CheckRedis, WhitelistTyping
  <2>10. ASSUME NEW p \in Screener, CheckReplica(p) PROVE WhitelistTyping'
    <3> DEFINE f == {d \in replica : Matches(d, check[p].name, check[p].cust)}
    <3>1. /\ p \in Pod /\ check[p].name \in Entity /\ check[p].cust \in Known
          /\ check[p].due \in SUBSET Disposition
      BY <2>10, <2>q DEF CheckReplica
    <3>2. CASE f # {}
      <4>1. PICK d \in f : /\ local' = [local EXCEPT ![p] = Put(@, Keys(check[p].name, check[p].cust), d)]
                           /\ check' = [check EXCEPT ![p] =
                                Ask("hydrate", check[p].name, check[p].cust, {d})]
                           /\ UNCHANGED missed
        BY <2>10, <3>2 DEF CheckReplica
      <4>2. d \in Disposition
        BY DEF WhitelistTyping, RowType
      <4>3. Asked(Ask("hydrate", check[p].name, check[p].cust, {d}))
        BY <3>1, <4>2 DEF Asked
      <4>4. Put(local[p], Keys(check[p].name, check[p].cust), d) \in SUBSET (CacheKey \X Disposition)
        BY <3>1, <4>2, KeyShape, PutShape DEF WhitelistTyping, StoreType
      <4>5. StoreType'
        BY <2>10, <4>1, <4>4 DEF CheckReplica, WhitelistTyping, StoreType
      <4> QED
        BY <2>10, <4>1, <4>3, <4>5, <3>1, <2>c, <2>r DEF CheckReplica, WhitelistTyping
    <3>3. CASE f = {}
      <4>1. /\ check' = [check EXCEPT ![p] = None] /\ UNCHANGED local
            /\ missed' = missed \cup {d \in check[p].due : _is_entry_valid(d)}
        BY <2>10, <3>3 DEF CheckReplica
      <4>2. RowType'
        BY <2>10, <4>1, <3>1 DEF CheckReplica, WhitelistTyping, RowType
      <4> QED
        BY <2>10, <4>1, <4>2, <3>1, <2>c, <2>n, <2>s DEF CheckReplica, WhitelistTyping
    <3> QED
      BY <3>2, <3>3
  <2>11. ASSUME NEW p \in Screener, CheckHydrate(p) PROVE WhitelistTyping'
    <3>1. /\ p \in Pod /\ check[p].name \in Entity /\ check[p].cust \in Known
          /\ check[p].due \in SUBSET Disposition /\ check[p].due # {}
      BY <2>11, <2>q DEF CheckHydrate
    <3>2. (CHOOSE d \in check[p].due : TRUE) \in Disposition
      BY <2>11, <3>1
    <3>3. shared' \in SUBSET (CacheKey \X Disposition)
      BY <2>11, <3>1, <3>2, KeyShape, PutShape DEF CheckHydrate, WhitelistTyping, StoreType
    <3>4. StoreType'
      BY <2>11, <3>3 DEF CheckHydrate, WhitelistTyping, StoreType
    <3> QED
      BY <2>11, <3>1, <3>4, <2>c, <2>n, <2>r DEF CheckHydrate, WhitelistTyping
  <2>12. ASSUME NEW p \in Pod, ClearLocal(p) PROVE WhitelistTyping'
    <3>1. StoreType'
      BY <2>12 DEF ClearLocal, WhitelistTyping, StoreType
    <3> QED
      BY <2>12, <3>1, <2>r, <2>a DEF ClearLocal, WhitelistTyping
  <2>13. CASE UNCHANGED whitelistVars
    BY <2>13, <2>s, <2>r, <2>a DEF whitelistVars, WhitelistTyping
  <2> QED
    BY <2>1, <2>2, <2>3, <2>4, <2>5, <2>6, <2>7, <2>8, <2>9, <2>10, <2>11, <2>12, <2>13
       DEF WhitelistNext
<1> QED
  BY <1>1, <1>2, PTL DEF WhitelistSpec

(* The keys Redis has a valid disposition for, the dispositions a check    *)
(* finds in Redis or in the replica, and those that Redis has been given.  *)
Answered == {e[1] : e \in {x \in shared : _is_entry_valid(x[2])}}
Backed == {d \in Disposition : d \in replica \/ Keys(d.name, d.cust) \subseteq Answered}
Given == added \cup {adding[p].d : p \in {q \in Pod : adding[q].at = "publish"}}
Valid == {d \in Disposition : _is_entry_valid(d)}

(* Does a disposition speak of the party that is screened?                 *)
About(d, n, c) == d.name = n \/ (c # NoCustomer /\ d.cust = c)

(* What a look-up still owes is added, speaks of the party and, once Redis *)
(* knew nothing, has reached the replica; the row it found is valid.       *)
Owes(k) ==
  /\ k.at = "redis"   => \A d \in k.due : d \in added /\ About(d, k.name, k.cust)
  /\ k.at = "replica" => \A d \in k.due \cap Valid : d \in replica /\ About(d, k.name, k.cust)
  /\ k.at = "hydrate" => k.due \subseteq Valid

(* As long as nothing went wrong: a disposition on its way is valid and    *)
(* has its row before Redis is written; what Redis was given and has not   *)
(* expired is found there or in the replica; no look-up was in vain.       *)
Findable ==
  trouble = {} =>
    /\ \A p \in Pod : adding[p] # None =>
         adding[p].d \in Valid /\ (adding[p].at # "table" => adding[p].d \in table)
    /\ added \subseteq table
    /\ Given \cap Valid \subseteq Backed
    /\ \A p \in Pod : Owes(check[p])
    /\ missed = {}

(* A key that is written over with a valid disposition is answered for,    *)
(* and so are the keys that were before.                                   *)
LEMMA PutAnswers ==
  ASSUME NEW d \in Valid, NEW keys, shared' = Put(shared, keys, d), day' = day
  PROVE  Answered \cup keys \subseteq Answered'
<1>1. _is_entry_valid(d) /\ \A x : _is_entry_valid(x)' <=> _is_entry_valid(x)
  BY DEF Valid, _is_entry_valid
<1>2. ASSUME NEW k \in keys PROVE k \in Answered'
  <2>1. <<k, d>> \in shared'
    BY <1>2 DEF Put
  <2> QED
    BY <1>1, <2>1 DEF Answered, _is_entry_valid
<1>3. ASSUME NEW k \in Answered, k \notin keys PROVE k \in Answered'
  <2>1. PICK e \in shared : e[1] = k /\ _is_entry_valid(e[2])
    BY <1>3 DEF Answered
  <2>2. e \in shared'
    BY <2>1, <1>3 DEF Put
  <2> QED
    BY <1>1, <2>1, <2>2 DEF Answered, _is_entry_valid
<1> QED
  BY <1>2, <1>3

(* A disposition that is in no replica and that Redis answers for is found *)
(* in Redis by every check it is about.                                    *)
LEMMA FoundInRedis ==
  ASSUME NEW d \in Backed, d \notin replica, NEW n, NEW c, About(d, n, c)
  PROVE  Found(shared, n, c) # {}
<1>1. Keys(d.name, d.cust) \subseteq Answered
  BY DEF Backed
<1>2. PICK k \in Keys(d.name, d.cust) : k \in Keys(n, c)
  BY DEF About, Keys
<1>3. PICK e \in shared : e[1] = k /\ _is_entry_valid(e[2])
  BY <1>1, <1>2 DEF Answered
<1> QED
  BY <1>2, <1>3 DEF Found

(* What was added stays to be found by every later check, step by step: in *)
(* the table until the pod has put it in Redis, in Redis from then on.     *)
LEMMA FindableStep ==
  ASSUME WhitelistTyping, WhitelistTyping', Findable, [WhitelistNext]_whitelistVars
  PROVE  Findable'
<1> USE WhitelistAssumption
<1> DEFINE Sound == /\ \A p \in Pod : adding'[p] # None =>
                         adding'[p].d \in Valid' /\ (adding'[p].at # "table" => adding'[p].d \in table')
                    /\ added' \subseteq table'
                    /\ Given' \cap Valid' \subseteq Backed'
                    /\ \A p \in Pod : Owes(check[p])'
                    /\ missed' = {}
<1> SUFFICES ASSUME trouble' = {} PROVE Sound
  BY DEF Findable
<1>t. ASSUME NEW what PROVE ~Trouble(what)
  BY <1>t DEF Trouble
<1>i. (trouble = {}) =>
        /\ \A p \in Pod : adding[p] # None =>
             adding[p].d \in Valid /\ (adding[p].at # "table" => adding[p].d \in table)
        /\ added \subseteq table
        /\ Given \cap Valid \subseteq Backed
        /\ \A p \in Pod : Owes(check[p])
        /\ missed = {}
  BY DEF Findable
<1>v. ASSUME day' = day PROVE Valid' = Valid
  BY <1>v DEF Valid, _is_entry_valid
<1>b. ASSUME day' = day, Answered \subseteq Answered', replica \subseteq replica'
      PROVE  Backed \subseteq Backed'
  BY <1>b DEF Backed
<1>u. ASSUME UNCHANGED <<shared, day>> PROVE Answered' = Answered
  BY <1>u DEF Answered, _is_entry_valid
<1>n. ASSUME NEW p \in Pod, check' = [check EXCEPT ![p] = None] PROVE Owes(check[p])'
  BY <1>n DEF Owes, None, WhitelistTyping, AskType
<1>p. ASSUME NEW p \in Pod, NEW k, check' = [check EXCEPT ![p] = k] PROVE check'[p] = k
  BY <1>p DEF WhitelistTyping, AskType
<1>x. \A p \in Pod : Asked(check[p]) /\ OnItsWay(adding[p])
  BY DEF WhitelistTyping, AskType
(* A look-up goes on.                                                      *)
<1>c. ASSUME trouble = {}, NEW p \in Pod, NEW k, check' = [check EXCEPT ![p] = k], Owes(check[p])',
             UNCHANGED <<table, replica, added, adding, missed, day>>, Answered \subseteq Answered'
      PROVE  Sound
  <2>1. Valid' = Valid /\ Backed \subseteq Backed' /\ Given' = Given
    BY <1>c, <1>v, <1>b DEF Given
  <2>2. \A q \in Pod : q # p => Owes(check[q])'
    BY <1>c, <1>i, <2>1 DEF Owes, WhitelistTyping, AskType
  <2> QED
    BY <1>c, <1>i, <2>1, <2>2
(* A disposition goes on.                                                  *)
<1>a. ASSUME trouble = {}, UNCHANGED <<check, missed, day>>,
             \A p \in Pod : adding'[p] # None =>
               adding'[p].d \in Valid /\ (adding'[p].at # "table" => adding'[p].d \in table'),
             added' \subseteq table', added \subseteq added',
             Given' \cap Valid \subseteq Backed', replica \subseteq replica'
      PROVE  Sound
  <2>1. Valid' = Valid
    BY <1>a, <1>v
  <2>2. \A q \in Pod : Owes(check[q])'
    BY <1>a, <1>i, <2>1 DEF Owes
  <2> QED
    BY <1>a, <1>i, <2>1, <2>2
<1> USE DEF cacheVars, dbVars, addVars
<1>1. CASE NextDay
  <2>1. /\ trouble = {} /\ replica = table /\ \A p \in Pod : adding[p] = None /\ check[p] = None
        /\ UNCHANGED <<table, replica, adding, added, check, missed>> /\ day' = day + 1
    BY <1>1 DEF NextDay
  <2>2. Given' = added /\ added \subseteq replica
    BY <2>1, <1>i DEF Given, None
  <2>3. added \subseteq Backed'
    BY <2>1, <2>2 DEF Backed, WhitelistTyping, RowType
  <2>4. \A p \in Pod : Owes(check[p])'
    BY <2>1 DEF Owes, None
  <2> QED
    BY <2>1, <2>2, <2>3, <2>4, <1>i
<1>2. ASSUME NEW e \in shared, Evict(e) PROVE Sound
  <2>1. /\ trouble = {} /\ replica = table /\ UNCHANGED <<table, replica, adding, added, check, missed, day>>
    BY <1>2, <1>t DEF Evict
  <2>2. Given' = Given /\ Given \subseteq table
    BY <2>1, <1>i DEF Given, None
  <2>3. Given \subseteq Backed'
    BY <2>1, <2>2 DEF Backed, WhitelistTyping, RowType
  <2> QED
    BY <2>1, <2>2, <2>3, <1>a, <1>i
<1>3. CASE Replay
  <2>1. /\ trouble = {} /\ replica' = table /\ UNCHANGED <<shared, table, adding, added, check, missed, day>>
    BY <1>3 DEF Replay
  <2>2. replica \subseteq replica' /\ Given' = Given /\ Backed \subseteq Backed'
    BY <2>1, <1>b, <1>u DEF Given, WhitelistTyping, RowType
  <2> QED
    BY <2>1, <2>2, <1>a, <1>i
<1>4. ASSUME NEW p \in Adder, NEW d \in Disposition, AddLocal(p, d) PROVE Sound
  <2>1. /\ trouble = {} /\ UNCHANGED <<shared, table, replica, added, check, missed, day>>
        /\ p \in Pod /\ adding'[p] = [at |-> "table", d |-> d]
        /\ \A q \in Pod : q # p => adding'[q] = adding[q]
    BY <1>4 DEF AddLocal, WhitelistTyping, AskType
  <2>2. d \in Valid
    BY <1>4 DEF AddLocal, Valid
  <2>3. Given' \subseteq Given /\ Backed \subseteq Backed'
    BY <2>1, <1>b, <1>u DEF Given
  <2>4. \A q \in Pod : adding'[q] # None =>
          adding'[q].d \in Valid /\ (adding'[q].at # "table" => adding'[q].d \in table')
    BY <2>1, <2>2, <1>i
  <2> QED
    BY <2>1, <2>3, <2>4, <1>a, <1>i
<1>f. ASSUME NEW p \in Pod, NEW from \in {"table", "redis", "publish"},
             NEW to \in {"redis", "publish", "idle"}, Adding(p, from, to)
      PROVE  /\ adding[p].at = from /\ adding[p] # None /\ adding[p].d \in Disposition
             /\ IF to = "idle" THEN adding'[p] = None
                ELSE adding'[p] # None /\ adding'[p].at = to /\ adding'[p].d = adding[p].d
             /\ \A q \in Pod : q # p => adding'[q] = adding[q]
  <2>1. adding[p].at = from /\ adding[p] # None /\ adding[p].d \in Disposition
    <3>1. OnItsWay(adding[p]) /\ adding[p].at = from
      BY <1>f, <1>x DEF Adding
    <3>2. adding[p] # None
      BY <1>f, <3>1 DEF None
    <3>3. PICK at \in {"table", "redis", "publish"}, e \in Disposition : adding[p] = [at |-> at, d |-> e]
      BY <3>1, <3>2 DEF OnItsWay
    <3> QED
      BY <3>1, <3>2, <3>3
  <2>2. adding' = [adding EXCEPT ![p] = IF to = "idle" THEN None ELSE [at |-> to, d |-> adding[p].d]]
    BY <1>f DEF Adding
  <2> QED
    BY <2>1, <2>2 DEF WhitelistTyping, AskType, None
<1>5. ASSUME NEW p \in Adder, AddTable(p) PROVE Sound
  <2>1. /\ trouble = {} /\ UNCHANGED <<shared, replica, added, check, missed, day>>
        /\ p \in Pod /\ Adding(p, "table", "redis") /\ table' = table \cup {adding[p].d}
    BY <1>5, <1>t DEF AddTable
  <2>2. /\ adding[p].at = "table" /\ adding[p] # None /\ adding'[p].at = "redis"
        /\ adding'[p].d = adding[p].d /\ \A q \in Pod : q # p => adding'[q] = adding[q]
    BY <2>1, <1>f
  <2>3. Given' \subseteq Given /\ Backed \subseteq Backed'
    BY <2>1, <2>2, <1>b, <1>u DEF Given
  <2>4. \A q \in Pod : adding'[q] # None =>
          adding'[q].d \in Valid /\ (adding'[q].at # "table" => adding'[q].d \in table')
    BY <2>1, <2>2, <1>i
  <2> QED
    BY <2>1, <2>3, <2>4, <1>a, <1>i
<1>6. ASSUME NEW p \in Adder, AddRedis(p) PROVE Sound
  <2> DEFINE d == adding[p].d
  <2>1. /\ trouble = {} /\ UNCHANGED <<table, replica, added, check, missed, day>>
        /\ p \in Pod /\ Adding(p, "redis", "publish") /\ shared' = Put(shared, Keys(d.name, d.cust), d)
    BY <1>6, <1>t DEF AddRedis, AddedKeys
  <2>2. /\ adding[p].at = "redis" /\ adding[p] # None /\ adding'[p].at = "publish"
        /\ adding'[p].d = d /\ d \in Disposition /\ \A q \in Pod : q # p => adding'[q] = adding[q]
    BY <2>1, <1>f
  <2>3. d \in Valid
    BY <2>1, <2>2, <1>i
  <2>4. Answered \cup Keys(d.name, d.cust) \subseteq Answered'
    BY <2>1, <2>3, PutAnswers
  <2>5. Backed \subseteq Backed' /\ d \in Backed'
    BY <2>1, <2>2, <2>4, <1>b DEF Backed
  <2>6. Given' \subseteq Given \cup {d}
    BY <2>1, <2>2 DEF Given
  <2>7. \A q \in Pod : adding'[q] # None =>
          adding'[q].d \in Valid /\ (adding'[q].at # "table" => adding'[q].d \in table')
    BY <2>1, <2>2, <1>i
  <2> QED
    BY <2>1, <2>5, <2>6, <2>7, <1>a, <1>i
<1>7. ASSUME NEW p \in Adder, AddPublish(p) PROVE Sound
  <2> DEFINE d == adding[p].d
  <2>1. /\ trouble = {} /\ UNCHANGED <<shared, table, replica, check, missed, day>>
        /\ p \in Pod /\ Adding(p, "publish", "idle") /\ added' = added \cup {d}
    BY <1>7 DEF AddPublish
  <2>2. /\ adding[p].at = "publish" /\ adding[p] # None /\ adding'[p] = None
        /\ d \in Disposition /\ \A q \in Pod : q # p => adding'[q] = adding[q]
    BY <2>1, <1>f
  <2>3. Given' \subseteq Given /\ Backed \subseteq Backed' /\ d \in table
    BY <2>1, <2>2, <1>b, <1>u, <1>i DEF Given, None
  <2>4. \A q \in Pod : adding'[q] # None =>
          adding'[q].d \in Valid /\ (adding'[q].at # "table" => adding'[q].d \in table')
    BY <2>1, <2>2, <1>i
  <2> QED
    BY <2>1, <2>3, <2>4, <1>a, <1>i
<1>8. ASSUME NEW p \in Screener, NEW n \in Entity, NEW c \in Customer \cup {NoCustomer},
             CheckStart(p, n, c)
      PROVE  Sound
  <2> DEFINE k == Ask("redis", n, c, {d \in added : Matches(d, n, c)})
  <2>1. trouble = {} /\ p \in Pod /\ check' = [check EXCEPT ![p] = k]
        /\ UNCHANGED <<shared, table, replica, added, adding, missed, day>>
    BY <1>8 DEF CheckStart
  <2>2. Owes(check[p])'
    BY <2>1, <1>p DEF Owes, Ask, Matches, About
  <2> QED
    BY <2>1, <2>2, <1>c, <1>u
<1>q. ASSUME NEW p \in Pod, NEW at \in {"redis", "replica", "hydrate"}, check[p].at = at
      PROVE  /\ check[p].name \in Entity /\ check[p].cust \in Known
             /\ check[p].due \in SUBSET Disposition /\ (at = "hydrate" => check[p].due # {})
  BY <1>q DEF WhitelistTyping, AskType, Asked, Ask, None
<1>9. ASSUME NEW p \in Screener, CheckRedis(p) PROVE Sound
  <2> DEFINE f == Found(shared, check[p].name, check[p].cust)
             onward == Ask("replica", check[p].name, check[p].cust, check[p].due)
  <2>1. /\ trouble = {} /\ p \in Pod /\ check[p].at = "redis"
        /\ UNCHANGED <<shared, table, replica, added, adding, missed, day>>
        /\ \/ check' = [check EXCEPT ![p] = None]
           \/ f = {} /\ check' = [check EXCEPT ![p] = onward]
    BY <1>9, <1>t DEF CheckRedis
  <2>2. CASE check' = [check EXCEPT ![p] = None]
    BY <2>1, <2>2, <1>c, <1>u, <1>n
  <2>3. CASE f = {} /\ check' = [check EXCEPT ![p] = onward]
    <3>1. \A d \in check[p].due : d \in added /\ About(d, check[p].name, check[p].cust)
      BY <2>1, <1>i DEF Owes
    <3>2. \A d \in check[p].due \cap Valid : d \in replica
      <4>1. ASSUME NEW d \in check[p].due \cap Valid, d \notin replica PROVE FALSE
        <5>1. d \in Backed
          BY <2>1, <3>1, <1>i DEF Given
        <5> QED
          BY <5>1, <4>1, <3>1, <2>3, FoundInRedis
      <4> QED
        BY <4>1
    <3>3. check'[p] = onward
      BY <2>1, <2>3, <1>p
    <3>4. Owes(check[p])'
      BY <2>1, <3>1, <3>2, <3>3, <1>v DEF Owes, Ask
    <3> QED
      BY <2>1, <2>3, <3>4, <1>c, <1>u
  <2> QED
    BY <2>1, <2>2, <2>3
<1>10. ASSUME NEW p \in Screener, CheckReplica(p) PROVE Sound
  <2> DEFINE f == {d \in replica : Matches(d, check[p].name, check[p].cust)}
  <2>1. /\ trouble = {} /\ p \in Pod /\ check[p].at = "replica"
        /\ UNCHANGED <<shared, table, replica, added, adding, day>>
    BY <1>10 DEF CheckReplica
  <2>2. CASE f # {}
    <3>1. PICK d \in f : /\ check' = [check EXCEPT ![p] =
                                Ask("hydrate", check[p].name, check[p].cust, {d})]
                         /\ UNCHANGED missed
      BY <1>10, <2>2 DEF CheckReplica
    <3>2. d \in Valid
      BY <3>1 DEF Valid, Matches, WhitelistTyping, RowType
    <3>3. check'[p] = Ask("hydrate", check[p].name, check[p].cust, {d})
      BY <2>1, <3>1, <1>p
    <3>4. check'[p].at = "hydrate" /\ check'[p].due = {d} /\ Valid' = Valid
      BY <2>1, <3>3, <1>v DEF Ask
    <3>5. Owes(check[p])'
      BY <3>2, <3>4 DEF Owes
    <3> QED
      BY <2>1, <3>1, <3>5, <1>c, <1>u
  <2>3. CASE f = {}
    <3>1. /\ check' = [check EXCEPT ![p] = None]
          /\ missed' = missed \cup {d \in check[p].due : _is_entry_valid(d)}
      BY <1>10, <2>3 DEF CheckReplica
    <3>2. \A d \in check[p].due \cap Valid : d \in replica /\ About(d, check[p].name, check[p].cust)
      BY <2>1, <1>i DEF Owes
    <3>3. {d \in check[p].due : _is_entry_valid(d)} = {}
      BY <2>1, <2>3, <3>2, <1>q DEF Matches, About, Valid
    <3> QED
      BY <2>1, <3>1, <3>3, <1>c, <1>u, <1>n, <1>i
  <2> QED
    BY <2>2, <2>3
<1>11. ASSUME NEW p \in Screener, CheckHydrate(p) PROVE Sound
  <2> DEFINE d == CHOOSE d \in check[p].due : TRUE
  <2>1. /\ trouble = {} /\ p \in Pod /\ check[p].at = "hydrate" /\ check' = [check EXCEPT ![p] = None]
        /\ UNCHANGED <<table, replica, added, adding, missed, day>>
        /\ shared' = Put(shared, Keys(check[p].name, check[p].cust), d)
    BY <1>11, <1>t DEF CheckHydrate
  <2>2. d \in check[p].due
    BY <2>1, <1>q
  <2>3. d \in Valid
    BY <2>1, <2>2, <1>i DEF Owes
  <2>4. Answered \subseteq Answered'
    BY <2>1, <2>3, PutAnswers
  <2> QED
    BY <2>1, <2>4, <1>c, <1>n
<1>12. ASSUME NEW p \in Pod, ClearLocal(p) PROVE Sound
  <2>1. /\ trouble = {} /\ UNCHANGED <<shared, table, replica, adding, added, check, missed, day>>
    BY <1>12 DEF ClearLocal
  <2>2. Given' = Given /\ Backed \subseteq Backed'
    BY <2>1, <1>b, <1>u DEF Given
  <2> QED
    BY <2>1, <2>2, <1>a, <1>i
<1>13. CASE UNCHANGED whitelistVars
  <2>1. /\ trouble = {} /\ UNCHANGED <<shared, table, replica, adding, added, check, missed, day>>
    BY <1>13 DEF whitelistVars
  <2>2. Given' = Given /\ Backed \subseteq Backed'
    BY <2>1, <1>b, <1>u DEF Given
  <2> QED
    BY <2>1, <2>2, <1>a, <1>i
<1> QED
  BY <1>1, <1>2, <1>3, <1>4, <1>5, <1>6, <1>7, <1>8, <1>9, <1>10, <1>11, <1>12, <1>13
     DEF WhitelistNext

(* The whitelist keeps the types of its state.                             *)
THEOREM WhitelistTypes == WhitelistSpec => []WhitelistTypeOK
<1>1. WhitelistTyping => WhitelistTypeOK
  BY DEF WhitelistTyping, StoreType, RowType, WhitelistTypeOK, CacheKey
<1> QED
  BY <1>1, WhitelistTyped, PTL

(* What was added is seen by every later check.                            *)
THEOREM AddedStaysSeen == WhitelistSpec => []AddedIsSeen
<1>1. WhitelistInit => Findable
  BY DEF WhitelistInit, Findable, Given, None, Owes
<1>2. WhitelistTyping /\ WhitelistTyping' /\ Findable /\ [WhitelistNext]_whitelistVars => Findable'
  BY FindableStep
<1>3. Findable => AddedIsSeen
  BY DEF Findable, AddedIsSeen
<1> QED
  BY <1>1, <1>2, <1>3, WhitelistTyped, PTL DEF WhitelistSpec
-----------------------------------------------------------------------------
(* The rules over several transactions.                                    *)
Pattern == {"STRUCTURING_VELOCITY_24H", "STRUCTURING_EXTENDED_7D", "ROUND_TRIP_DETECTION",
         "RAPID_MOVEMENT_FUNDS", "CONDUIT_RAPID_PASSTHROUGH"}
Troubles == {"lookup", "baseline", "late", "redis", "test", "sql", "refused"}
Steps == {"redis", "table", "store", "stored", "refused"}

TxRecord ==
  [step : Steps, from : Account, to : Account, amount : Nat, held : BOOLEAN, at : Int,
   clock : Nat, flags : SUBSET Pattern, asked : Nat, seen : SUBSET Transfer,
   entity : Account \cup Entities, high : BOOLEAN]

Underway(t) == tx[t].step # "new"

SetEntry == [id : Nat, amount : Nat, score : Nat]
EntryOf(t) == [id |-> t, amount |-> tx[t].amount, score |-> tx[t].clock]
SetKeys == Account \cup Entities

(* The shape of the requests, the sorted sets and the table.               *)
DetectTyped ==
  /\ now \in Nat /\ bad \subseteq Troubles
  /\ tx \in [Transfer -> {New} \cup TxRecord]
  /\ \A t \in Transfer : Underway(t) =>
       /\ tx[t] \in TxRecord /\ tx[t].from # tx[t].to
       /\ tx[t].entity = EntityOf[tx[t].from]
            \/ (tx[t].entity = tx[t].from /\ "lookup" \in bad)
  /\ window \in [SetKeys -> SUBSET SetEntry]
  /\ \A k \in SetKeys : IsFiniteSet(window[k])
  /\ stored = {t \in Transfer : tx[t].step = "stored"}
  /\ \A t \in Transfer : Underway(t) => \A u \in tx[t].seen : Underway(u)
  /\ \A t \in Transfer : tx[t].step = "redis" => tx[t].flags = {}

(* What the sorted sets hold are requests that have been counted, under    *)
(* the keys of their owners, or comes from a test of the rules.            *)
WindowSound ==
  \A k \in SetKeys : \A e \in window[k] :
    \/ /\ e.id \in Counts /\ e = EntryOf(e.id)
       /\ k \in {tx[e.id].from, tx[e.id].entity}
    \/ e.id = Test /\ "test" \in bad

LEMMA NewStep == New.step = "new" /\ New \notin TxRecord
  BY DEF New, TxRecord, Steps

(* A request that goes on keeps its payload; the others are left alone.    *)
Keeps(t) ==
  /\ tx'[t].from = tx[t].from /\ tx'[t].to = tx[t].to /\ tx'[t].amount = tx[t].amount
  /\ tx'[t].held = tx[t].held /\ tx'[t].at = tx[t].at /\ tx'[t].clock = tx[t].clock
  /\ tx'[t].entity = tx[t].entity /\ tx'[t].high = tx[t].high

LEMMA PassesOn ==
  ASSUME DetectTyped, NEW t \in Transfer, Underway(t), NEW step \in Steps,
         NEW flags \in SUBSET Pattern, NEW asked \in Nat, NEW seen \in SUBSET Transfer,
         Passes(t, step, flags, asked, seen)
  PROVE  /\ tx' \in [Transfer -> {New} \cup TxRecord]
         /\ tx'[t] \in TxRecord /\ tx'[t].step = step /\ tx'[t].asked = asked
         /\ tx'[t].seen = seen /\ tx'[t].flags = tx[t].flags \cup flags
         /\ Keeps(t)
         /\ \A u \in Transfer : u # t => tx'[u] = tx[u]
  BY DEF Passes, DetectTyped, TxRecord, Keeps

AmountOf == [t \in Transfer |-> tx[t].amount]
Summed ==
  \A S \in SUBSET Transfer : (\A t \in S : Underway(t)) =>
    Total(S) = SumOver(AmountOf, S) /\ IsFiniteSet(S) /\ \A t \in S : AmountOf[t] \in Nat

LEMMA AmountSums == DetectTyped => Summed
  <1> SUFFICES ASSUME DetectTyped, NEW S \in SUBSET Transfer, \A t \in S : Underway(t)
               PROVE  /\ Total(S) = SumOver(AmountOf, S) /\ IsFiniteSet(S)
                      /\ \A t \in S : AmountOf[t] \in Nat
    BY DEF Summed
  <1> DEFINE plain(F) == F = [s \in SUBSET S |->
               IF s = {} THEN 0
               ELSE LET x == CHOOSE x \in s : TRUE IN tx[x].amount + F[s \ {x}]]
  <1>1. IsFiniteSet(S) /\ \A t \in S : AmountOf[t] = tx[t].amount /\ AmountOf[t] \in Nat
    <2>1. \A t \in S : tx[t] \in TxRecord
      BY DEF DetectTyped
    <2>2. \A t \in S : tx[t].amount \in Nat
      BY <2>1 DEF TxRecord
    <2> QED
      BY <2>2, DetectionAssumption, FS_Subset DEF AmountOf
  <1>2. Total(S) = (CHOOSE F : plain(F))[S]
    BY DEF Total, MapThenSumSet, MapThenFoldSet
  <1>3. (CHOOSE F : plain(F)) = (CHOOSE F : Sums(F, S, AmountOf))
    <2>1. ASSUME NEW F PROVE plain(F) <=> Sums(F, S, AmountOf)
      <3>1. \A s \in SUBSET S : s # {} => (CHOOSE x \in s : TRUE) \in S
        OBVIOUS
      <3> QED
        BY <1>1, <3>1 DEF Sums
    <2> HIDE DEF plain
    <2> QED
      BY <2>1, Zenon
  <1> QED
    BY <1>1, <1>2, <1>3 DEF SumOver

LEMMA AmountSumsNext == DetectTyped' => Summed'
  BY AmountSums, PTL

(* The requests under way keep what they were asked.                       *)
Onward ==
  /\ \A t \in Transfer : Underway(t) =>
       Underway(t)' /\ Keeps(t) /\ tx[t].flags \subseteq tx'[t].flags
  /\ bad \subseteq bad' /\ stored \subseteq stored'
  /\ \A t \in Counts : t \in Counts'

LEMMA AddsTyped ==
  ASSUME DetectTyped, NEW keys, NEW clock \in Nat, NEW e \in SetEntry,
         window' = Adds(keys, clock, e)
  PROVE  /\ window' \in [SetKeys -> SUBSET SetEntry]
         /\ \A k \in SetKeys : IsFiniteSet(window'[k])
         /\ \A k \in SetKeys : window'[k] = IF k \in keys THEN Fresh(k, clock) \cup {e} ELSE window[k]
  <1>1. \A k \in SetKeys : window'[k] = IF k \in keys THEN Fresh(k, clock) \cup {e} ELSE window[k]
    BY DEF Adds, DetectTyped
  <1>2. \A k \in SetKeys : Fresh(k, clock) \subseteq window[k] /\ window[k] \in SUBSET SetEntry
                        /\ IsFiniteSet(window[k])
    BY DEF Fresh, DetectTyped
  <1>3. window' = [k \in SetKeys |-> window'[k]]
    BY DEF Adds, DetectTyped
  <1>4. ASSUME NEW k \in SetKeys
        PROVE  IsFiniteSet(window'[k]) /\ window'[k] \in SUBSET SetEntry
    <2>1. IsFiniteSet(Fresh(k, clock))
      BY <1>2, FS_Subset
    <2>2. IsFiniteSet(Fresh(k, clock) \cup {e})
      BY <2>1, FS_AddElement
    <2> QED
      BY <1>1, <1>2, <2>2
  <1> QED
    BY <1>1, <1>3, <1>4

(* A step of a request that is under way.                                  *)
LEMMA PassesWell ==
  ASSUME DetectTyped, NEW t \in Transfer, Underway(t), NEW step \in Steps, step # "redis",
         NEW flags \in SUBSET Pattern, NEW asked \in Nat, NEW seen \in SUBSET Transfer,
         \A u \in seen : Underway(u), bad \subseteq bad', bad' \subseteq Troubles,
         Passes(t, step, flags, asked, seen), now' = now,
         tx[t].step # "stored",
         stored' = (IF step = "stored" THEN stored \cup {t} ELSE stored),
         window' \in [SetKeys -> SUBSET SetEntry], \A k \in SetKeys : IsFiniteSet(window'[k])
  PROVE  DetectTyped' /\ Onward
  <1>1. /\ tx' \in [Transfer -> {New} \cup TxRecord]
        /\ tx'[t] \in TxRecord /\ tx'[t].step = step /\ tx'[t].asked = asked
        /\ tx'[t].seen = seen /\ tx'[t].flags = tx[t].flags \cup flags
        /\ Keeps(t)
        /\ \A u \in Transfer : u # t => tx'[u] = tx[u]
    BY PassesOn
  <1>2. \A u \in Transfer : Underway(u)' <=> Underway(u)
    BY <1>1 DEF Underway, Steps
  <1>3. \A u \in Transfer : Underway(u)' =>
          /\ tx'[u] \in TxRecord /\ tx'[u].from # tx'[u].to
          /\ tx'[u].entity = EntityOf[tx'[u].from]
               \/ (tx'[u].entity = tx'[u].from /\ "lookup" \in bad')
    BY <1>1, <1>2 DEF DetectTyped, Keeps
  <1>4. stored' = {u \in Transfer : tx'[u].step = "stored"}
    BY <1>1 DEF DetectTyped
  <1>5. \A u \in Transfer : Underway(u)' => \A v \in tx'[u].seen : Underway(v)'
    <2> TAKE u \in Transfer
    <2> HAVE Underway(u)'
    <2>1. CASE u = t
      BY <1>1, <1>2, <2>1
    <2>2. CASE u # t
      <3>1. tx'[u].seen = tx[u].seen /\ tx[u].seen \subseteq Transfer
        BY <1>1, <1>2, <2>2 DEF DetectTyped, TxRecord
      <3> QED
        BY <1>2, <3>1 DEF DetectTyped
    <2> QED
      BY <2>1, <2>2
  <1>6. DetectTyped'
    BY <1>1, <1>3, <1>4, <1>5 DEF DetectTyped, SetKeys
  <1>7. Onward
    BY <1>1, <1>2 DEF Onward, Keeps, Counts, Underway, Steps
  <1> QED
    BY <1>6, <1>7

LEMMA EntryTyped ==
  ASSUME DetectTyped, NEW t \in Transfer, Underway(t)
  PROVE  /\ [id |-> t, amount |-> tx[t].amount, score |-> tx[t].clock] \in SetEntry
         /\ tx[t].clock \in Nat /\ tx[t].amount \in Nat /\ t \in Nat /\ t # Test
         /\ tx[t].from \in SetKeys /\ tx[t].entity \in SetKeys
  <1>1. tx[t] \in TxRecord
    BY DEF DetectTyped
  <1>2. tx[t].clock \in Nat /\ tx[t].amount \in Nat /\ tx[t].from \in SetKeys /\ tx[t].entity \in SetKeys
    BY <1>1 DEF TxRecord, SetKeys
  <1> QED
    BY <1>2, DetectionAssumption DEF SetEntry, Test

LEMMA BeginMoves ==
  ASSUME DetectTyped, NEW t \in Transfer, NEW p \in Payment, Begin(t, p)
  PROVE  DetectTyped' /\ Onward
  <1>0. PICK known \in BOOLEAN, rated \in BOOLEAN :
          /\ tx' = [tx EXCEPT ![t] =
               [step |-> "redis", from |-> p.from, to |-> p.to, amount |-> p.amount,
                held |-> p.held, at |-> now - p.lag, clock |-> now, flags |-> {},
                asked |-> now, seen |-> {},
                entity |-> IF known THEN EntityOf[p.from] ELSE p.from,
                high |-> rated /\ p.from \in HighTier]]
          /\ Troubled({w \in {"lookup"} : ~known}
                      \cup {w \in {"baseline"} : ~rated /\ p.from \in HighTier})
    BY DEF Begin
  <1>2. UNCHANGED <<now, window, stored>> /\ tx[t] = New
    BY DEF Begin
  <1>3. /\ p.from \in Account /\ p.to \in Account /\ p.from # p.to /\ p.held \in BOOLEAN
        /\ p.amount \in Nat /\ p.lag \in Nat /\ EntityOf[p.from] \in Entities
    BY DetectionAssumption DEF Entities
  <1>4. bad \subseteq bad' /\ bad' \subseteq Troubles /\ (known \/ "lookup" \in bad')
    BY <1>0 DEF DetectTyped, Troubled, Troubles
  <1>5. now \in Nat /\ now - p.lag \in Int
    BY <1>3 DEF DetectTyped
  <1>6. /\ tx' \in [Transfer -> {New} \cup TxRecord] /\ tx'[t] \in TxRecord
        /\ \A u \in Transfer : u # t => tx'[u] = tx[u]
        /\ tx'[t].step = "redis" /\ tx'[t].seen = {} /\ tx'[t].from # tx'[t].to
        /\ tx'[t].flags = {}
        /\ tx'[t].entity = EntityOf[tx'[t].from] \/ (tx'[t].entity = tx'[t].from /\ ~known)
    <2>1. /\ \A u \in Transfer : u # t => tx'[u] = tx[u]
          /\ tx'[t] = [step |-> "redis", from |-> p.from, to |-> p.to, amount |-> p.amount,
                held |-> p.held, at |-> now - p.lag, clock |-> now, flags |-> {},
                asked |-> now, seen |-> {},
                entity |-> IF known THEN EntityOf[p.from] ELSE p.from,
                high |-> rated /\ p.from \in HighTier]
          /\ tx' = [u \in Transfer |-> tx'[u]]
      BY <1>0 DEF DetectTyped
    <2>2. tx'[t] \in TxRecord
      BY <1>3, <1>5, <2>1 DEF TxRecord, Steps
    <2>3. tx' \in [Transfer -> {New} \cup TxRecord]
      BY <2>1, <2>2 DEF DetectTyped
    <2>4. /\ tx'[t].step = "redis" /\ tx'[t].seen = {} /\ tx'[t].from = p.from /\ tx'[t].flags = {}
          /\ tx'[t].to = p.to /\ tx'[t].entity = IF known THEN EntityOf[p.from] ELSE p.from
      BY <2>1
    <2> QED
      BY <1>3, <2>1, <2>2, <2>3, <2>4
  <1>7. ~Underway(t) /\ \A u \in Transfer : Underway(u) => u # t /\ Underway(u)'
    BY <1>2, <1>6, NewStep DEF Underway
  <1>8. stored' = {u \in Transfer : tx'[u].step = "stored"}
    BY <1>2, <1>6, <1>7, NewStep DEF DetectTyped, Underway
  <1>9. \A u \in Transfer : Underway(u)' => \A v \in tx'[u].seen : Underway(v)'
    <2> TAKE u \in Transfer
    <2> HAVE Underway(u)'
    <2>1. CASE u = t
      BY <1>6, <2>1
    <2>2. CASE u # t
      <3>1. tx'[u].seen = tx[u].seen /\ tx[u].seen \subseteq Transfer /\ Underway(u)
        BY <1>6, <2>2 DEF DetectTyped, TxRecord, Underway
      <3> QED
        BY <1>7, <3>1 DEF DetectTyped
    <2> QED
      BY <2>1, <2>2
  <1>10. \A u \in Transfer : Underway(u)' =>
          /\ tx'[u] \in TxRecord /\ tx'[u].from # tx'[u].to
          /\ tx'[u].entity = EntityOf[tx'[u].from]
               \/ (tx'[u].entity = tx'[u].from /\ "lookup" \in bad')
    BY <1>4, <1>6 DEF DetectTyped, Underway
  <1>11. DetectTyped'
    BY <1>2, <1>4, <1>6, <1>8, <1>9, <1>10 DEF DetectTyped, SetKeys
  <1>12. Onward
    BY <1>2, <1>4, <1>6, <1>7 DEF Onward, Keeps, Underway, Counts
  <1> QED
    BY <1>11, <1>12

LEMMA RestMoves ==
  ASSUME DetectTyped, UNCHANGED <<tx, stored>>, now' \in Nat, bad \subseteq bad', bad' \subseteq Troubles,
         window' \in [SetKeys -> SUBSET SetEntry], \A k \in SetKeys : IsFiniteSet(window'[k])
  PROVE  DetectTyped' /\ Onward
  <1>1. DetectTyped'
    BY DEF DetectTyped, Underway, SetKeys
  <1>2. Onward
    BY DEF Onward, Keeps, Underway, Counts
  <1> QED
    BY <1>1, <1>2

LEMMA DetectMoves ==
  ASSUME DetectTyped, [DetectNext]_detectVars
  PROVE  DetectTyped' /\ Onward
  <1>0. now \in Nat /\ bad \subseteq Troubles /\ window \in [SetKeys -> SUBSET SetEntry]
        /\ (\A k \in SetKeys : IsFiniteSet(window[k]))
        /\ stored \subseteq Transfer
    BY DEF DetectTyped
  <1>1. CASE Clock
    <2>1. now' \in Nat /\ UNCHANGED <<tx, window, stored, bad>>
      BY <1>0, <1>1 DEF Clock
    <2> QED
      BY <1>0, <2>1, RestMoves
  <1>2. ASSUME NEW p \in Payment, Simulate(p.from, p.amount)
        PROVE  DetectTyped' /\ Onward
    <2>1. /\ window' = Adds({p.from, EntityOf[p.from]}, now,
                            [id |-> Test, amount |-> p.amount, score |-> now])
          /\ UNCHANGED <<now, tx, stored>> /\ Bad("test")
      BY <1>2 DEF Simulate
    <2>2. [id |-> Test, amount |-> p.amount, score |-> now] \in SetEntry
      BY <1>0, DetectionAssumption DEF SetEntry, Test
    <2>3. window' \in [SetKeys -> SUBSET SetEntry] /\ \A k \in SetKeys : IsFiniteSet(window'[k])
      BY <1>0, <2>1, <2>2, AddsTyped
    <2> QED
      <3>1. bad \subseteq bad' /\ bad' \subseteq Troubles
        BY <1>0, <2>1 DEF Bad, Troubled, Troubles
      <3> QED
        BY <1>0, <2>1, <2>3, <3>1, RestMoves
  <1>3. ASSUME NEW t \in Transfer, NEW p \in Payment, Begin(t, p)
        PROVE  DetectTyped' /\ Onward
    BY <1>3, BeginMoves
  <1>4. ASSUME NEW t \in Transfer, StructuringCheck(t) \/ StructuringError(t)
        PROVE  DetectTyped' /\ Onward
    <2>1. tx[t].step = "redis" /\ UNCHANGED <<now, stored>> /\ Underway(t)
      BY <1>4 DEF StructuringCheck, StructuringError, Underway
    <2>2. bad \subseteq bad' /\ bad' \subseteq Troubles
      BY <1>0, <1>4 DEF StructuringCheck, StructuringError, Bad, Troubled, Troubles
    <2>3. PICK flags \in SUBSET Pattern : Passes(t, "table", flags, tx[t].asked, tx[t].seen)
      <3>1. {"STRUCTURING_VELOCITY_24H"} \in SUBSET Pattern /\ {} \in SUBSET Pattern
        BY DEF Pattern
      <3>2. CASE StructuringCheck(t)
        BY <3>1, <3>2, Zenon DEF StructuringCheck, Evaluated
      <3>3. CASE StructuringError(t)
        BY <3>1, <3>3, Zenon DEF StructuringError, Evaluated
      <3> QED
        BY <1>4, <3>2, <3>3
    <2>4. tx[t].asked \in Nat /\ tx[t].seen \in SUBSET Transfer /\ \A u \in tx[t].seen : Underway(u)
      BY <2>1 DEF DetectTyped, TxRecord
    <2>5. window' \in [SetKeys -> SUBSET SetEntry] /\ \A k \in SetKeys : IsFiniteSet(window'[k])
      <3>1. CASE UNCHANGED window
        BY <1>0, <3>1
      <3>2. CASE window' = Adds({tx[t].from, tx[t].entity}, tx[t].clock,
                       [id |-> t, amount |-> tx[t].amount, score |-> tx[t].clock])
        BY <2>1, <3>2, AddsTyped, EntryTyped
      <3> QED
        BY <1>4, <3>1, <3>2 DEF StructuringCheck, StructuringError
    <2> QED
      BY <2>1, <2>2, <2>3, <2>4, <2>5, PassesWell DEF Steps
  <1>5. ASSUME NEW t \in Transfer, TableCheck(t)
        PROVE  DetectTyped' /\ Onward
    <2>1. tx[t].step = "table" /\ UNCHANGED <<now, window, stored, bad>> /\ Underway(t)
      BY <1>5 DEF TableCheck, Underway
    <2>2. PICK flags \in SUBSET Pattern : Passes(t, "store", flags, now, stored)
      <3> DEFINE all ==
            {r \in {"STRUCTURING_EXTENDED_7D"} : _check_structuring_extended_7d(t)} \cup
            {r \in {"ROUND_TRIP_DETECTION"} : _check_round_trip(t)} \cup
            {r \in {"RAPID_MOVEMENT_FUNDS"} : _check_rapid_movement_funds(t)} \cup
            {r \in {"CONDUIT_RAPID_PASSTHROUGH"} : _check_conduit_passthrough(t)}
      <3>1. all \in SUBSET Pattern
        BY DEF Pattern
      <3>2. Passes(t, "store", all, now, stored)
        BY <1>5 DEF TableCheck
      <3> QED
        BY <3>1, <3>2, Zenon
    <2>3. \A u \in stored : Underway(u)
      BY DEF DetectTyped, Underway
    <2> QED
      BY <1>0, <2>1, <2>2, <2>3, PassesWell DEF Steps
  <1>6. ASSUME NEW t \in Transfer, TableError(t) \/ Store(t) \/ Refuse(t)
        PROVE  DetectTyped' /\ Onward
    <2>1. PICK step \in {"store", "stored", "refused"} :
            /\ Passes(t, step, {}, tx[t].asked, tx[t].seen)
            /\ stored' = (IF step = "stored" THEN stored \cup {t} ELSE stored)
      BY <1>6 DEF TableError, Store, Refuse, Goes
    <2>2. /\ tx[t].step \in {"table", "store"} /\ Underway(t) /\ UNCHANGED <<now, window>>
          /\ bad \subseteq bad' /\ bad' \subseteq Troubles
      BY <1>0, <1>6 DEF TableError, Store, Refuse, Underway, Bad, Troubled, Troubles
    <2>3. tx[t].asked \in Nat /\ tx[t].seen \in SUBSET Transfer /\ \A u \in tx[t].seen : Underway(u)
      BY <2>2 DEF DetectTyped, TxRecord
    <2>4. {} \in SUBSET Pattern /\ step \in Steps
      BY DEF Steps
    <2> QED
      BY <1>0, <2>1, <2>2, <2>3, <2>4, PassesWell
  <1>7. CASE UNCHANGED detectVars
    <2>1. UNCHANGED <<now, tx, window, stored, bad>>
      BY <1>7 DEF detectVars
    <2> QED
      BY <1>0, <2>1, RestMoves
  <1> QED
    BY <1>1, <1>2, <1>3, <1>4, <1>5, <1>6, <1>7 DEF DetectNext
-----------------------------------------------------------------------------
(* What a request was asked and who owns its accounts stays; so does what  *)
(* is said of sets of requests.                                            *)
LEMMA SumStays ==
  ASSUME DetectTyped, DetectTyped', Onward, NEW S \in SUBSET Transfer, \A t \in S : Underway(t)
  PROVE  Total(S)' = Total(S) /\ Total(S) \in Nat /\ IsFiniteSet(S)
  <1>1. \A t \in S : Underway(t)' /\ tx'[t].amount = tx[t].amount
    BY DEF Onward, Keeps
  <1>2. Total(S) = SumOver(AmountOf, S) /\ IsFiniteSet(S) /\ \A t \in S : AmountOf[t] \in Nat
    BY AmountSums DEF Summed
  <1>3. Total(S)' = SumOver(AmountOf', S)
    BY <1>1, AmountSumsNext DEF Summed
  <1>4. \A t \in S : AmountOf'[t] = AmountOf[t]
    BY <1>1 DEF AmountOf
  <1> HIDE DEF Total, AmountOf
  <1>5. SumOver(AmountOf, S) = SumOver(AmountOf', S) /\ SumOver(AmountOf, S) \in Nat
    BY <1>2, <1>4, SumSame, SumParts
  <1> QED
    BY <1>2, <1>3, <1>5

(* The figures a request is judged by.                                     *)
LEMMA Figures ==
  ASSUME DetectTyped, NEW t \in Transfer, Underway(t)
  PROVE  /\ tx[t] \in TxRecord /\ tx[t].amount \in Nat /\ tx[t].at \in Int /\ tx[t].asked \in Nat
         /\ tx[t].seen \subseteq Transfer /\ tx[t].clock \in Nat
         /\ tx[t].from \in Account /\ tx[t].to \in Account /\ tx[t].from # tx[t].to
         /\ tx[t].flags \subseteq Pattern
  <1>1. tx[t] \in TxRecord /\ tx[t].from # tx[t].to
    BY DEF DetectTyped
  <1> QED
    BY <1>1 DEF TxRecord

LEMMA WeekStays ==
  ASSUME DetectTyped, DetectTyped', Onward, NEW S \in SUBSET Transfer, \A t \in S : Underway(t)
  PROVE  WeekOfSubAmounts(S)' <=> WeekOfSubAmounts(S)
  <1>1. \A t \in S : Keeps(t)
    BY DEF Onward
  <1>2. SameOwner(S)' <=> SameOwner(S)
    BY <1>1 DEF SameOwner, Keeps
  <1>3. ASSUME NEW t \in S, NEW u \in S
        PROVE  (Sub(t, u)' <=> Sub(t, u)) /\ Apart(t, u)' = Apart(t, u)
    BY <1>1 DEF Sub, Half, Apart, Keeps
  <1>4. \A t \in S : Half(t, threshold)' = Half(t, threshold)
    BY <1>1 DEF Half, Keeps, threshold
  <1>5. Total(S)' = Total(S)
    BY SumStays
  <1>6. \A t \in S : Recognised(t)' <=> Recognised(t)
    BY <1>1 DEF Recognised, Keeps
  <1> HIDE DEF Total, Half, Sub, Apart, SameOwner, Recognised
  <1> QED
    BY <1>2, <1>3, <1>4, <1>5, <1>6 DEF WeekOfSubAmounts

(* PassedOn, with the set of credits named.                                *)
PassedCredits(t) ==
  \E C \in SUBSET Transfer :
    /\ C = {u \in tx[t].seen : /\ tx[u].to = tx[t].from /\ ~tx[u].held
                               /\ tx[u].at >= tx[t].asked - Minutes}
    /\ C # {} /\ 10 * tx[t].amount >= 9 * Total(C)
    /\ \A u \in C : tx[t].at - tx[u].at <= Minutes
CreditsNamed == \A t \in Transfer : Underway(t) => (PassedOn(t) <=> PassedCredits(t))

LEMMA NamedCredits == DetectTyped => CreditsNamed
  <1> SUFFICES ASSUME DetectTyped, NEW t \in Transfer, Underway(t)
               PROVE  PassedOn(t) <=> PassedCredits(t)
    BY DEF CreditsNamed
  <1>1. tx[t].seen \subseteq Transfer
    BY Figures
  <1> HIDE DEF Total
  <1> QED
    BY <1>1 DEF PassedOn, PassedCredits

LEMMA NamedCreditsNext == DetectTyped' => CreditsNamed'
  BY NamedCredits, PTL
-----------------------------------------------------------------------------
(* What a request that has looked at the table has found in the rows it    *)
(* saw.                                                                    *)
Judged(t) == tx[t].step \in {"store", "stored", "refused"}

CaughtWeek(t) ==
  \A R \in SUBSET tx[t].seen :
    WeekOfSubAmounts(R \cup {t}) /\ (\A u \in R : tx[u].at < tx[t].at) =>
      "STRUCTURING_EXTENDED_7D" \in tx[t].flags
CaughtTrip(t) ==
  \A u \in tx[t].seen : Returned(t, u) => "ROUND_TRIP_DETECTION" \in tx[t].flags
CaughtRapid(t) == PassedOn(t) => "RAPID_MOVEMENT_FUNDS" \in tx[t].flags

(* No request sees itself; where no query failed, each has found what      *)
(* there was to find.                                                      *)
RowsJudged ==
  \A t \in Transfer : Underway(t) =>
    /\ t \notin tx[t].seen
    /\ "sql" \notin bad /\ Judged(t) => CaughtWeek(t) /\ CaughtTrip(t) /\ CaughtRapid(t)

(* The three rules on the rows that are there.                             *)
LEMMA WeekCaught ==
  ASSUME DetectTyped, NEW t \in Transfer, Underway(t), t \notin stored,
         NEW R \in SUBSET stored, WeekOfSubAmounts(R \cup {t}),
         \A u \in R : tx[u].at < tx[t].at
  PROVE  _check_structuring_extended_7d(t)
  <1> DEFINE S == {u \in Prior(t, Week) : tx[u].from \in Siblings(t) /\ Sub(t, u)}
  <1>1. stored \subseteq Transfer /\ \A u \in stored : Underway(u)
    BY DEF DetectTyped, Underway
  <1>2. \A u \in stored : tx[u].at \in Int /\ tx[u].amount \in Nat
    BY <1>1, Figures
  <1>3. tx[t].at \in Int /\ tx[t].amount \in Nat /\ Week \in Nat
    BY Figures, DetectionAssumption
  <1>4. Sub(t, t) /\ \A u \in R : Sub(t, u) /\ Apart(t, u) <= Week
    BY DEF WeekOfSubAmounts
  <1>5. R \subseteq S
    <2> SUFFICES ASSUME NEW u \in R PROVE u \in S
      OBVIOUS
    <2>1. u \in Prior(t, Week)
      BY <1>2, <1>3, <1>4 DEF Prior, Apart
    <2>2. tx[u].from \in Siblings(t)
      <3>1. EntityOf[tx[u].from] = EntityOf[tx[t].from] /\ tx[t].entity = EntityOf[tx[t].from]
        BY DEF WeekOfSubAmounts, SameOwner, Recognised
      <3>2. tx[u].from \in Account
        BY <1>1, Figures
      <3> QED
        BY <3>1, <3>2 DEF Siblings
    <2> QED
      BY <1>4, <2>1, <2>2
  <1>6. S \subseteq stored /\ S \in SUBSET Transfer /\ \A u \in S : Underway(u)
    BY <1>1 DEF Prior
  <1>7. /\ Total(S) = SumOver(AmountOf, S) /\ Total(R) = SumOver(AmountOf, R)
        /\ IsFiniteSet(S) /\ IsFiniteSet(R)
        /\ \A u \in S : AmountOf[u] \in Nat
    BY <1>5, <1>6, AmountSums DEF Summed
  <1>8. Total(R \cup {t}) = SumOver(AmountOf, R \cup {t}) /\ IsFiniteSet(R \cup {t})
        /\ \A u \in R \cup {t} : AmountOf[u] \in Nat
    <2>1. R \cup {t} \in SUBSET Transfer /\ \A u \in R \cup {t} : Underway(u)
      BY <1>1
    <2> QED
      BY <2>1, AmountSums DEF Summed
  <1>9. AmountOf[t] = tx[t].amount /\ t \notin R /\ (R \cup {t}) \ {t} = R
    BY DEF AmountOf
  <1>10. Cardinality(R \cup {t}) = Cardinality(R) + 1 /\ Cardinality(R) <= Cardinality(S)
         /\ Cardinality(S) \in Nat /\ Cardinality(R) \in Nat
    <2> HIDE DEF S
    <2> QED
      BY <1>5, <1>7, <1>9, FS_AddElement, FS_Subset, FS_CardinalityType
  <1> HIDE DEF S, AmountOf, Total
  <1>11. Total(R \cup {t}) = tx[t].amount + Total(R) /\ Total(R) <= Total(S)
         /\ Total(R) \in Nat /\ Total(S) \in Nat
    <2>1. SumOver(AmountOf, R \cup {t}) = AmountOf[t] + SumOver(AmountOf, (R \cup {t}) \ {t})
      <3>1. PICK Q : Q = R \cup {t}
        OBVIOUS
      <3>2. t \in Q
        BY <3>1
      <3>3. SumOver(AmountOf, Q) = AmountOf[t] + SumOver(AmountOf, Q \ {t})
        BY <1>8, <3>1, <3>2, SumParts
      <3> QED
        BY <3>1, <3>3
    <2>2. SumOver(AmountOf, R) <= SumOver(AmountOf, S)
      BY <1>5, <1>7, SumMonotone
    <2>3. SumOver(AmountOf, R) \in Nat /\ SumOver(AmountOf, S) \in Nat
      BY <1>5, <1>7, SumParts
    <2> QED
      BY <1>7, <1>8, <1>9, <2>1, <2>2, <2>3
  <1>12. Cardinality(R \cup {t}) >= min_count /\ Total(R \cup {t}) >= Half(t, threshold)
    BY DEF WeekOfSubAmounts
  <1>13. Cardinality(S) + 1 >= min_count /\ Total(S) + tx[t].amount >= Half(t, threshold)
    <2>1. Half(t, threshold) \in Int
      BY DEF Half, threshold
    <2> HIDE DEF Half
    <2> QED
      BY <1>3, <1>10, <1>11, <1>12, <2>1 DEF min_count
  <1> QED
    BY <1>4, <1>13 DEF _check_structuring_extended_7d, S

LEMMA TripCaught ==
  ASSUME DetectTyped, NEW t \in Transfer, Underway(t), NEW u \in stored, Returned(t, u)
  PROVE  _check_round_trip(t)
  <1>1. u \in Transfer /\ Underway(u)
    BY DEF DetectTyped, Underway
  <1>2. tx[u].at \in Int /\ tx[u].amount \in Nat /\ tx[t].at \in Int /\ tx[t].amount \in Nat
        /\ Loop \in Nat
    BY <1>1, Figures, DetectionAssumption
  <1>3. tx[u].at >= tx[t].at - Loop
    BY <1>2 DEF Returned, Apart
  <1>4. tx[u].from = tx[t].to /\ tx[u].to = tx[t].from /\ tx[u].amount = tx[t].amount
    BY DEF Returned
  <1> QED
    BY <1>2, <1>3, <1>4 DEF _check_round_trip

LEMMA RapidCaught ==
  ASSUME DetectTyped, NEW t \in Transfer, Underway(t), NEW C,
         C = {u \in stored : tx[u].to = tx[t].from /\ ~tx[u].held /\ tx[u].at >= now - Minutes},
         C # {}, 10 * tx[t].amount >= 9 * Total(C),
         \A u \in C : tx[t].at - tx[u].at <= Minutes
  PROVE  _check_rapid_movement_funds(t)
  <1>1. C \in SUBSET Transfer /\ \A u \in C : Underway(u)
    BY DEF DetectTyped, Underway
  <1>2. \A u \in C : tx[u].at \in Int /\ tx[u].amount \in Nat
    BY <1>1, Figures
  <1>3. Total(C) = SumOver(AmountOf, C) /\ IsFiniteSet(C) /\ \A u \in C : AmountOf[u] \in Nat
    BY <1>1, AmountSums DEF Summed
  <1>4. PICK u \in C : \A v \in C : tx[v].at <= tx[u].at
    <2> DEFINE h == [v \in C |-> tx[v].at]
    <2>1. \A v \in C : h[v] \in Int
      BY <1>2
    <2>2. PICK u \in C : \A v \in C : h[v] <= h[u]
      <3> HIDE DEF h
      <3> QED
        BY <1>3, <2>1, Largest
    <2> QED
      BY <2>2
  <1>5. AmountOf[u] = tx[u].amount
    BY <1>1 DEF AmountOf
  <1> HIDE DEF Total, AmountOf
  <1>6. Total(C) >= tx[u].amount /\ Total(C) \in Nat
    <2>1. /\ SumOver(AmountOf, C) = AmountOf[u] + SumOver(AmountOf, C \ {u})
          /\ SumOver(AmountOf, C) \in Nat
      BY <1>3, SumParts
    <2>2. SumOver(AmountOf, C \ {u}) \in Nat
      <3>1. IsFiniteSet(C \ {u}) /\ \A v \in C \ {u} : AmountOf[v] \in Nat
        BY <1>3, FS_Subset
      <3> QED
        BY <3>1, SumParts
    <2> QED
      BY <1>2, <1>3, <1>5, <2>1, <2>2
  <1>7. 10 * tx[t].amount >= 9 * tx[u].amount
    <2>1. tx[t].amount \in Nat /\ tx[u].amount \in Nat
      BY <1>2, Figures
    <2> QED
      BY <1>6, <2>1
  <1> QED
    BY <1>4, <1>7 DEF _check_rapid_movement_funds
-----------------------------------------------------------------------------
(* What was found stays true of the rows that were seen.                   *)
LEMMA JudgedStays ==
  ASSUME DetectTyped, DetectTyped', Onward, NEW t \in Transfer, Underway(t),
         tx'[t].seen = tx[t].seen, tx'[t].asked = tx[t].asked,
         CaughtWeek(t) /\ CaughtTrip(t) /\ CaughtRapid(t)
  PROVE  CaughtWeek(t)' /\ CaughtTrip(t)' /\ CaughtRapid(t)'
  <1>1. tx[t].flags \subseteq tx'[t].flags /\ Keeps(t) /\ tx[t].seen \subseteq Transfer
    BY Figures DEF Onward
  <1>2. \A u \in tx[t].seen : Underway(u) /\ Keeps(u)
    BY <1>1 DEF Onward, DetectTyped
  <1>3. CaughtWeek(t)'
    <2> SUFFICES ASSUME NEW R \in SUBSET tx[t].seen, WeekOfSubAmounts(R \cup {t})',
                        \A u \in R : tx'[u].at < tx'[t].at
                 PROVE  "STRUCTURING_EXTENDED_7D" \in tx'[t].flags
      BY DEF CaughtWeek
    <2>1. R \cup {t} \in SUBSET Transfer /\ \A u \in R \cup {t} : Underway(u)
      BY <1>1, <1>2
    <2>2. WeekOfSubAmounts(R \cup {t})
      BY <2>1, WeekStays
    <2>3. \A u \in R : tx[u].at < tx[t].at
      BY <1>1, <1>2 DEF Keeps
    <2> QED
      BY <1>1, <2>2, <2>3 DEF CaughtWeek
  <1>4. CaughtTrip(t)'
    <2>1. \A u \in tx[t].seen : Returned(t, u)' => Returned(t, u)
      BY <1>1, <1>2 DEF Returned, Apart, Keeps
    <2> QED
      BY <1>1, <2>1 DEF CaughtTrip
  <1>5. CaughtRapid(t)'
    <2> SUFFICES ASSUME PassedOn(t)' PROVE PassedOn(t)
      BY <1>1 DEF CaughtRapid
    <2>1. PassedCredits(t)'
      BY <1>1, NamedCreditsNext DEF CreditsNamed, Onward
    <2>2. PICK C \in SUBSET Transfer :
            /\ C = {u \in tx'[t].seen : /\ tx'[u].to = tx'[t].from /\ ~tx'[u].held
                                        /\ tx'[u].at >= tx'[t].asked - Minutes}
            /\ C # {} /\ 10 * tx'[t].amount >= 9 * Total(C)'
            /\ \A u \in C : tx'[t].at - tx'[u].at <= Minutes
      BY <2>1 DEF PassedCredits
    <2>3. C = {u \in tx[t].seen : /\ tx[u].to = tx[t].from /\ ~tx[u].held
                                  /\ tx[u].at >= tx[t].asked - Minutes}
      BY <1>1, <1>2, <2>2 DEF Keeps
    <2>4. \A u \in C : Underway(u) /\ Keeps(u)
      BY <1>2, <2>3
    <2>5. Total(C)' = Total(C)
      BY <2>4, SumStays
    <2>6. 10 * tx[t].amount >= 9 * Total(C) /\ \A u \in C : tx[t].at - tx[u].at <= Minutes
      BY <1>1, <2>2, <2>4, <2>5 DEF Keeps
    <2>7. PassedCredits(t)
      BY <2>2, <2>3, <2>6 DEF PassedCredits
    <2> QED
      BY <2>7, NamedCredits DEF CreditsNamed
  <1> QED
    BY <1>3, <1>4, <1>5

LEMMA TableJudges ==
  ASSUME DetectTyped, DetectTyped', Onward, NEW t \in Transfer, TableCheck(t)
  PROVE  CaughtWeek(t)' /\ CaughtTrip(t)' /\ CaughtRapid(t)' /\ t \notin tx'[t].seen
  <1>1. tx[t].step = "table" /\ Underway(t) /\ t \notin stored
    BY DEF TableCheck, DetectTyped, Underway
  <1> DEFINE all ==
            {r \in {"STRUCTURING_EXTENDED_7D"} : _check_structuring_extended_7d(t)} \cup
            {r \in {"ROUND_TRIP_DETECTION"} : _check_round_trip(t)} \cup
            {r \in {"RAPID_MOVEMENT_FUNDS"} : _check_rapid_movement_funds(t)} \cup
            {r \in {"CONDUIT_RAPID_PASSTHROUGH"} : _check_conduit_passthrough(t)}
  <1>2. /\ tx'[t].seen = stored /\ tx'[t].asked = now /\ tx'[t].flags = tx[t].flags \cup all
        /\ Keeps(t) /\ stored \subseteq Transfer
    <2>1. Passes(t, "store", all, now, stored)
      BY DEF TableCheck
    <2>2. all \in SUBSET Pattern
      BY DEF Pattern
    <2>3. now \in Nat /\ stored \in SUBSET Transfer /\ "store" \in Steps
      BY DEF DetectTyped, Steps
    <2>4. PICK flags, step : flags = all /\ step = "store"
      BY Zenon
    <2> HIDE DEF all
    <2>5. Passes(t, step, flags, now, stored) /\ flags \in SUBSET Pattern /\ step \in Steps
      BY <2>1, <2>2, <2>3, <2>4
    <2>6. /\ tx'[t].seen = stored /\ tx'[t].asked = now /\ tx'[t].flags = tx[t].flags \cup flags
          /\ Keeps(t)
      BY <1>1, <2>3, <2>5, PassesOn
    <2> QED
      BY <2>3, <2>4, <2>6
  <1>3. \A u \in stored : Underway(u) /\ Keeps(u) /\ u \in Transfer
    BY <1>2 DEF Onward, DetectTyped, Underway
  <1>4. CaughtWeek(t)'
    <2> SUFFICES ASSUME NEW R \in SUBSET stored, WeekOfSubAmounts(R \cup {t})',
                        \A u \in R : tx'[u].at < tx'[t].at
                 PROVE  "STRUCTURING_EXTENDED_7D" \in tx'[t].flags
      BY <1>2 DEF CaughtWeek
    <2>1. R \cup {t} \in SUBSET Transfer /\ \A u \in R \cup {t} : Underway(u)
      BY <1>1, <1>3
    <2>2. WeekOfSubAmounts(R \cup {t})
      BY <2>1, WeekStays
    <2>3. \A u \in R : tx[u].at < tx[t].at
      BY <1>2, <1>3 DEF Keeps
    <2>4. _check_structuring_extended_7d(t)
      BY <1>1, <2>2, <2>3, WeekCaught
    <2>5. "STRUCTURING_EXTENDED_7D" \in all
      BY <2>4
    <2> QED
      BY <1>2, <2>5
  <1>5. CaughtTrip(t)'
    <2> SUFFICES ASSUME NEW u \in stored, Returned(t, u)'
                 PROVE  "ROUND_TRIP_DETECTION" \in tx'[t].flags
      BY <1>2 DEF CaughtTrip
    <2>1. Returned(t, u)
      BY <1>2, <1>3 DEF Returned, Apart, Keeps
    <2>2. "ROUND_TRIP_DETECTION" \in all
      BY <1>1, <2>1, TripCaught
    <2> QED
      BY <1>2, <2>2
  <1>6. CaughtRapid(t)'
    <2> SUFFICES ASSUME PassedOn(t)'
                 PROVE  "RAPID_MOVEMENT_FUNDS" \in tx'[t].flags
      BY DEF CaughtRapid
    <2>1. PassedCredits(t)'
      BY <1>1, NamedCreditsNext DEF CreditsNamed, Onward
    <2>2. PICK C \in SUBSET Transfer :
            /\ C = {u \in tx'[t].seen : /\ tx'[u].to = tx'[t].from /\ ~tx'[u].held
                                        /\ tx'[u].at >= tx'[t].asked - Minutes}
            /\ C # {} /\ 10 * tx'[t].amount >= 9 * Total(C)'
            /\ \A u \in C : tx'[t].at - tx'[u].at <= Minutes
      BY <2>1 DEF PassedCredits
    <2>3. C = {u \in stored : tx[u].to = tx[t].from /\ ~tx[u].held /\ tx[u].at >= now - Minutes}
      BY <1>2, <1>3, <2>2 DEF Keeps
    <2>4. \A u \in C : Underway(u) /\ Keeps(u)
      BY <1>3, <2>3
    <2>5. Total(C)' = Total(C)
      BY <2>4, SumStays
    <2>6. C # {} /\ 10 * tx[t].amount >= 9 * Total(C) /\ \A u \in C : tx[t].at - tx[u].at <= Minutes
      BY <1>2, <2>2, <2>4, <2>5 DEF Keeps
    <2> HIDE DEF Total
    <2>8. _check_rapid_movement_funds(t)
      BY <1>1, <2>3, <2>6, RapidCaught
    <2>7. "RAPID_MOVEMENT_FUNDS" \in all
      BY <2>8
    <2> QED
      BY <1>2, <2>7
  <1> QED
    BY <1>1, <1>2, <1>4, <1>5, <1>6

(* Nothing but the look at the table changes what was seen and when.       *)
LEMMA SeenStays ==
  ASSUME DetectTyped, [DetectNext]_detectVars, NEW t \in Transfer, Underway(t)
  PROVE  \/ TableCheck(t)
         \/ /\ tx'[t].seen = tx[t].seen /\ tx'[t].asked = tx[t].asked
            /\ "sql" \in bad' \/ (Judged(t)' => Judged(t))
  <1> DEFINE Same == /\ tx'[t].seen = tx[t].seen /\ tx'[t].asked = tx[t].asked
                     /\ "sql" \in bad' \/ (Judged(t)' => Judged(t))
  <1>0. tx[t].asked \in Nat /\ tx[t].seen \in SUBSET Transfer
    BY Figures
  <1>1. ASSUME UNCHANGED tx PROVE Same
    BY <1>1 DEF Judged
  <1>2. ASSUME NEW u \in Transfer, NEW p \in Payment, Begin(u, p)
        PROVE  Same
    <2>1. u # t /\ tx'[t] = tx[t]
      BY <1>2, NewStep DEF Begin, Underway, DetectTyped
    <2> QED
      BY <2>1 DEF Judged
  <1>3. ASSUME NEW u \in Transfer, StructuringCheck(u) \/ StructuringError(u)
        PROVE  Same
    <2>1. tx[u].step = "redis" /\ Underway(u)
      BY <1>3 DEF StructuringCheck, StructuringError, Underway
    <2>2. PICK flags \in SUBSET Pattern : Passes(u, "table", flags, tx[u].asked, tx[u].seen)
      <3>1. {"STRUCTURING_VELOCITY_24H"} \in SUBSET Pattern /\ {} \in SUBSET Pattern
        BY DEF Pattern
      <3>2. CASE StructuringCheck(u)
        BY <3>1, <3>2, Zenon DEF StructuringCheck, Evaluated
      <3>3. CASE StructuringError(u)
        BY <3>1, <3>3, Zenon DEF StructuringError, Evaluated
      <3> QED
        BY <1>3, <3>2, <3>3
    <2>3. tx[u].asked \in Nat /\ tx[u].seen \in SUBSET Transfer
      BY <2>1, Figures
    <2>4. /\ tx'[u].step = "table" /\ tx'[u].asked = tx[u].asked /\ tx'[u].seen = tx[u].seen
          /\ \A w \in Transfer : w # u => tx'[w] = tx[w]
      BY <2>1, <2>2, <2>3, PassesOn DEF Steps
    <2> QED
      BY <2>4 DEF Judged
  <1>4. ASSUME NEW u \in Transfer, u # t, TableCheck(u)
        PROVE  Same
    <2>1. tx'[t] = tx[t]
      BY <1>4 DEF TableCheck, Passes, DetectTyped
    <2> QED
      BY <2>1 DEF Judged
  <1>5. ASSUME NEW u \in Transfer, TableError(u) \/ Store(u) \/ Refuse(u)
        PROVE  Same
    <2>1. PICK step \in {"store", "stored", "refused"} :
            Passes(u, step, {}, tx[u].asked, tx[u].seen)
      BY <1>5 DEF TableError, Store, Refuse, Goes
    <2>2. tx[u].step \in {"table", "store"} /\ Underway(u)
          /\ (tx[u].step = "store" \/ "sql" \in bad')
      BY <1>5 DEF TableError, Store, Refuse, Underway, Bad, Troubled
    <2>3. tx[u].asked \in Nat /\ tx[u].seen \in SUBSET Transfer
          /\ {} \in SUBSET Pattern /\ step \in Steps
      BY <2>2, Figures DEF Steps
    <2>4. /\ tx'[u].asked = tx[u].asked /\ tx'[u].seen = tx[u].seen
          /\ \A w \in Transfer : w # u => tx'[w] = tx[w]
      BY <2>1, <2>2 DEF Passes, DetectTyped
    <2> QED
      BY <2>2, <2>4 DEF Judged
  <1>6. CASE Clock \/ UNCHANGED detectVars
    <2>1. UNCHANGED tx
      BY <1>6 DEF Clock, detectVars
    <2> QED
      BY <1>1, <2>1
  <1>7. ASSUME NEW p \in Payment, Simulate(p.from, p.amount)
        PROVE  Same
    <2>1. UNCHANGED tx
      BY <1>7 DEF Simulate
    <2> QED
      BY <1>1, <2>1
  <1> QED
    BY <1>2, <1>3, <1>4, <1>5, <1>6, <1>7 DEF DetectNext

(* A request that has not begun is left alone or begins.                   *)
LEMMA NewStays ==
  ASSUME DetectTyped, [DetectNext]_detectVars, NEW t \in Transfer, ~Underway(t)
  PROVE  tx'[t] = tx[t] \/ \E p \in Payment : Begin(t, p)
  <1>1. tx[t].step = "new"
    BY DEF Underway
  <1>2. ASSUME NEW u \in Transfer, NEW p \in Payment, Begin(u, p)
        PROVE  tx'[t] = tx[t] \/ Begin(t, p)
    <2>1. u # t => tx'[t] = tx[t]
      BY <1>2 DEF Begin, DetectTyped
    <2> QED
      BY <1>2, <2>1
  <1>3. ASSUME NEW u \in Transfer,
               StructuringCheck(u) \/ StructuringError(u) \/ TableCheck(u) \/ TableError(u)
                 \/ Store(u) \/ Refuse(u)
        PROVE  tx'[t] = tx[t]
    <2>1. u # t
      BY <1>1, <1>3 DEF StructuringCheck, StructuringError, TableCheck, TableError, Store, Refuse
    <2>2. \E step, flags, asked, seen : Passes(u, step, flags, asked, seen)
      <3>1. CASE StructuringCheck(u)
        BY <3>1, Zenon DEF StructuringCheck, Evaluated
      <3>2. CASE StructuringError(u)
        BY <3>2, Zenon DEF StructuringError, Evaluated
      <3>3. CASE TableCheck(u)
        BY <3>3, Zenon DEF TableCheck
      <3>4. CASE TableError(u) \/ Store(u) \/ Refuse(u)
        BY <3>4, Zenon DEF TableError, Store, Refuse, Goes
      <3> QED
        BY <1>3, <3>1, <3>2, <3>3, <3>4
    <2> QED
      BY <2>1, <2>2 DEF Passes, DetectTyped
  <1>4. CASE Clock \/ UNCHANGED detectVars
    BY <1>4 DEF Clock, detectVars
  <1>5. ASSUME NEW p \in Payment, Simulate(p.from, p.amount)
        PROVE  tx'[t] = tx[t]
    BY <1>5 DEF Simulate
  <1> QED
    BY <1>2, <1>3, <1>4, <1>5 DEF DetectNext

LEMMA RowsStep ==
  ASSUME DetectTyped, RowsJudged, [DetectNext]_detectVars
  PROVE  RowsJudged'
  <1>1. DetectTyped' /\ Onward
    BY DetectMoves
  <1> SUFFICES ASSUME NEW t \in Transfer, Underway(t)'
               PROVE  /\ t \notin tx'[t].seen
                      /\ "sql" \notin bad' /\ Judged(t)' =>
                           CaughtWeek(t)' /\ CaughtTrip(t)' /\ CaughtRapid(t)'
    BY DEF RowsJudged
  <1>2. CASE ~Underway(t)
    <2>2. PICK p \in Payment : Begin(t, p)
      BY <1>2, NewStays DEF Underway
    <2>3. tx'[t].seen = {} /\ tx'[t].step = "redis"
      BY <2>2 DEF Begin, DetectTyped
    <2> QED
      BY <2>3 DEF Judged
  <1>3. CASE Underway(t) /\ TableCheck(t)
    BY <1>1, <1>3, TableJudges
  <1>4. CASE Underway(t) /\ ~TableCheck(t)
    <2>1. /\ tx'[t].seen = tx[t].seen /\ tx'[t].asked = tx[t].asked
          /\ "sql" \in bad' \/ (Judged(t)' => Judged(t))
      BY <1>4, SeenStays
    <2>2. t \notin tx'[t].seen
      BY <1>4, <2>1 DEF RowsJudged
    <2>3. ASSUME "sql" \notin bad', Judged(t)'
          PROVE  CaughtWeek(t)' /\ CaughtTrip(t)' /\ CaughtRapid(t)'
      <3>1. "sql" \notin bad /\ Judged(t)
        BY <1>1, <2>1, <2>3 DEF Onward
      <3>2. CaughtWeek(t) /\ CaughtTrip(t) /\ CaughtRapid(t)
        BY <1>4, <3>1 DEF RowsJudged
      <3> QED
        BY <1>1, <1>4, <2>1, <3>2, JudgedStays
    <2> QED
      BY <2>2, <2>3
  <1> QED
    BY <1>2, <1>3, <1>4

LEMMA RowsCaught == DetectTyped /\ RowsJudged => PatternsCaught
  <1> SUFFICES ASSUME DetectTyped, RowsJudged, "sql" \notin bad
               PROVE  /\ \A S \in SUBSET stored :
                           WeekOfSubAmounts(S) /\ InOrder(S) => Flagged(S, "STRUCTURING_EXTENDED_7D")
                      /\ \A t, u \in stored :
                           Returned(t, u) /\ Sequential({t, u}) => Flagged({t, u}, "ROUND_TRIP_DETECTION")
                      /\ \A t \in stored : PassedOn(t) => "RAPID_MOVEMENT_FUNDS" \in tx[t].flags
    BY DEF PatternsCaught
  <1>1. \A t \in stored :
          /\ t \in Transfer /\ Underway(t) /\ Judged(t)
          /\ CaughtWeek(t) /\ CaughtTrip(t) /\ CaughtRapid(t)
    BY DEF DetectTyped, Underway, Judged, RowsJudged
  <1>2. ASSUME NEW S \in SUBSET stored, WeekOfSubAmounts(S), InOrder(S)
        PROVE  Flagged(S, "STRUCTURING_EXTENDED_7D")
    <2>1. S \in SUBSET Transfer /\ IsFiniteSet(S) /\ S # {}
      <3>1. IsFiniteSet(S)
        BY <1>1, AmountSums DEF Summed
      <3>2. S # {}
        BY <1>2, FS_EmptySet DEF WeekOfSubAmounts, min_count
      <3> QED
        BY <1>1, <3>1, <3>2
    <2>2. \A u \in S : tx[u].at \in Int
      BY <1>1, <2>1, Figures
    <2>3. PICK t \in S : \A u \in S : tx[u].at <= tx[t].at
      <3> DEFINE h == [v \in S |-> tx[v].at]
      <3>1. \A v \in S : h[v] \in Int
        BY <2>2
      <3>2. PICK t \in S : \A v \in S : h[v] <= h[t]
        <4> HIDE DEF h
        <4> QED
          BY <2>1, <3>1, Largest
      <3> QED
        BY <3>2
    <2> DEFINE R == S \ {t}
    <2>4. \A u \in R : u \in tx[t].seen /\ tx[u].at < tx[t].at
      BY <1>2, <2>2, <2>3 DEF InOrder
    <2>5. R \cup {t} = S
      OBVIOUS
    <2>6. CaughtWeek(t)
      BY <1>1
    <2>7. "STRUCTURING_EXTENDED_7D" \in tx[t].flags
      BY <1>2, <2>4, <2>5, <2>6 DEF CaughtWeek
    <2> QED
      BY <2>7 DEF Flagged
  <1>3. ASSUME NEW t \in stored, NEW u \in stored, Returned(t, u), Sequential({t, u})
        PROVE  Flagged({t, u}, "ROUND_TRIP_DETECTION")
    <2>1. t # u
      <3>1. tx[t].from # tx[t].to
        BY <1>1, Figures
      <3> QED
        BY <1>3, <3>1 DEF Returned
    <2>2. tx[t].at \in Int /\ tx[u].at \in Int
      BY <1>1, Figures
    <2>3. Returned(u, t)
      BY <1>3, <2>2 DEF Returned, Apart
    <2>4. t \in tx[u].seen \/ u \in tx[t].seen
      BY <1>3, <2>1 DEF Sequential
    <2> QED
      BY <1>1, <1>3, <2>3, <2>4 DEF CaughtTrip, Flagged
  <1>4. \A t \in stored : PassedOn(t) => "RAPID_MOVEMENT_FUNDS" \in tx[t].flags
    BY <1>1 DEF CaughtRapid
  <1> QED
    BY <1>2, <1>3, <1>4
-----------------------------------------------------------------------------
LEMMA OwnersApart ==
  \A a \in Account : a \notin Entities /\ EntityOf[a] \in Entities /\ EntityOf[a] \in SetKeys /\ a \in SetKeys
  BY DetectionAssumption DEF Entities, SetKeys

(* Two requests that are counted under one key have one owner.             *)
LEMMA SameKey ==
  ASSUME DetectTyped, NEW t \in Transfer, NEW u \in Transfer, Underway(t), Underway(u), NEW k,
         k \in {tx[t].from, tx[t].entity}, k \in {tx[u].from, tx[u].entity}
  PROVE  EntityOf[tx[t].from] = EntityOf[tx[u].from]
  <1>1. tx[t].from \in Account /\ tx[u].from \in Account
    BY Figures
  <1>2. /\ tx[t].entity \in {EntityOf[tx[t].from], tx[t].from}
        /\ tx[u].entity \in {EntityOf[tx[u].from], tx[u].from}
    BY DEF DetectTyped
  <1> QED
    BY <1>1, <1>2, OwnersApart

(* The structuring check and its error: the request is counted.            *)
LEMMA RedisStep ==
  ASSUME DetectTyped, NEW t \in Transfer, StructuringCheck(t) \/ StructuringError(t)
  PROVE  /\ tx[t].step = "redis" /\ Underway(t) /\ t \notin Counts /\ Counts' = Counts \cup {t}
         /\ \A u \in Transfer : u # t => tx'[u] = tx[u]
         /\ Keeps(t) /\ UNCHANGED now
         /\ StructuringCheck(t) =>
              tx'[t].flags = IF \E k \in Counted(t) : Structured(t, k)
                             THEN {"STRUCTURING_VELOCITY_24H"} ELSE {}
         /\ \/ UNCHANGED window /\ "redis" \in bad'
            \/ /\ window' = Adds({tx[t].from, tx[t].entity}, tx[t].clock, EntryOf(t))
               /\ EntryOf(t) \in SetEntry
         /\ StructuringCheck(t) \/ "redis" \in bad'
         /\ ~StructuringCheck(t) => tx'[t].flags = {}
  <1>1. tx[t].step = "redis" /\ Underway(t) /\ UNCHANGED now /\ tx[t].flags = {}
    BY DEF StructuringCheck, StructuringError, Underway, DetectTyped
  <1> DEFINE found == IF \E k \in Counted(t) : Structured(t, k)
                      THEN {"STRUCTURING_VELOCITY_24H"} ELSE {}
  <1>2. ASSUME NEW flags \in SUBSET Pattern, Passes(t, "table", flags, tx[t].asked, tx[t].seen)
        PROVE  /\ tx'[t].step = "table" /\ tx'[t].flags = flags /\ Keeps(t)
               /\ \A u \in Transfer : u # t => tx'[u] = tx[u]
    <2>1. tx = [u \in Transfer |-> tx[u]]
      BY DEF DetectTyped
    <2>2. tx' = [tx EXCEPT ![t] = tx'[t]] /\ tx'[t].step = "table" /\ Keeps(t)
          /\ tx'[t].flags = tx[t].flags \cup flags
      BY <1>2, <2>1 DEF Passes, Keeps
    <2>3. \A u \in Transfer : u # t => tx'[u] = tx[u]
      BY <2>1, <2>2
    <2> QED
      BY <1>1, <2>2, <2>3
  <1>3. found \in SUBSET Pattern /\ {} \in SUBSET Pattern
    BY DEF Pattern
  <1>4. StructuringCheck(t) => Passes(t, "table", found, tx[t].asked, tx[t].seen)
    BY Zenon DEF StructuringCheck, Evaluated
  <1>5. StructuringError(t) => Passes(t, "table", {}, tx[t].asked, tx[t].seen)
    BY Zenon DEF StructuringError, Evaluated
  <1>6. /\ tx'[t].step = "table" /\ Keeps(t)
        /\ \A u \in Transfer : u # t => tx'[u] = tx[u]
        /\ StructuringCheck(t) => tx'[t].flags = found
        /\ ~StructuringCheck(t) => tx'[t].flags = {}
    <2> HIDE DEF found
    <2>1. CASE StructuringCheck(t)
      BY <1>2, <1>3, <1>4, <2>1
    <2>2. CASE ~StructuringCheck(t)
      <3>1. PICK none : none = {}
        OBVIOUS
      <3> QED
        BY <1>2, <1>3, <1>5, <2>2, <3>1
    <2> QED
      BY <2>1, <2>2
  <1>7. t \notin Counts /\ Counts' = Counts \cup {t}
    BY <1>1, <1>6 DEF Counts
  <1>8. EntryOf(t) \in SetEntry
    BY <1>1, EntryTyped DEF EntryOf
  <1>9. \/ UNCHANGED window /\ "redis" \in bad'
        \/ window' = Adds({tx[t].from, tx[t].entity}, tx[t].clock, EntryOf(t))
    BY DEF StructuringCheck, StructuringError, EntryOf, Bad, Troubled
  <1>10. StructuringCheck(t) \/ "redis" \in bad'
    BY DEF StructuringError, Bad, Troubled
  <1> QED
    BY <1>1, <1>6, <1>7, <1>8, <1>9, <1>10

(* A step that neither is the check nor tests the rules leaves the sorted  *)
(* sets and those that are counted alone.                                  *)
LEMMA OtherStep ==
  ASSUME DetectTyped, [DetectNext]_detectVars
  PROVE  \/ \E t \in Transfer : StructuringCheck(t) \/ StructuringError(t)
         \/ \E p \in Payment : Simulate(p.from, p.amount)
         \/ /\ UNCHANGED window /\ Counts' = Counts
            /\ \A t \in Transfer : "STRUCTURING_VELOCITY_24H" \in tx'[t].flags /\ t \in Counts'
                 => "STRUCTURING_VELOCITY_24H" \in tx[t].flags
  <1> DEFINE Quiet == /\ UNCHANGED window /\ Counts' = Counts
                      /\ \A t \in Transfer : "STRUCTURING_VELOCITY_24H" \in tx'[t].flags /\ t \in Counts'
                           => "STRUCTURING_VELOCITY_24H" \in tx[t].flags
  <1>1. ASSUME UNCHANGED <<tx, window>> PROVE Quiet
    BY <1>1 DEF Counts
  <1>2. CASE Clock \/ UNCHANGED detectVars
    <2>1. UNCHANGED <<tx, window>>
      BY <1>2 DEF Clock, detectVars
    <2> QED
      BY <1>1, <2>1
  <1>3. ASSUME NEW t \in Transfer, NEW p \in Payment, Begin(t, p) PROVE Quiet
    <2>1. /\ tx[t].step = "new" /\ tx'[t].step = "redis" /\ UNCHANGED window
          /\ \A u \in Transfer : u # t => tx'[u] = tx[u]
      BY <1>3 DEF Begin, DetectTyped, New
    <2> QED
      BY <2>1 DEF Counts
  <1>4. ASSUME NEW t \in Transfer, TableCheck(t) \/ TableError(t) \/ Store(t) \/ Refuse(t)
        PROVE  Quiet
    <2>1. tx[t].step \in {"table", "store"} /\ UNCHANGED window /\ tx[t] \in TxRecord
      <3>1. tx[t].step \in {"table", "store"} /\ UNCHANGED window
        BY <1>4 DEF TableCheck, TableError, Store, Refuse
      <3> QED
        BY <3>1, Figures DEF Underway
    <2>2. /\ tx'[t].step \in {"store", "stored", "refused"}
          /\ "STRUCTURING_VELOCITY_24H" \in tx'[t].flags => "STRUCTURING_VELOCITY_24H" \in tx[t].flags
          /\ \A u \in Transfer : u # t => tx'[u] = tx[u]
      <3>1. CASE TableCheck(t)
        BY <3>1 DEF TableCheck, Passes, DetectTyped
      <3>2. CASE TableError(t) \/ Store(t) \/ Refuse(t)
        BY <3>2 DEF TableError, Store, Refuse, Goes, Passes, DetectTyped
      <3> QED
        BY <1>4, <3>1, <3>2
    <2> QED
      BY <2>1, <2>2 DEF Counts
  <1> QED
    BY <1>2, <1>3, <1>4 DEF DetectNext

LEMMA SoundStep ==
  ASSUME DetectTyped, WindowSound, [DetectNext]_detectVars
  PROVE  WindowSound'
  <1>1. DetectTyped' /\ Onward
    BY DetectMoves
  <1> DEFINE Sound(e, k) == \/ /\ e.id \in Counts /\ e = EntryOf(e.id)
                               /\ k \in {tx[e.id].from, tx[e.id].entity}
                            \/ e.id = Test /\ "test" \in bad
             SoundNow(e, k) == \/ /\ e.id \in Counts' /\ e = EntryOf(e.id)'
                                  /\ k \in {tx'[e.id].from, tx'[e.id].entity}
                               \/ e.id = Test /\ "test" \in bad'
  <1>2. ASSUME NEW e, NEW k, Sound(e, k)
        PROVE  SoundNow(e, k)
    <2>1. CASE e.id \in Counts /\ e = EntryOf(e.id) /\ k \in {tx[e.id].from, tx[e.id].entity}
      <3>1. e.id \in Transfer /\ Underway(e.id) /\ Keeps(e.id) /\ e.id \in Counts'
        BY <1>1, <2>1 DEF Counts, Underway, Onward
      <3> QED
        BY <2>1, <3>1 DEF EntryOf, Keeps
    <2>2. CASE e.id = Test /\ "test" \in bad
      BY <1>1, <2>2 DEF Onward
    <2> QED
      BY <1>2, <2>1, <2>2
  <1>3. \A k \in SetKeys : \A e \in window[k] : Sound(e, k)
    BY DEF WindowSound
  <1> SUFFICES ASSUME NEW k \in SetKeys, NEW e \in window'[k]
               PROVE  SoundNow(e, k)
    BY DEF WindowSound
  <1>4. CASE UNCHANGED window
    BY <1>2, <1>3, <1>4
  <1>5. ASSUME NEW t \in Transfer, StructuringCheck(t) \/ StructuringError(t), ~UNCHANGED window
        PROVE  SoundNow(e, k)
    <2>1. /\ window' = Adds({tx[t].from, tx[t].entity}, tx[t].clock, EntryOf(t))
          /\ EntryOf(t) \in SetEntry /\ t \in Counts' /\ Keeps(t) /\ Underway(t)
      BY <1>5, RedisStep
    <2>2. window'[k] = IF k \in {tx[t].from, tx[t].entity}
                       THEN Fresh(k, tx[t].clock) \cup {EntryOf(t)} ELSE window[k]
      BY <2>1 DEF Adds, DetectTyped
    <2>3. CASE e \in window[k]
      BY <1>2, <1>3, <2>3
    <2>4. CASE e \notin window[k]
      <3>1. e = EntryOf(t) /\ k \in {tx[t].from, tx[t].entity}
        BY <2>2, <2>4 DEF Fresh
      <3>2. e.id = t /\ e = EntryOf(t)'
        BY <2>1, <3>1 DEF EntryOf, Keeps
      <3> QED
        BY <2>1, <3>1, <3>2 DEF Keeps
    <2> QED
      BY <2>3, <2>4
  <1>6. ASSUME NEW p \in Payment, Simulate(p.from, p.amount)
        PROVE  SoundNow(e, k)
    <2>1. /\ window' = Adds({p.from, EntityOf[p.from]}, now,
                            [id |-> Test, amount |-> p.amount, score |-> now])
          /\ "test" \in bad' /\ now \in Nat
      BY <1>6 DEF Simulate, Bad, Troubled, DetectTyped
    <2>2. PICK f : f = [id |-> Test, amount |-> p.amount, score |-> now] /\ f \in SetEntry
      BY <2>1, DetectionAssumption DEF SetEntry, Test
    <2>3. window'[k] = IF k \in {p.from, EntityOf[p.from]}
                       THEN Fresh(k, now) \cup {f} ELSE window[k]
      BY <2>1, <2>2 DEF Adds, DetectTyped
    <2>4. e \in window[k] \/ e.id = Test
      BY <2>2, <2>3 DEF Fresh
    <2> QED
      BY <1>2, <1>3, <2>1, <2>4
  <1> QED
    BY <1>4, <1>5, <1>6, OtherStep
-----------------------------------------------------------------------------
(* Where nothing has failed, a request that is counted is in the sorted    *)
(* set of its owner, unless the set has an entry a day younger.            *)
Undisturbed == bad \cap {"redis", "lookup", "late"} = {}
Arrived(u) ==
  LET W == window[EntityOf[tx[u].from]] IN
  EntryOf(u) \in W \/ \E e \in W : tx[u].clock + Day <= e.score
ArrivalsKept == Undisturbed => \A u \in Counts : Arrived(u)

LEMMA AddsArrivals ==
  ASSUME DetectTyped, DetectTyped', NEW u \in Transfer, Underway(u), Keeps(u), Arrived(u),
         NEW keys, NEW clock \in Nat, NEW f \in SetEntry, f.score = clock,
         window' = Adds(keys, clock, f)
  PROVE  Arrived(u)'
  <1> DEFINE k == EntityOf[tx[u].from]
  <1>1. k \in SetKeys /\ EntityOf[tx'[u].from] = k /\ EntryOf(u)' = EntryOf(u)
        /\ tx'[u].clock = tx[u].clock /\ tx[u].clock \in Nat /\ Day \in Nat
    BY OwnersApart, Figures, DetectionAssumption DEF Keeps, EntryOf
  <1>2. window'[k] = IF k \in keys THEN Fresh(k, clock) \cup {f} ELSE window[k]
    BY <1>1 DEF Adds, DetectTyped
  <1>3. \A e \in window[k] : e.score \in Nat
    BY <1>1 DEF DetectTyped, SetEntry
  <1>4. EntryOf(u).score = tx[u].clock
    BY DEF EntryOf
  <1>5. CASE k \notin keys
    BY <1>1, <1>2, <1>5 DEF Arrived
  <1>6. CASE k \in keys
    <2>1. ASSUME NEW e \in window[k], e \notin window'[k], NEW c \in Nat, c <= e.score
          PROVE  c + Day <= f.score
      <3>1. ~(e.score > clock - Day)
        BY <1>2, <1>6, <2>1 DEF Fresh
      <3> QED
        BY <1>1, <1>3, <2>1, <3>1
    <2>2. f \in window'[k]
      BY <1>2, <1>6
    <2>3. CASE EntryOf(u) \in window[k]
      <3>1. EntryOf(u) \in window'[k] \/ tx[u].clock + Day <= f.score
        BY <1>1, <1>4, <2>1, <2>3
      <3> QED
        BY <1>1, <2>2, <3>1 DEF Arrived
    <2>4. ASSUME NEW e \in window[k], tx[u].clock + Day <= e.score
          PROVE  Arrived(u)'
      <3>1. e \in window'[k] \/ tx[u].clock + Day <= f.score
        <4>1. tx[u].clock <= e.score
          BY <1>1, <1>3, <2>4
        <4> QED
          BY <1>1, <2>1, <4>1
      <3> QED
        BY <1>1, <2>2, <2>4, <3>1 DEF Arrived
    <2> QED
      BY <2>3, <2>4 DEF Arrived
  <1> QED
    BY <1>5, <1>6

LEMMA ArrivalsStep ==
  ASSUME DetectTyped, ArrivalsKept, [DetectNext]_detectVars
  PROVE  ArrivalsKept'
  <1>1. DetectTyped' /\ Onward
    BY DetectMoves
  <1> SUFFICES ASSUME Undisturbed', NEW u \in Counts'
               PROVE  Arrived(u)'
    BY DEF ArrivalsKept
  <1>2. Undisturbed
    BY <1>1 DEF Undisturbed, Onward
  <1>3. \A v \in Counts : v \in Transfer /\ Underway(v) /\ Keeps(v) /\ Arrived(v)
    BY <1>1, <1>2 DEF ArrivalsKept, Counts, Underway, Onward
  <1>4. CASE UNCHANGED window /\ Counts' = Counts
    BY <1>3, <1>4 DEF Arrived, EntryOf, Keeps
  <1>5. ASSUME NEW t \in Transfer, StructuringCheck(t) \/ StructuringError(t)
        PROVE  Arrived(u)'
    <2>1. /\ window' = Adds({tx[t].from, tx[t].entity}, tx[t].clock, EntryOf(t))
          /\ EntryOf(t) \in SetEntry /\ Counts' = Counts \cup {t} /\ Keeps(t) /\ Underway(t)
      BY <1>5, RedisStep DEF Undisturbed
    <2>2. tx[t].clock \in Nat /\ EntryOf(t).score = tx[t].clock
      BY <2>1, Figures DEF EntryOf
    <2>3. CASE u = t
      <3> DEFINE k == EntityOf[tx[t].from]
      <3>1. tx[t].entity = k
        BY <1>2, <2>1 DEF DetectTyped, Undisturbed
      <3>2. k \in SetKeys
        BY <2>1, Figures, OwnersApart
      <3>3. EntryOf(t) \in window'[k]
        BY <2>1, <3>1, <3>2 DEF Adds, DetectTyped
      <3>4. EntryOf(t)' = EntryOf(t) /\ tx'[t].from = tx[t].from
        BY <2>1 DEF EntryOf, Keeps
      <3> QED
        BY <2>3, <3>3, <3>4 DEF Arrived
    <2>4. CASE u # t
      <3>1. u \in Counts
        BY <2>1, <2>4
      <3> QED
        BY <1>1, <1>3, <2>1, <2>2, <3>1, AddsArrivals
    <2> QED
      BY <2>3, <2>4
  <1>6. ASSUME NEW p \in Payment, Simulate(p.from, p.amount)
        PROVE  Arrived(u)'
    <2>1. /\ window' = Adds({p.from, EntityOf[p.from]}, now,
                            [id |-> Test, amount |-> p.amount, score |-> now])
          /\ now \in Nat /\ Counts' = Counts
      BY <1>6 DEF Simulate, DetectTyped, Counts
    <2>2. PICK f \in SetEntry : f = [id |-> Test, amount |-> p.amount, score |-> now] /\ f.score = now
      BY <2>1, DetectionAssumption DEF SetEntry, Test
    <2> QED
      BY <1>1, <1>3, <2>1, <2>2, AddsArrivals
  <1> QED
    BY <1>4, <1>5, <1>6, OtherStep
-----------------------------------------------------------------------------
(* Smurfing is smurfing whatever the others do.                            *)
LEMMA SmurfStays ==
  ASSUME DetectTyped, DetectTyped', Onward, NEW S \in SUBSET Transfer, \A t \in S : Underway(t)
  PROVE  Smurfing(S)' <=> Smurfing(S)
  <1>1. \A t \in S : Keeps(t)
    BY DEF Onward
  <1>2. SameOwner(S)' <=> SameOwner(S)
    BY <1>1 DEF SameOwner, Keeps
  <1>3. Total(S)' = Total(S)
    BY SumStays
  <1>4. (\A t, u \in S : tx'[t].amount < threshold /\ tx'[t].clock - tx'[u].clock < Day)
        <=> \A t, u \in S : tx[t].amount < threshold /\ tx[t].clock - tx[u].clock < Day
    BY <1>1 DEF Keeps
  <1> HIDE DEF Total, SameOwner
  <1> QED
    BY <1>2, <1>3, <1>4 DEF Smurfing, threshold

(* What the entries of a sorted set add up to.                             *)
EntryAmount == [e \in SetEntry |-> e.amount]

LEMMA EntrySums ==
  ASSUME NEW S \in SUBSET SetEntry, IsFiniteSet(S)
  PROVE  /\ MapThenSumSet(LAMBDA e : e.amount, S) = SumOver(EntryAmount, S)
         /\ \A e \in S : EntryAmount[e] = e.amount /\ EntryAmount[e] \in Nat
  <1> DEFINE plain(F) == F = [s \in SUBSET S |->
               IF s = {} THEN 0
               ELSE LET x == CHOOSE x \in s : TRUE IN x.amount + F[s \ {x}]]
  <1>1. \A e \in S : EntryAmount[e] = e.amount /\ EntryAmount[e] \in Nat
    BY DEF EntryAmount, SetEntry
  <1>2. MapThenSumSet(LAMBDA e : e.amount, S) = (CHOOSE F : plain(F))[S]
    BY DEF MapThenSumSet, MapThenFoldSet
  <1>3. (CHOOSE F : plain(F)) = (CHOOSE F : Sums(F, S, EntryAmount))
    <2>1. ASSUME NEW F PROVE plain(F) <=> Sums(F, S, EntryAmount)
      <3>1. \A s \in SUBSET S : s # {} => (CHOOSE x \in s : TRUE) \in S
        OBVIOUS
      <3> QED
        BY <1>1, <3>1 DEF Sums
    <2> HIDE DEF plain
    <2> QED
      BY <2>1, Zenon
  <1> QED
    BY <1>1, <1>2, <1>3 DEF SumOver

(* The check of a sorted set, by the entries that count.                   *)
Small(t, k) == {e \in Fresh(k, tx[t].clock) : e.amount < threshold}
Enough(t, count, total) ==
  /\ count + (IF tx[t].amount < threshold THEN 1 ELSE 0) >= 2
  /\ total + (IF tx[t].amount < threshold THEN tx[t].amount ELSE 0) >= threshold

LEMMA StructuredIs ==
  ASSUME DetectTyped, NEW t \in Transfer, NEW k \in SetKeys
  PROVE  /\ IsFiniteSet(Small(t, k)) /\ Small(t, k) \in SUBSET SetEntry
         /\ Structured(t, k)
              <=> Enough(t, Cardinality(Small(t, k)), SumOver(EntryAmount, Small(t, k)))
  <1>1. Small(t, k) \subseteq window[k] /\ window[k] \in SUBSET SetEntry /\ IsFiniteSet(window[k])
    BY DEF Small, Fresh, DetectTyped
  <1>2. IsFiniteSet(Small(t, k))
    BY <1>1, FS_Subset
  <1>3. PICK s : s = Small(t, k)
    OBVIOUS
  <1>4. MapThenSumSet(LAMBDA e : e.amount, s) = SumOver(EntryAmount, s)
    BY <1>1, <1>2, <1>3, EntrySums
  <1>5. MapThenSumSet(LAMBDA e : e.amount, Small(t, k)) = SumOver(EntryAmount, Small(t, k))
    BY <1>3, <1>4
  <1> QED
    BY <1>1, <1>2, <1>5 DEF Structured, Enough, Small

EntryMap == [u \in Transfer |-> EntryOf(u)]

(* The check finds a pattern that the request completes.                   *)
LEMMA SmurfsCaught ==
  ASSUME DetectTyped, ArrivalsKept, Undisturbed, NEW t \in Transfer, Underway(t), t \notin Counts,
         ~Late(t), NEW S \in SUBSET (Counts \cup {t}), t \in S, Smurfing(S)
  PROVE  Structured(t, EntityOf[tx[t].from]) /\ EntityOf[tx[t].from] \in Counted(t)
  <1> DEFINE k == EntityOf[tx[t].from]
             R == S \ {t}
             I == {EntryMap[u] : u \in R}
  <1>1. tx[t].entity = k /\ k \in SetKeys /\ k \in Counted(t)
    BY Figures, OwnersApart DEF DetectTyped, Undisturbed, Counted
  <1>2. R \subseteq Counts /\ \A u \in S : u \in Transfer /\ Underway(u)
    BY DEF Counts, Underway
  <1>3. \A u \in S : tx[u].amount \in Nat /\ tx[u].clock \in Nat /\ tx[u].amount < threshold
    BY <1>2, Figures DEF Smurfing
  <1>4. ASSUME NEW u \in R
        PROVE  EntryOf(u) \in Small(t, k)
    <2>1. EntityOf[tx[u].from] = k /\ tx[t].clock - tx[u].clock < Day
      BY DEF Smurfing, SameOwner
    <2>2. Arrived(u)
      BY <1>2 DEF ArrivalsKept
    <2>3. \A e \in window[k] : e.score \in Nat /\ ~(e.score > tx[t].clock)
      BY <1>1 DEF Late, DetectTyped, SetEntry
    <2>4. Day \in Nat
      BY DetectionAssumption
    <2>5. EntryOf(u) \in window[k]
      <3>1. ASSUME NEW e \in window[k], tx[u].clock + Day <= e.score PROVE FALSE
        BY <1>3, <2>1, <2>3, <2>4, <3>1
      <3> QED
        BY <2>1, <2>2, <3>1 DEF Arrived
    <2>6. EntryOf(u).score = tx[u].clock /\ EntryOf(u).amount = tx[u].amount
      BY DEF EntryOf
    <2>7. EntryOf(u).score > tx[t].clock - Day
      BY <1>3, <2>1, <2>4, <2>6
    <2> QED
      BY <1>3, <2>5, <2>6, <2>7 DEF Small, Fresh
  <1>5. I \subseteq Small(t, k)
    BY <1>2, <1>4 DEF EntryMap
  <1>6. /\ Total(S) = SumOver(AmountOf, S) /\ IsFiniteSet(S) /\ \A u \in S : AmountOf[u] \in Nat
        /\ AmountOf[t] = tx[t].amount
    BY <1>2, AmountSums DEF Summed, AmountOf
  <1>7. /\ IsFiniteSet(R) /\ Cardinality(S) = Cardinality(R) + 1
        /\ SumOver(AmountOf, S) = tx[t].amount + SumOver(AmountOf, R)
        /\ Cardinality(R) \in Nat /\ SumOver(AmountOf, R) \in Nat
    <2>1. IsFiniteSet(R) /\ Cardinality(R) = Cardinality(S) - 1
      BY <1>6, FS_RemoveElement
    <2>2. Cardinality(S) \in Nat /\ Cardinality(R) \in Nat
      BY <1>6, <2>1, FS_CardinalityType
    <2> HIDE DEF AmountOf
    <2>3. SumOver(AmountOf, S) = AmountOf[t] + SumOver(AmountOf, R)
      BY <1>6, SumParts
    <2>4. SumOver(AmountOf, R) \in Nat
      BY <1>6, <2>1, SumParts
    <2> QED
      BY <1>6, <2>1, <2>2, <2>3, <2>4
  <1>8. /\ IsFiniteSet(I) /\ Cardinality(I) = Cardinality(R)
        /\ SumOver(EntryAmount, I) = SumOver(AmountOf, R)
    <2>1. \A u \in R : AmountOf[u] \in Nat /\ EntryAmount[EntryMap[u]] = AmountOf[u]
      BY <1>2, <1>6, EntryTyped DEF EntryMap, EntryAmount, EntryOf, AmountOf
    <2>2. \A u, w \in R : EntryMap[u] = EntryMap[w] => u = w
      BY <1>2 DEF EntryMap, EntryOf
    <2>3. PICK r : r = R
      OBVIOUS
    <2>4. PICK i : i = {EntryMap[u] : u \in r}
      OBVIOUS
    <2>5. /\ IsFiniteSet(i) /\ Cardinality(i) = Cardinality(r)
          /\ SumOver(EntryAmount, i) = SumOver(AmountOf, r)
      <3> HIDE DEF R, AmountOf, EntryMap, EntryAmount
      <3> QED
        BY <1>7, <2>1, <2>2, <2>3, <2>4, SumImage
    <2> QED
      BY <2>3, <2>4, <2>5
  <1>9. /\ IsFiniteSet(Small(t, k)) /\ Small(t, k) \in SUBSET SetEntry
        /\ Structured(t, k) <=> Enough(t, Cardinality(Small(t, k)), SumOver(EntryAmount, Small(t, k)))
    BY <1>1, StructuredIs
  <1>10. /\ Cardinality(I) <= Cardinality(Small(t, k)) /\ Cardinality(Small(t, k)) \in Nat
         /\ SumOver(EntryAmount, I) <= SumOver(EntryAmount, Small(t, k))
         /\ SumOver(EntryAmount, Small(t, k)) \in Nat
    <2>1. PICK s, i : s = Small(t, k) /\ i = I
      OBVIOUS
    <2>2. IsFiniteSet(s) /\ i \subseteq s /\ \A e \in s : EntryAmount[e] \in Nat
      BY <1>5, <1>9, <2>1, EntrySums
    <2>3. /\ Cardinality(i) <= Cardinality(s) /\ Cardinality(s) \in Nat
          /\ SumOver(EntryAmount, i) <= SumOver(EntryAmount, s)
          /\ SumOver(EntryAmount, s) \in Nat
      BY <2>2, FS_Subset, FS_CardinalityType, SumMonotone, SumParts
    <2> QED
      BY <2>1, <2>3
  <1>11. Cardinality(S) >= 2 /\ Total(S) >= threshold /\ tx[t].amount \in Nat
         /\ tx[t].amount < threshold
    BY <1>3 DEF Smurfing
  <1> HIDE DEF k, R, I, AmountOf, EntryAmount, Total
  <1>12. Enough(t, Cardinality(Small(t, k)), SumOver(EntryAmount, Small(t, k)))
    BY <1>6, <1>7, <1>8, <1>10, <1>11 DEF Enough, threshold
  <1> QED
    BY <1>1, <1>9, <1>12 DEF k

(* What the check flags is part of a pattern.                              *)
LEMMA FlagFounded ==
  ASSUME DetectTyped, WindowSound, "test" \notin bad, NEW t \in Transfer, Underway(t),
         t \notin Counts, ~Late(t), NEW k \in Counted(t), Structured(t, k)
  PROVE  \E S \in SUBSET Transfer : (\A u \in S : Underway(u)) /\ Smurfing(S)
  <1> DEFINE s == Small(t, k)
             J == {u \in Counts : EntryOf(u) \in s}
             mine == IF tx[t].amount < threshold THEN {t} ELSE {}
             S == J \cup mine
  <1>1. k \in {tx[t].from, tx[t].entity} /\ k \in SetKeys
    BY EntryTyped DEF Counted
  <1>2. /\ IsFiniteSet(s) /\ s \in SUBSET SetEntry
        /\ Enough(t, Cardinality(s), SumOver(EntryAmount, s))
    BY <1>1, StructuredIs
  <1>3. \A u \in J : u \in Transfer /\ Underway(u) /\ u # t
    BY DEF Counts, Underway
  <1>4. s = {EntryMap[u] : u \in J}
    <2>1. \A u \in J : EntryMap[u] = EntryOf(u)
      BY <1>3 DEF EntryMap
    <2>2. ASSUME NEW e \in s
          PROVE  e.id \in J /\ e = EntryOf(e.id)
      <3>1. e \in window[k]
        BY DEF Small, Fresh
      <3> QED
        BY <1>1, <3>1 DEF WindowSound
    <2> HIDE DEF s
    <2> QED
      BY <2>1, <2>2
  <1>5. ASSUME NEW u \in J
        PROVE  /\ k \in {tx[u].from, tx[u].entity} /\ tx[u].amount < threshold
               /\ tx[u].clock <= tx[t].clock /\ tx[u].clock > tx[t].clock - Day
    <2>1. /\ EntryOf(u) \in window[k] /\ EntryOf(u).score > tx[t].clock - Day
          /\ EntryOf(u).amount < threshold
      BY DEF Small, Fresh
    <2>2. /\ EntryOf(u).score = tx[u].clock /\ EntryOf(u).amount = tx[u].amount
          /\ EntryOf(u).id = u
      BY DEF EntryOf
    <2>3. k \in {tx[u].from, tx[u].entity}
      BY <1>1, <2>1, <2>2 DEF WindowSound
    <2>4. ~(EntryOf(u).score > tx[t].clock)
      BY <1>1, <2>1 DEF Late
    <2>5. tx[u].clock \in Nat /\ tx[t].clock \in Nat
      BY <1>3, Figures
    <2> QED
      BY <2>1, <2>2, <2>3, <2>4, <2>5
  <1>6. S \in SUBSET Transfer /\ \A u \in S : Underway(u)
    BY <1>3
  <1>7. \A u \in S : /\ k \in {tx[u].from, tx[u].entity} /\ tx[u].amount < threshold
                     /\ tx[u].clock <= tx[t].clock /\ tx[u].clock > tx[t].clock - Day
                     /\ tx[u].clock \in Nat
    <2>1. Day \in Nat \ {0}
      BY DetectionAssumption
    <2>2. tx[t].clock \in Nat
      BY Figures
    <2>3. \A u \in J : tx[u].clock \in Nat
      BY <1>3, Figures
    <2> HIDE DEF J
    <2> QED
      BY <1>1, <1>5, <2>1, <2>2, <2>3
  <1>8. SameOwner(S)
    <2> SUFFICES ASSUME NEW u \in S, NEW w \in S PROVE EntityOf[tx[u].from] = EntityOf[tx[w].from]
      BY DEF SameOwner
    <2> HIDE DEF S
    <2> QED
      BY <1>6, <1>7, SameKey
  <1>9. /\ Total(S) = SumOver(AmountOf, S) /\ IsFiniteSet(S) /\ \A u \in S : AmountOf[u] \in Nat
        /\ AmountOf[t] = tx[t].amount
    <2> HIDE DEF S
    <2> QED
      BY <1>6, AmountSums DEF Summed, AmountOf
  <1>10. /\ IsFiniteSet(J) /\ Cardinality(s) = Cardinality(J)
         /\ SumOver(EntryAmount, s) = SumOver(AmountOf, J)
    <2>0. J \subseteq S
      OBVIOUS
    <2>1. IsFiniteSet(J)
      BY <1>9, <2>0, FS_Subset
    <2>2. \A u \in J : AmountOf[u] \in Nat /\ EntryAmount[EntryMap[u]] = AmountOf[u]
      BY <1>3, <1>9, EntryTyped DEF EntryMap, EntryAmount, EntryOf, AmountOf
    <2>3. \A u, w \in J : EntryMap[u] = EntryMap[w] => u = w
      BY <1>3 DEF EntryMap, EntryOf
    <2>4. PICK r : r = J
      OBVIOUS
    <2>5. PICK i : i = {EntryMap[u] : u \in r}
      OBVIOUS
    <2>6. /\ IsFiniteSet(i) /\ Cardinality(i) = Cardinality(r)
          /\ SumOver(EntryAmount, i) = SumOver(AmountOf, r)
      <3> HIDE DEF J, AmountOf, EntryMap, EntryAmount
      <3> QED
        BY <2>1, <2>2, <2>3, <2>4, <2>5, SumImage
    <2> HIDE DEF s, J
    <2> QED
      BY <1>4, <2>1, <2>4, <2>5, <2>6
  <1>11. t \notin J /\ Cardinality(J) \in Nat /\ SumOver(AmountOf, J) \in Nat
    <2>1. t \notin J
      BY <1>3
    <2>2. \A u \in J : AmountOf[u] \in Nat
      BY <1>9
    <2> HIDE DEF J, AmountOf
    <2> QED
      BY <1>10, <2>1, <2>2, FS_CardinalityType, SumParts
  <1>12. Cardinality(S) >= 2 /\ Total(S) >= threshold
    <2>1. CASE tx[t].amount < threshold
      <3>1. S = J \cup {t} /\ t \in S /\ S \ {t} = J
        BY <1>11, <2>1
      <3> HIDE DEF S, J, s, AmountOf, Total, EntryAmount
      <3>2. Cardinality(S) = Cardinality(J) + 1
        BY <1>10, <1>11, <3>1, FS_AddElement
      <3>3. SumOver(AmountOf, S) = AmountOf[t] + SumOver(AmountOf, S \ {t})
        BY <1>9, <3>1, SumParts
      <3>4. tx[t].amount \in Nat
        BY Figures
      <3>5. Total(S) = tx[t].amount + SumOver(AmountOf, J)
        BY <1>9, <3>1, <3>3
      <3>6. Cardinality(J) + 1 >= 2 /\ SumOver(AmountOf, J) + tx[t].amount >= threshold
        BY <1>2, <1>10, <2>1 DEF Enough
      <3> QED
        BY <1>11, <3>2, <3>4, <3>5, <3>6 DEF threshold
    <2>2. CASE ~(tx[t].amount < threshold)
      <3>1. S = J
        BY <2>2
      <3> HIDE DEF S, J, s, AmountOf, Total, EntryAmount
      <3> QED
        BY <1>2, <1>9, <1>10, <1>11, <2>2, <3>1 DEF Enough, threshold
    <2> QED
      BY <2>1, <2>2
  <1>13. \A u, w \in S : tx[u].amount < threshold /\ tx[u].clock - tx[w].clock < Day
    <2>1. tx[t].clock \in Nat /\ Day \in Nat
      BY Figures, DetectionAssumption
    <2> HIDE DEF S
    <2> QED
      BY <1>7, <2>1
  <1> HIDE DEF S
  <1> QED
    BY <1>6, <1>8, <1>12, <1>13 DEF Smurfing
-----------------------------------------------------------------------------
(* Both halves of StructuringExact.                                        *)
SmurfsFlagged ==
  Undisturbed => \A S \in SUBSET Counts :
                   Smurfing(S) => Flagged(S, "STRUCTURING_VELOCITY_24H")
FlagsFounded ==
  bad \cap {"test", "late"} = {} =>
    \A t \in Counts : "STRUCTURING_VELOCITY_24H" \in tx[t].flags =>
      \E S \in SUBSET Transfer : (\A u \in S : Underway(u)) /\ Smurfing(S)

LEMMA LateNoted ==
  ASSUME NEW t \in Transfer, StructuringCheck(t), "late" \notin bad'
  PROVE  ~Late(t)
  BY DEF StructuringCheck, Bad, Troubled

LEMMA SmurfsStep ==
  ASSUME DetectTyped, ArrivalsKept, SmurfsFlagged, [DetectNext]_detectVars
  PROVE  SmurfsFlagged'
  <1>1. DetectTyped' /\ Onward
    BY DetectMoves
  <1> SUFFICES ASSUME Undisturbed', NEW S \in SUBSET Counts', Smurfing(S)'
               PROVE  \E t \in S : "STRUCTURING_VELOCITY_24H" \in tx'[t].flags
    BY DEF SmurfsFlagged, Flagged
  <1>2. Undisturbed
    BY <1>1 DEF Undisturbed, Onward
  <1>3. ASSUME S \subseteq Counts
        PROVE  \E t \in S : "STRUCTURING_VELOCITY_24H" \in tx'[t].flags
    <2>1. \A t \in S : t \in Transfer /\ Underway(t)
      BY <1>3 DEF Counts, Underway
    <2>2. Smurfing(S)
      BY <1>1, <2>1, SmurfStays
    <2>3. PICK t \in S : "STRUCTURING_VELOCITY_24H" \in tx[t].flags
      BY <1>2, <1>3, <2>2 DEF SmurfsFlagged, Flagged
    <2> QED
      BY <1>1, <2>1, <2>3 DEF Onward
  <1>4. ASSUME NEW t \in Transfer, StructuringCheck(t) \/ StructuringError(t)
        PROVE  \E u \in S : "STRUCTURING_VELOCITY_24H" \in tx'[u].flags
    <2>1. /\ Underway(t) /\ t \notin Counts /\ Counts' = Counts \cup {t}
          /\ StructuringCheck(t)
          /\ tx'[t].flags = IF \E k \in Counted(t) : Structured(t, k)
                            THEN {"STRUCTURING_VELOCITY_24H"} ELSE {}
      BY <1>4, RedisStep DEF Undisturbed
    <2>2. CASE t \in S
      <3>1. ~Late(t)
        BY <2>1, LateNoted DEF Undisturbed
      <3>2. S \in SUBSET Transfer /\ \A u \in S : Underway(u)
        BY <2>1 DEF Counts, Underway
      <3>3. Smurfing(S)
        BY <1>1, <3>2, SmurfStays
      <3>4. Structured(t, EntityOf[tx[t].from]) /\ EntityOf[tx[t].from] \in Counted(t)
        BY <1>2, <2>1, <2>2, <3>1, <3>3, SmurfsCaught
      <3>5. "STRUCTURING_VELOCITY_24H" \in tx'[t].flags
        BY <2>1, <3>4
      <3> QED
        BY <2>2, <3>5
    <2>3. CASE t \notin S
      BY <1>3, <2>1, <2>3
    <2> QED
      BY <2>2, <2>3
  <1>5. ASSUME NEW p \in Payment, Simulate(p.from, p.amount)
        PROVE  Counts' = Counts
    BY <1>5 DEF Simulate, Counts
  <1> QED
    BY <1>3, <1>4, <1>5, OtherStep

LEMMA FoundedStep ==
  ASSUME DetectTyped, WindowSound, FlagsFounded, [DetectNext]_detectVars
  PROVE  FlagsFounded'
  <1>1. DetectTyped' /\ Onward
    BY DetectMoves
  <1> SUFFICES ASSUME "test" \notin bad', "late" \notin bad', NEW t \in Counts',
                      "STRUCTURING_VELOCITY_24H" \in tx'[t].flags
               PROVE  \E S \in SUBSET Transfer : (\A u \in S : Underway(u)') /\ Smurfing(S)'
    BY DEF FlagsFounded
  <1>2. "test" \notin bad /\ "late" \notin bad
    BY <1>1 DEF Onward
  <1>3. ASSUME NEW S \in SUBSET Transfer, \A u \in S : Underway(u), Smurfing(S)
        PROVE  (\A u \in S : Underway(u)') /\ Smurfing(S)'
    BY <1>1, <1>3, SmurfStays DEF Onward
  <1>4. ASSUME t \in Counts, "STRUCTURING_VELOCITY_24H" \in tx[t].flags
        PROVE  \E S \in SUBSET Transfer : (\A u \in S : Underway(u)') /\ Smurfing(S)'
    <2>1. PICK S \in SUBSET Transfer : (\A u \in S : Underway(u)) /\ Smurfing(S)
      BY <1>2, <1>4 DEF FlagsFounded
    <2> QED
      BY <1>3, <2>1
  <1>5. ASSUME NEW u \in Transfer, StructuringCheck(u) \/ StructuringError(u)
        PROVE  \E S \in SUBSET Transfer : (\A w \in S : Underway(w)') /\ Smurfing(S)'
    <2>1. /\ Underway(u) /\ u \notin Counts /\ Counts' = Counts \cup {u}
          /\ \A w \in Transfer : w # u => tx'[w] = tx[w]
          /\ ~StructuringCheck(u) => tx'[u].flags = {}
          /\ StructuringCheck(u) =>
              tx'[u].flags = IF \E k \in Counted(u) : Structured(u, k)
                             THEN {"STRUCTURING_VELOCITY_24H"} ELSE {}
      BY <1>5, RedisStep
    <2>2. CASE t = u
      <3>1. StructuringCheck(u) /\ \E k \in Counted(u) : Structured(u, k)
        BY <2>1, <2>2
      <3>2. ~Late(u)
        BY <3>1, LateNoted
      <3>3. PICK k \in Counted(u) : Structured(u, k)
        BY <3>1
      <3>4. PICK S \in SUBSET Transfer : (\A w \in S : Underway(w)) /\ Smurfing(S)
        BY <1>2, <2>1, <3>2, <3>3, FlagFounded
      <3> QED
        BY <1>3, <3>4
    <2>3. CASE t # u
      <3>1. t \in Counts /\ tx'[t] = tx[t]
        BY <2>1, <2>3 DEF Counts
      <3> QED
        BY <1>4, <3>1
    <2> QED
      BY <2>2, <2>3
  <1>6. ASSUME NEW p \in Payment, Simulate(p.from, p.amount)
        PROVE  Counts' = Counts /\ UNCHANGED tx
    BY <1>6 DEF Simulate, Counts
  <1>7. ASSUME Counts' = Counts, \A u \in Transfer :
                 "STRUCTURING_VELOCITY_24H" \in tx'[u].flags /\ u \in Counts'
                   => "STRUCTURING_VELOCITY_24H" \in tx[u].flags
        PROVE  \E S \in SUBSET Transfer : (\A w \in S : Underway(w)') /\ Smurfing(S)'
    <2>1. t \in Counts /\ t \in Transfer
      BY <1>7 DEF Counts
    <2> QED
      BY <1>4, <1>7, <2>1
  <1>8. ASSUME NEW p \in Payment, Simulate(p.from, p.amount)
        PROVE  \E S \in SUBSET Transfer : (\A w \in S : Underway(w)') /\ Smurfing(S)'
    BY <1>4, <1>6, <1>8
  <1> QED
    BY <1>5, <1>7, <1>8, OtherStep

(* The rules on several transactions, together.                            *)
DetectInv ==
  DetectTyped /\ RowsJudged /\ WindowSound /\ ArrivalsKept /\ SmurfsFlagged /\ FlagsFounded

LEMMA DetectStarts == DetectInit => DetectInv
  <1> SUFFICES ASSUME DetectInit PROVE DetectInv
    OBVIOUS
  <1>1. /\ now = 0 /\ tx = [t \in Transfer |-> New] /\ stored = {} /\ bad = {}
        /\ window = [k \in SetKeys |-> {}]
    BY DEF DetectInit, SetKeys
  <1>2. \A t \in Transfer : tx[t].step = "new" /\ ~Underway(t)
    BY <1>1 DEF New, Underway
  <1>3. Counts = {}
    BY <1>2 DEF Counts
  <1>4. DetectTyped
    <2>1. stored = {t \in Transfer : tx[t].step = "stored"}
      BY <1>1, <1>2
    <2>2. IsFiniteSet({})
      BY FS_EmptySet
    <2> QED
      BY <1>1, <1>2, <2>1, <2>2 DEF DetectTyped, Troubles
  <1>5. RowsJudged /\ WindowSound /\ ArrivalsKept /\ FlagsFounded
    BY <1>1, <1>2, <1>3 DEF RowsJudged, WindowSound, ArrivalsKept, FlagsFounded
  <1>6. SmurfsFlagged
    <2> SUFFICES ASSUME NEW S \in SUBSET Counts, Smurfing(S) PROVE FALSE
      BY DEF SmurfsFlagged
    <2>1. S = {}
      BY <1>3
    <2>2. Cardinality({}) >= 2
      BY <2>1 DEF Smurfing
    <2> QED
      BY <2>2, FS_EmptySet
  <1> QED
    BY <1>4, <1>5, <1>6 DEF DetectInv

LEMMA DetectStep == DetectInv /\ [DetectNext]_detectVars => DetectInv'
  BY DetectMoves, RowsStep, SoundStep, ArrivalsStep, SmurfsStep, FoundedStep DEF DetectInv

LEMMA DetectAlways == DetectSpec => []DetectInv
  BY DetectStarts, DetectStep, PTL DEF DetectSpec

LEMMA ExactFollows == DetectInv => StructuringExact
  <1> SUFFICES ASSUME DetectInv PROVE StructuringExact
    OBVIOUS
  <1>1. ASSUME NEW S \in SUBSET Transfer, \A u \in S : Underway(u)
        PROVE  S \in SUBSET {u \in Transfer : tx[u] # New}
    BY <1>1, NewStep DEF Underway
  <1>2. bad \cap {"redis", "lookup", "late"} = {} =>
          \A S \in SUBSET Counts : Smurfing(S) => Flagged(S, "STRUCTURING_VELOCITY_24H")
    BY DEF DetectInv, SmurfsFlagged, Undisturbed
  <1>3. ASSUME bad \cap {"test", "late"} = {}, NEW t \in Counts,
               "STRUCTURING_VELOCITY_24H" \in tx[t].flags
        PROVE  \E S \in SUBSET {u \in Transfer : tx[u] # New} : Smurfing(S)
    <2>1. PICK S \in SUBSET Transfer : (\A u \in S : Underway(u)) /\ Smurfing(S)
      BY <1>3 DEF DetectInv, FlagsFounded
    <2> QED
      BY <1>1, <2>1
  <1> QED
    BY <1>2, <1>3 DEF StructuringExact

(* However the requests of a customer are spread over accounts and however *)
(* they interleave, smurfing within a day is flagged and what is flagged   *)
(* is smurfing, for any transactions, amounts and windows (rules.py:163-   *)
(* 232).                                                                   *)
THEOREM SmurfingFound == DetectSpec => []StructuringExact
  BY DetectAlways, ExactFollows, PTL

(* Requests that follow one another miss no pattern over several rows of   *)
(* the table (rules.py:301-349, 441-482, 566-636).                         *)
THEOREM PatternsFound == DetectSpec => []PatternsCaught
  <1>1. DetectInv => PatternsCaught
    BY RowsCaught DEF DetectInv
  <1> QED
    BY <1>1, DetectAlways, PTL

(* The clock stays within its bound, and what the sorted sets and the      *)
(* table hold are transactions of the model.                               *)
THEOREM DetectTypes == DetectSpec => []DetectTypeOK
  <1> DEFINE Ticks == now \in 0..MaxNow
  <1>1. DetectInit => Ticks
    BY DetectionAssumption DEF DetectInit
  <1>2. ASSUME Ticks, [DetectNext]_detectVars
        PROVE  Ticks'
    <2>1. now' = now \/ (now < MaxNow /\ now' = now + 1)
      BY <1>2 DEF DetectNext, detectVars, Clock, Simulate, Begin, StructuringCheck,
           StructuringError, TableCheck, TableError, Store, Refuse
    <2> QED
      BY <1>2, <2>1, DetectionAssumption
  <1>3. ASSUME Ticks, DetectInv
        PROVE  DetectTypeOK
    <2>1. stored \subseteq Transfer /\ DOMAIN window = SetKeys
      BY <1>3 DEF DetectInv, DetectTyped
    <2>2. \A k \in SetKeys : \A e \in window[k] : e.id \in Transfer \cup {Test}
      BY <1>3 DEF DetectInv, WindowSound, Counts
    <2> QED
      BY <1>3, <2>1, <2>2 DEF DetectTypeOK
  <1> HIDE DEF Ticks
  <1> QED
    BY <1>1, <1>2, <1>3, DetectAlways, PTL DEF DetectSpec
=============================================================================
