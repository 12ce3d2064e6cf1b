------------------------------ MODULE StrBatch ------------------------------
(***************************************************************************)
(* Batches of suspicious transaction reports (services/str_batch_engine.py,*)
(* routers/str_batch.py): alerts closed with a SAR are sealed in a package,*)
(* which is transmitted to the gateway.  Both requests tell the dashboards,*)
(* the second one before its transaction commits (LiveFeed).  Alert are    *)
(* those whose transaction and both accounts the tenant can see: the query *)
(* joins them.                                                             *)
(***************************************************************************)
EXTENDS LiveFeed

CONSTANTS
  Alert,
  BatchId,     \* package ids
  MaxFaults    \* bound: lost commits and lost answers of the gateway

None == "none"

ASSUME BatchAssumption == None \notin BatchId /\ MaxFaults \in Nat

VARIABLES
  closed,    \* alerts in CLOSED_SAR, which is terminal
  stamp,     \* alerts.str_batch_id
  package,   \* str_batches.payload_xml: the alerts in it
  status,    \* str_batches.status
  request,   \* request[m]: a request, its step, and what it has read
  faults,
  accepted,  \* batches the gateway has accepted (history)
  excused,   \* batches whose row may not say so, for a reason below (history)
  overlaps   \* pairs of batches compiled at the same time (history)

batchVars == <<closed, stamp, package, status, request, faults, accepted, excused, overlaps>>
strVars == <<feedVars, batchVars>>
rowVars == <<stamp, package, status>>

Entry(step, b, rows, receipt) ==
  [step |-> step, batch |-> b, rows |-> rows, receipt |-> receipt]
NoRequest == Entry("no", None, {}, None)
StrSteps == {"no", "seal", "submit", "update", "tell", "done"}

StrInit ==
  /\ FeedInit
  /\ closed = {} /\ stamp = [a \in Alert |-> None] /\ faults = 0
  /\ package = [b \in BatchId |-> {}] /\ status = [b \in BatchId |-> None]
  /\ request = [m \in Message |-> NoRequest]
  /\ accepted = {} /\ excused = {} /\ overlaps = {}

Is(m, step) == request[m].step = step
Replied(m, step, receipt) ==
  request' = [request EXCEPT ![m] = Entry(step, @.batch, @.rows, receipt)]
To(m, step) == Replied(m, step, request[m].receipt)
Fault(b) == faults < MaxFaults /\ faults' = faults + 1 /\ excused' = excused \cup {b}

CloseSar(a) ==
  /\ a \notin closed /\ closed' = closed \cup {a}
  /\ UNCHANGED <<feedVars, rowVars, request, faults, accepted, excused, overlaps>>

-----------------------------------------------------------------------------
(* generate_batch: the SELECT, under a new id, with nothing locked.        *)
Compiling(b) == \E m \in Message : Is(m, "seal") /\ request[m].batch = b

(* Variant of Unbatched: whatever has been closed.                         *)
UnbatchedAll == closed
Unbatched == {a \in closed : stamp[a] = None}

GenerateRead(m, b) ==
  /\ request[m] = NoRequest /\ Unbatched # {}
  /\ status[b] = None /\ ~Compiling(b)
  /\ request' = [request EXCEPT ![m] = Entry("seal", b, Unbatched, None)]
  /\ overlaps' = overlaps \cup {{b, c} : c \in {c \in BatchId : Compiling(c)}}
  /\ UNCHANGED <<feedVars, closed, rowVars, faults, accepted, excused>>

(* Both statements commit, or neither; then the dashboards are told, whose *)
(* error is the answer but undoes nothing.                                 *)
GenerateSeal(m, p) ==
  LET r == request[m] IN
  /\ Is(m, "seal") /\ To(m, "done")
  /\ \/ /\ package' = [package EXCEPT ![r.batch] = r.rows]
        /\ stamp' = [a \in Alert |-> IF a \in r.rows THEN r.batch ELSE stamp[a]]
        /\ status' = [status EXCEPT ![r.batch] = "GENERATED"]
        /\ BroadcastStart(m, p)
     \/ UNCHANGED <<feedVars, rowVars>>
  /\ UNCHANGED <<closed, faults, accepted, excused, overlaps>>

-----------------------------------------------------------------------------
(* transmit_str_batch reads the package, whatever its status.              *)
TransmitRead(m, b) ==
  /\ request[m] = NoRequest /\ status[b] # None
  /\ request' = [request EXCEPT ![m] = Entry("submit", b, {}, None)]
  /\ UNCHANGED <<feedVars, closed, rowVars, faults, accepted, excused, overlaps>>

(* submit_sar: a rejection is a receipt too.  An error of the connection   *)
(* may come after the gateway has accepted.                                *)
TransmitSubmit(m) ==
  LET b == request[m].batch IN
  /\ Is(m, "submit")
  /\ \/ /\ \E receipt \in {"ACKNOWLEDGED", "REJECTED"} :
             /\ Replied(m, "update", receipt)
             /\ accepted' = IF receipt = "ACKNOWLEDGED" THEN accepted \cup {b} ELSE accepted
             /\ excused' = IF receipt = "REJECTED" THEN excused \cup {b} ELSE excused
        /\ UNCHANGED faults
     \/ /\ Fault(b) /\ To(m, "done")
        /\ accepted' \in {accepted, accepted \cup {b}}
  /\ UNCHANGED <<feedVars, closed, rowVars, overlaps>>

(* UPDATE, uncommitted: the row is locked while the dashboards are told.   *)
Locked(b) == \E m \in Message : Is(m, "tell") /\ request[m].batch = b

TransmitUpdate(m, p) ==
  /\ Is(m, "update") /\ ~Locked(request[m].batch) /\ To(m, "tell")
  /\ BroadcastStart(m, p)
  /\ UNCHANGED <<closed, rowVars, faults, accepted, excused, overlaps>>

(* Commit; an error of the broadcast rolls back.                           *)
TransmitEnd(m) ==
  LET r == request[m] IN
  /\ Is(m, "tell") /\ To(m, "done")
  /\ \/ /\ telling[m].at = "returned"
        /\ status' = [status EXCEPT ![r.batch] = r.receipt]
        /\ UNCHANGED <<faults, excused>>
     \/ /\ telling[m].at = "raised" /\ UNCHANGED <<status, faults>>
        /\ excused' = IF m \in churned THEN excused \cup {r.batch} ELSE excused
     \/ Fault(r.batch) /\ UNCHANGED status
  /\ UNCHANGED <<feedVars, closed, stamp, package, accepted, overlaps>>

-----------------------------------------------------------------------------
StrNext ==
  \/ FeedStep /\ UNCHANGED batchVars
  \/ \E a \in Alert : CloseSar(a)
  \/ \E m \in Message :
       \/ \E b \in BatchId : GenerateRead(m, b) \/ TransmitRead(m, b)
       \/ TransmitSubmit(m) \/ TransmitEnd(m)
       \/ \E p \in Process : GenerateSeal(m, p) \/ TransmitUpdate(m, p)

StrSpec == StrInit /\ [][StrNext]_strVars

StrTypeOK ==
  /\ FeedTypeOK
  /\ closed \subseteq Alert /\ stamp \in [Alert -> BatchId \cup {None}]
  /\ \A m \in Message : request[m].step \in StrSteps

(* Every report marked as batched is in the package it is marked with,     *)
(* every report in a package is marked, and one is in two packages only if *)
(* these were compiled at the same time (str_batch_engine.py:66-117).      *)
ReportsSealed ==
  /\ \A a \in Alert : stamp[a] # None => a \in package[stamp[a]]
  /\ \A b, c \in BatchId : \A a \in package[b] \cap package[c] :
       /\ stamp[a] # None
       /\ b = c \/ {b, c} \in overlaps

(* A package the gateway has accepted is ACKNOWLEDGED once nobody is       *)
(* transmitting it, unless another transmission was rejected, an answer or *)
(* a commit was lost, or a dashboard came or went while the others were    *)
(* told of it (routers/str_batch.py:145-194).                              *)
AcceptedIsAcknowledged ==
  \A b \in accepted \ excused :
    \/ status[b] = "ACKNOWLEDGED"
    \/ \E m \in Message : request[m].step \in {"update", "tell"} /\ request[m].batch = b

BatchesStand == ReportsSealed /\ AcceptedIsAcknowledged
=============================================================================
