----------------------------- MODULE SarFiling ------------------------------
(***************************************************************************)
(* Drafting, reviewing and electronically filing suspicious activity       *)
(* reports: routers/fincen.py, with services/idempotency.py and the        *)
(* gateway client services/fincen_efiling.py.  Every database statement,   *)
(* Redis command and gateway call that other requests can come between is  *)
(* a step.  faults remembers what went wrong so far, for the properties.   *)
(***************************************************************************)
EXTENDS Naturals, Sequences, FiniteSets

CONSTANTS
  Alert,       \* alerts a report can be filed for
  MaxDraft,    \* bound: sar_drafts rows
  Officer,     \* users; each has one request at a time
  Reviewer,    \* those whose role may review (MLRO, ADMIN)
  SuperAdmin,  \* those exempt from the segregation of duties
  Key,         \* idempotency keys clients send, or derived from the alert
  MaxFilings,  \* bound: reports that reach the gateway for one alert
  Faults,      \* the faults that may occur
  MaxFaults    \* bound: different faults in one behaviour

ASSUME SarAssumption ==
  /\ MaxDraft \in Nat
  /\ MaxFilings \in Nat
  /\ MaxFaults \in Nat
  /\ Reviewer \subseteq Officer
  /\ SuperAdmin \subseteq Officer

VARIABLES
  draft,    \* draft[d]: the row of sar_drafts
  alert,    \* alert[a]: fincen_filing_status and fincen_tracking_id
  key,      \* key[k]: the value of the Redis key
  req,      \* req[o]: the request of o between two of its steps
  filed,    \* filed[a]: the reports the gateway has taken, in order
  signed,   \* the approvals so far: draft and reviewer
  used,     \* used[a]: keys of the requests for a that went past the check
  faults

vars == <<draft, alert, key, req, filed, signed, used, faults>>

Draft == 1 .. MaxDraft
Nobody == "NULL"
NoDraft == 0          \* no draft: none chosen, or none checked

DraftStatus == {"none", "DRAFT", "PENDING_MLRO_REVIEW", "APPROVED", "REJECTED",
                "FILED"}
DraftRow == [status : DraftStatus, on : Alert \cup {Nobody},
             drafted_by : Officer \cup {Nobody},
             reviewed_by : Officer \cup {Nobody}]
NoRow == [status |-> "none", on |-> Nobody, drafted_by |-> Nobody,
          reviewed_by |-> Nobody]
FilingStatus == {"NULL", "FILING_PENDING", "FAILED", "ACKNOWLEDGED", "REJECTED"}

NoReq == [at |-> "idle", on |-> Nobody, key |-> Nobody, draft |-> NoDraft,
          value |-> "NULL"]
Waiting(o, step) == req[o].at = step
Moves(o, step, d, v) ==
  req' = [req EXCEPT ![o] = [at |-> step, on |-> req[o].on, key |-> req[o].key,
                             draft |-> d, value |-> v]]
Goes(o, step) == Moves(o, step, req[o].draft, req[o].value)
Done(o) == req' = [req EXCEPT ![o] = NoReq]
Starts(o, step, a, k, d, v) ==
  /\ req[o] = NoReq
  /\ req' = [req EXCEPT ![o] = [at |-> step, on |-> a, key |-> k, draft |-> d,
                                value |-> v]]
Fault(f) ==
  /\ f \in Faults
  /\ Cardinality(faults \cup {f}) <= MaxFaults
  /\ faults' = faults \cup {f}
-----------------------------------------------------------------------------
(* Drafts.                                                                 *)

CreateDraft(o, a) ==
  /\ req[o] = NoReq
  /\ \E d \in Draft :
       /\ draft[d].status = "none"
       /\ \A e \in 1 .. d - 1 : draft[e].status # "none"
       /\ draft' = [draft EXCEPT ![d] = [status |-> "PENDING_MLRO_REVIEW",
                                         on |-> a, drafted_by |-> o,
                                         reviewed_by |-> Nobody]]
  /\ UNCHANGED <<alert, key, req, filed, signed, used, faults>>

ReviewRead(o, d) ==
  /\ o \in Reviewer
  /\ draft[d].status = "PENDING_MLRO_REVIEW"
  /\ draft[d].drafted_by # o \/ o \in SuperAdmin
  /\ Starts(o, "review", draft[d].on, Nobody, d, "NULL")
  /\ UNCHANGED <<draft, alert, key, filed, signed, used, faults>>

(* An UPDATE of the status, and of the reviewer, of a draft.               *)
Set(d, status, reviewer) ==
  draft' = [draft EXCEPT ![d] = [status |-> status, on |-> draft[d].on,
                                 drafted_by |-> draft[d].drafted_by,
                                 reviewed_by |-> reviewer]]

(* UPDATE ... AND status = 'PENDING_MLRO_REVIEW', or 409.                  *)
ReviewCommit(o, verdict) ==
  /\ Waiting(o, "review")
  /\ LET d == req[o].draft
     IN IF draft[d].status = "PENDING_MLRO_REVIEW"
        THEN /\ Set(d, verdict, o)
             /\ signed' = IF verdict = "APPROVED" THEN signed \cup {<<d, o>>}
                            ELSE signed
        ELSE UNCHANGED <<draft, signed>>
  /\ Done(o)
  /\ UNCHANGED <<alert, key, filed, used, faults>>

(* Variant of EditRead: only FILED drafts are protected.                   *)
EditReadApproved(o, d, s) ==
  /\ draft[d].status \notin {"none", "FILED"}
  /\ Starts(o, "edit", draft[d].on, Nobody, d,
            IF s = "keep" THEN draft[d].status ELSE s)
  /\ UNCHANGED <<draft, alert, key, filed, signed, used, faults>>

EditRead(o, d, s) ==
  /\ draft[d].status \notin {"none", "APPROVED", "FILED"}
  /\ Starts(o, "edit", draft[d].on, Nobody, d,
            IF s = "keep" THEN draft[d].status ELSE s)
  /\ UNCHANGED <<draft, alert, key, filed, signed, used, faults>>

(* UPDATE sar_drafts SET ... status = $3, with no condition on the status. *)
EditCommit(o) ==
  /\ Waiting(o, "edit")
  /\ Set(req[o].draft, req[o].value, draft[req[o].draft].reviewed_by)
  /\ Done(o)
  /\ UNCHANGED <<alert, key, filed, signed, used, faults>>
-----------------------------------------------------------------------------
(* Filing.  clear_idempotency_key reads the key and deletes it if it is    *)
(* IN_FLIGHT; only a request that shares the key could come between.       *)
Cleared(k) == [key EXCEPT ![k] = IF @ = "IN_FLIGHT" THEN "free" ELSE @]

(* Variant of SubmitReserve: a SET without NX.                             *)
SubmitReservePlain(o, a, k, d) ==
  /\ Starts(o, "alert", a, k, d, "NULL")
  /\ key' = [key EXCEPT ![k] = "IN_FLIGHT"]
  /\ used' = [used EXCEPT ![a] = @ \cup {k}]
  /\ UNCHANGED <<draft, alert, filed, signed, faults>>

(* A submission names a draft, or leaves the choice (NoDraft).             *)
SubmitReserve(o, a, k, d) ==
  /\ Starts(o, IF key[k] = "free" THEN "alert" ELSE "cached", a, k, d, "NULL")
  /\ key' = [key EXCEPT ![k] = IF @ = "free" THEN "IN_FLIGHT" ELSE @]
  /\ used' = IF key[k] = "free" THEN [used EXCEPT ![a] = @ \cup {k}] ELSE used
  /\ UNCHANGED <<draft, alert, filed, signed, faults>>

(* The GET after a SET NX that failed: 409, the stored answer, or, when    *)
(* the key has gone in between, no protection.                             *)
SubmitCached(o) ==
  /\ Waiting(o, "cached")
  /\ \/ /\ key[req[o].key] # "free"
        /\ Done(o)
        /\ UNCHANGED <<used, faults>>
     \/ /\ key[req[o].key] = "free"
        /\ Goes(o, "alert")
        /\ used' = [used EXCEPT ![req[o].on] = @ \cup {req[o].key}]
        /\ faults' = faults \cup {"vanished"}
  /\ UNCHANGED <<draft, alert, key, filed, signed>>

(* A Redis error: "Idempotency check bypassed".                            *)
SubmitUnkeyed(o, a, k, d) ==
  /\ Fault("redis")
  /\ Starts(o, "alert", a, k, d, "NULL")
  /\ used' = [used EXCEPT ![a] = @ \cup {k}]
  /\ UNCHANGED <<draft, alert, key, filed, signed>>

(* _check_preflight_alert                                                  *)
CheckAlert(o) ==
  /\ Waiting(o, "alert")
  /\ \/ /\ alert[req[o].on].tracking = "set"
        /\ key' = Cleared(req[o].key)
        /\ Done(o)
     \/ /\ alert[req[o].on].tracking # "set"
        /\ Goes(o, "draft")
        /\ UNCHANGED key
  /\ UNCHANGED <<draft, alert, filed, signed, used, faults>>

Approved(a) == {d \in Draft : draft[d].on = a /\ draft[d].status = "APPROVED"}

(* The submission relies on d: the draft it names, whatever alert that is  *)
(* for, or the latest approved one of the alert.                           *)
Chosen(o, d) ==
  LET approved == Approved(req[o].on)
  IN IF req[o].draft # NoDraft THEN d = req[o].draft
     ELSE IF approved = {} THEN d = NoDraft
     ELSE d \in approved /\ \A e \in approved : e <= d

(* Variant of FourEyesPass: the status of the draft is not looked at.      *)
FourEyesPassAnyStatus(o, d) ==
  /\ d # NoDraft
  /\ draft[d].reviewed_by # Nobody
  /\ draft[d].drafted_by # draft[d].reviewed_by \/ o \in SuperAdmin

(* _validate_maker_checker                                                 *)
FourEyesPass(o, d) ==
  /\ d # NoDraft
  /\ draft[d].status = "APPROVED"
  /\ draft[d].reviewed_by # Nobody
  /\ draft[d].drafted_by # draft[d].reviewed_by \/ o \in SuperAdmin

(* A refusal (400, 403, 404) leaves the key IN_FLIGHT.                     *)
CheckDraft(o) ==
  /\ Waiting(o, "draft")
  /\ \E d \in Draft \cup {NoDraft} :
       /\ Chosen(o, d)
       /\ \/ FourEyesPass(o, d) /\ Moves(o, "mark", d, req[o].value)
          \/ ~FourEyesPass(o, d) /\ Done(o)
  /\ UNCHANGED <<draft, alert, key, filed, signed, used, faults>>

MarkPending(o) ==
  /\ Waiting(o, "mark")
  /\ alert' = [alert EXCEPT ![req[o].on].filing = "FILING_PENDING"]
  /\ Goes(o, "gateway")
  /\ UNCHANGED <<draft, key, filed, signed, used, faults>>

(* "Pre-flight filing check warning": an error of the database, a pool     *)
(* that is exhausted for 5 s among them, skips what is left of the checks. *)
ChecksFail(o) ==
  /\ req[o].at \in {"alert", "draft", "mark"}
  /\ Fault("db")
  /\ Moves(o, "gateway", IF req[o].at = "mark" THEN req[o].draft ELSE NoDraft,
           req[o].value)
  /\ UNCHANGED <<draft, alert, key, filed, signed, used>>

(* The gateway has the report.                                             *)
Take(o) ==
  /\ Len(filed[req[o].on]) < MaxFilings
  /\ filed' = [filed EXCEPT ![req[o].on] = Append(@, [key |-> req[o].key,
                                                      draft |-> req[o].draft])]

GatewayAccepts(o) ==
  /\ Waiting(o, "gateway")
  /\ Take(o)
  /\ Moves(o, "persist", req[o].draft, "ACKNOWLEDGED")
  /\ UNCHANGED <<draft, alert, key, signed, used, faults>>

(* Any other HTTP status is a receipt too, with a tracking id.             *)
GatewayRejects(o) ==
  /\ Waiting(o, "gateway")
  /\ Moves(o, "persist", req[o].draft, "REJECTED")
  /\ UNCHANGED <<draft, alert, key, filed, signed, used, faults>>

(* Invalid XML, or no connection.                                          *)
GatewayFails(o) ==
  /\ Waiting(o, "gateway")
  /\ Goes(o, "failed")
  /\ UNCHANGED <<draft, alert, key, filed, signed, used, faults>>

(* The report arrived and its answer did not within 30 s.                  *)
GatewayAnswerLost(o) ==
  /\ Waiting(o, "gateway")
  /\ Take(o)
  /\ Fault("lost answer")
  /\ Goes(o, "failed")
  /\ UNCHANGED <<draft, alert, key, signed, used>>

(* The FAILED is written in a transaction of its own, whose error is       *)
(* ignored; then the key is cleared.                                       *)
RecordFailure(o) ==
  /\ Waiting(o, "failed")
  /\ \/ /\ alert' = [alert EXCEPT ![req[o].on].filing = "FAILED"]
        /\ UNCHANGED faults
     \/ Fault("db") /\ UNCHANGED alert
  /\ key' = Cleared(req[o].key)
  /\ Done(o)
  /\ UNCHANGED <<draft, filed, signed, used>>

(* Variant of PersistReceipt: the tracking id of an accepted report only.  *)
PersistReceiptUntracked(o) ==
  /\ Waiting(o, "persist")
  /\ alert' = [alert EXCEPT ![req[o].on].filing = req[o].value]
  /\ IF req[o].draft = NoDraft THEN UNCHANGED draft
     ELSE Set(req[o].draft, "FILED", draft[req[o].draft].reviewed_by)
  /\ Goes(o, "save")
  /\ UNCHANGED <<key, filed, signed, used, faults>>

PersistReceipt(o) ==
  /\ Waiting(o, "persist")
  /\ alert' = [alert EXCEPT ![req[o].on] = [filing |-> req[o].value,
                                            tracking |-> "set"]]
  /\ IF req[o].draft = NoDraft THEN UNCHANGED draft
     ELSE Set(req[o].draft, "FILED", draft[req[o].draft].reviewed_by)
  /\ Goes(o, "save")
  /\ UNCHANGED <<key, filed, signed, used, faults>>

(* "FinCEN SAR post-filing persistence failed": 500, nothing else.         *)
PersistFails(o) ==
  /\ Waiting(o, "persist")
  /\ Fault("db")
  /\ Done(o)
  /\ UNCHANGED <<draft, alert, key, filed, signed, used>>

SaveResult(o) ==
  /\ Waiting(o, "save")
  /\ \/ key' = [key EXCEPT ![req[o].key] = "COMPLETED"] /\ UNCHANGED faults
     \/ Fault("redis") /\ UNCHANGED key
  /\ Done(o)
  /\ UNCHANGED <<draft, alert, filed, signed, used>>

(* The process dies, or the client's connection and with it the request.   *)
Crash(o) ==
  /\ req[o] # NoReq
  /\ Fault("crash")
  /\ Done(o)
  /\ UNCHANGED <<draft, alert, key, filed, signed, used>>

(* 24 hours have passed since the key was written.                         *)
KeyExpires(k) ==
  /\ key[k] # "free"
  /\ Fault("expired")
  /\ key' = [key EXCEPT ![k] = "free"]
  /\ UNCHANGED <<draft, alert, req, filed, signed, used>>

Init ==
  /\ draft = [d \in Draft |-> NoRow]
  /\ alert = [a \in Alert |-> [filing |-> "NULL", tracking |-> "NULL"]]
  /\ key = [k \in Key |-> "free"]
  /\ req = [o \in Officer |-> NoReq]
  /\ filed = [a \in Alert |-> <<>>]
  /\ signed = {}
  /\ used = [a \in Alert |-> {}]
  /\ faults = {}

Next ==
  \/ \E o \in Officer :
       \/ \E a \in Alert : CreateDraft(o, a)
       \/ \E d \in Draft : ReviewRead(o, d)
       \/ \E v \in {"APPROVED", "REJECTED"} : ReviewCommit(o, v)
       \/ \E d \in Draft, s \in {"DRAFT", "PENDING_MLRO_REVIEW", "keep"} :
            EditRead(o, d, s)
       \/ EditCommit(o)
       \/ \E a \in Alert, k \in Key, d \in Draft \cup {NoDraft} :
            SubmitReserve(o, a, k, d) \/ SubmitUnkeyed(o, a, k, d)
       \/ SubmitCached(o)
       \/ CheckAlert(o)
       \/ CheckDraft(o)
       \/ MarkPending(o)
       \/ ChecksFail(o)
       \/ GatewayAccepts(o)
       \/ GatewayRejects(o)
       \/ GatewayFails(o)
       \/ GatewayAnswerLost(o)
       \/ RecordFailure(o)
       \/ PersistReceipt(o)
       \/ PersistFails(o)
       \/ SaveResult(o)
       \/ Crash(o)
  \/ \E k \in Key : KeyExpires(k)

Spec == Init /\ [][Next]_vars
-----------------------------------------------------------------------------
Step == {"idle", "review", "edit", "cached", "alert", "draft", "mark", "gateway",
         "failed", "persist", "save"}
Filing == [key : Key, draft : Draft \cup {NoDraft}]

(* Types; a filing in progress has its alert, its key and, once the check  *)
(* is done, its receipt.                                                   *)
TypeOK ==
  /\ draft \in [Draft -> DraftRow]
  /\ alert \in [Alert -> [filing : FilingStatus, tracking : {"NULL", "set"}]]
  /\ key \in [Key -> {"free", "IN_FLIGHT", "COMPLETED"}]
  /\ req \in [Officer -> [at : Step, on : Alert \cup {Nobody},
                          key : Key \cup {Nobody}, draft : Draft \cup {NoDraft},
                          value : FilingStatus \cup DraftStatus]]
  /\ filed \in [Alert -> Seq(Filing)]
  /\ signed \subseteq Draft \X Officer
  /\ used \in [Alert -> SUBSET Key]
  /\ faults \subseteq Faults \cup {"vanished"}

(* A draft was approved by somebody other than its author, or by an exempt *)
(* user.                                                                   *)
Independent(d) ==
  \E o \in Reviewer : /\ <<d, o>> \in signed
                      /\ o # draft[d].drafted_by \/ o \in SuperAdmin

(* Four eyes: whatever edits and reviews overlapped with it, a report was  *)
(* filed on a draft that a second person approved, except when an error of *)
(* the database skipped the check (submit_sar_to_fincen, line 343).        *)
FourEyes ==
  \A a \in Alert : \A i \in 1 .. Len(filed[a]) :
    IF filed[a][i].draft = NoDraft THEN "db" \in faults
    ELSE Independent(filed[a][i].draft)

(* The keys keep retries and double clicks from filing again: an alert is  *)
(* filed more often than there were keys only after a Redis failure, an    *)
(* expired key, a key cleared between SET NX and GET, or an answer of the  *)
(* gateway that was lost after it had taken the report.                    *)
OneFilingPerKey ==
  \A a \in Alert :
    Len(filed[a]) > Cardinality(used[a])
      => faults \cap {"redis", "expired", "vanished", "lost answer"} # {}

(* What the gateway took is on record once the request has ended: the      *)
(* tracking id that stops the next filing is missing only after a lost     *)
(* answer, a failed write or a crash.                                      *)
FilingTracked ==
  \A a \in Alert :
    /\ filed[a] # <<>>
    /\ ~ \E o \in Officer : req[o].at = "persist" /\ req[o].on = a
    => \/ alert[a].tracking = "set"
       \/ faults \cap {"lost answer", "db", "crash"} # {}

(* Approved or filed, with no edit still to be written.                    *)
Settled(d) ==
  /\ draft[d].status \in {"APPROVED", "FILED"}
  /\ ~ \E o \in Officer : req[o].at = "edit" /\ req[o].draft = d

(* An approval can only be undone by an edit that read the draft before it *)
(* was approved (update_sar_draft: "Cannot edit SAR draft in 'APPROVED'    *)
(* state").                                                                *)
ApprovalStands == [][\A d \in Draft : Settled(d) => Settled(d)']_vars

(* Concurrent requests do not file an alert twice ("Set state to           *)
(* FILING_PENDING to prevent concurrent double-filing").                   *)
NeverFiledTwice == \A a \in Alert : Len(filed[a]) <= 1
=============================================================================
