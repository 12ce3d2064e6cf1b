--------------------------- MODULE AlertLifecycle ---------------------------
(***************************************************************************)
(* The handlers of routers/alerts.py that change an alert, with the        *)
(* transition table of services/state_machine.py.  A handler reads the     *)
(* alert, validates in the process, and updates with a guard of its own;   *)
(* the read and the update see different committed states (READ            *)
(* COMMITTED), so they are two steps.  The statements after the first      *)
(* UPDATE run under its row locks and commit with it: one step.            *)
(***************************************************************************)
EXTENDS Naturals, FiniteSets

CONSTANTS
  Alert,       \* alerts
  Tx,          \* transactions the alerts are about
  TxOf,        \* TxOf[a]: alerts.transaction_id (several alerts may share one)
  Officer,     \* users; each has one request at a time
  NewAlert     \* alerts inserted with the default of scripts/init_db.py, NEW

NoOfficer == "NULL"

ASSUME AlertAssumption ==
  /\ TxOf \in [Alert -> Tx]
  /\ NewAlert \subseteq Alert
  /\ NoOfficer \notin Officer

VARIABLES
  alert,   \* alert[a]: status and assigned_officer_id
  tx,      \* tx[t]: transactions.status
  audit,   \* audit[a]: verdicts audit_log holds for a, with the kind of event
  req      \* req[o]: the request of officer o between its read and its update

vars == <<alert, tx, audit, req>>

Status == {"NEW", "OPEN", "CLAIMED", "IN_REVIEW", "ESCALATED", "PENDING_SAR",
           "CLOSED_SAR", "CLOSED_FALSE_POSITIVE", "CLOSED"}
Terminal == {"CLOSED_SAR", "CLOSED_FALSE_POSITIVE", "CLOSED"}
Verdict == {"CLOSED_SAR", "CLOSED_FALSE_POSITIVE"}
TxStatus == {"HELD", "COMPLETED", "REJECTED"}

(* ALERT_TRANSITIONS                                                       *)
AlertTransitions ==
  [s \in Status |->
    CASE s = "NEW" -> {"OPEN", "CLAIMED", "IN_REVIEW", "ESCALATED"}
      [] s = "OPEN" -> {"CLAIMED", "IN_REVIEW", "ESCALATED"} \cup Verdict
      [] s = "CLAIMED" -> {"IN_REVIEW", "ESCALATED"} \cup Verdict
      [] s = "IN_REVIEW" -> {"ESCALATED", "PENDING_SAR"} \cup Verdict
      [] s = "ESCALATED" -> {"PENDING_SAR"} \cup Verdict
      [] s = "PENDING_SAR" -> {"CLOSED"} \cup Verdict
      [] s \in Terminal -> {}]

(* validate_alert_transition returns; otherwise it raises a 400.           *)
Valid(from, to) ==
  /\ from \notin Terminal
  /\ from = to \/ to \in AlertTransitions[from]

NoReq == [op |-> "none", on |-> {}, target |-> "OPEN", seen |-> "OPEN"]
Req == [op : {"none", "claim", "escalate", "resolve", "bulk"},
        on : SUBSET Alert, target : Status, seen : Status]

(* The request of o has read its alerts, and goes on to update those in S. *)
Reads(o, op, S, target, seen) ==
  /\ req[o] = NoReq
  /\ req' = [req EXCEPT ![o] = [op |-> op, on |-> S, target |-> target,
                                seen |-> seen]]
  /\ UNCHANGED <<alert, tx, audit>>
Done(o) == req' = [req EXCEPT ![o] = NoReq]

(* UPDATE transactions ... AND status = 'HELD'                             *)
TxVerdict(v) == IF v = "CLOSED_FALSE_POSITIVE" THEN "COMPLETED" ELSE "REJECTED"
Settle(T, v) ==
  tx' = [t \in Tx |-> IF t \in T /\ tx[t] = "HELD" THEN TxVerdict(v) ELSE tx[t]]

Record(S, kind, v) ==
  audit' = [a \in Alert |-> IF a \in S THEN audit[a] \cup {<<kind, v>>}
                                       ELSE audit[a]]

-----------------------------------------------------------------------------
Init ==
  /\ alert = [a \in Alert |->
                [status |-> IF a \in NewAlert THEN "NEW" ELSE "OPEN",
                 officer |-> NoOfficer]]
  /\ tx = [t \in Tx |-> "HELD"]
  /\ audit = [a \in Alert |-> {}]
  /\ req = [o \in Officer |-> NoReq]

(* resolve_alert: read and validate ...                                    *)
ResolveRead(o, a, v) ==
  /\ Valid(alert[a].status, v)
  /\ Reads(o, "resolve", {a}, v, alert[a].status)

(* Variant of ResolveCommit: the UPDATE without the status it was decided  *)
(* on.                                                                     *)
ResolveCommitNoCAS(o) ==
  /\ req[o].op = "resolve"
  /\ \E a \in req[o].on :
       /\ alert' = [alert EXCEPT ![a] = [status |-> req[o].target, officer |-> o]]
       /\ Settle({TxOf[a]}, req[o].target)
       /\ Record({a}, "single", req[o].target)
  /\ Done(o)
(* Variant of ResolveCommit: the held transaction is forgotten.            *)
ResolveCommitNoRelease(o) ==
  /\ req[o].op = "resolve"
  /\ \E a \in req[o].on :
       /\ alert[a].status = req[o].seen
       /\ alert' = [alert EXCEPT ![a] = [status |-> req[o].target, officer |-> o]]
       /\ Record({a}, "single", req[o].target)
  /\ UNCHANGED tx
  /\ Done(o)

(* ... compare-and-swap on the status, settle the held transaction, audit; *)
(* a lost comparison is a 409 and rolls back.                              *)
ResolveCommit(o) ==
  /\ req[o].op = "resolve"
  /\ \E a \in req[o].on :
       IF alert[a].status = req[o].seen
       THEN /\ alert' = [alert EXCEPT ![a] = [status |-> req[o].target,
                                              officer |-> o]]
            /\ Settle({TxOf[a]}, req[o].target)
            /\ Record({a}, "single", req[o].target)
       ELSE UNCHANGED <<alert, tx, audit>>
  /\ Done(o)

(* assign_alert: one unconditional UPDATE, whatever the status.            *)
Assign(a, officer) ==
  /\ alert' = [alert EXCEPT ![a].officer = officer]
  /\ UNCHANGED <<tx, audit, req>>

EscalateRead(o, a) ==
  /\ Valid(alert[a].status, "ESCALATED")
  /\ Reads(o, "escalate", {a}, "ESCALATED", alert[a].status)

(* Variant of EscalateCommit: without the guard on terminal states.        *)
EscalateCommitUnguarded(o) ==
  /\ req[o].op = "escalate"
  /\ alert' = [a \in Alert |-> IF a \in req[o].on
                               THEN [status |-> "ESCALATED", officer |-> o]
                               ELSE alert[a]]
  /\ Done(o)
  /\ UNCHANGED <<tx, audit>>

(* The UPDATE asks only that the alert is not closed by now.               *)
EscalateCommit(o) ==
  /\ req[o].op = "escalate"
  /\ alert' = [a \in Alert |-> IF a \in req[o].on /\ alert[a].status \notin Terminal
                               THEN [status |-> "ESCALATED", officer |-> o]
                               ELSE alert[a]]
  /\ Done(o)
  /\ UNCHANGED <<tx, audit>>

(* _validate_claim_eligibility                                             *)
ClaimRead(o, a) ==
  /\ alert[a].officer \in {NoOfficer, o}
  /\ alert[a].status \notin Terminal
  /\ Reads(o, "claim", {a}, "IN_REVIEW", alert[a].status)

Claimed(w, o) == [status |-> IF w.status \in {"NEW", "OPEN"} THEN "IN_REVIEW"
                                                             ELSE w.status,
                  officer |-> o]

(* Variant of ClaimCommit: the new status is computed before the UPDATE.   *)
ClaimCommitStale(o) ==
  /\ req[o].op = "claim"
  /\ \E a \in req[o].on :
       alert' = [alert EXCEPT ![a] =
         IF alert[a].officer \in {NoOfficer, o}
         THEN Claimed([status |-> req[o].seen], o)
         ELSE alert[a]]
  /\ Done(o)
  /\ UNCHANGED <<tx, audit>>

(* Compare-and-swap on the officer; the new status is computed by the      *)
(* UPDATE itself from the row as it is now.                                *)
ClaimCommit(o) ==
  /\ req[o].op = "claim"
  /\ \E a \in req[o].on :
       alert' = [alert EXCEPT ![a] = IF @.officer \in {NoOfficer, o}
                                     THEN Claimed(@, o) ELSE @]
  /\ Done(o)
  /\ UNCHANGED <<tx, audit>>

(* _filter_valid_alert_transitions, on the alerts of a request as read.    *)
Eligible(S, v) == {a \in S : Valid(alert[a].status, v)}

(* bulk_resolve_alerts: with no eligible alert there is nothing to do.     *)
BulkRead(o, S, v) ==
  /\ Eligible(S, v) # {}
  /\ Reads(o, "bulk", Eligible(S, v), v, "OPEN")

(* The UPDATE skips the alerts closed meanwhile; their transactions and    *)
(* the audit event are not filtered again.                                 *)
BulkCommit(o) ==
  /\ req[o].op = "bulk"
  /\ alert' = [a \in Alert |-> IF a \in req[o].on /\ alert[a].status \notin Terminal
                               THEN [status |-> req[o].target, officer |-> o]
                               ELSE alert[a]]
  /\ Settle({TxOf[a] : a \in req[o].on}, req[o].target)
  /\ Record(req[o].on, "bulk", req[o].target)
  /\ Done(o)

(* The handler is cut short, or an exception rolls its transaction back.   *)
Abort(o) ==
  /\ req[o] # NoReq
  /\ Done(o)
  /\ UNCHANGED <<alert, tx, audit>>

(* patch_alert is assign_alert, if it names an officer, and after that     *)
(* resolve_alert or escalate_alert, each in its own transaction: steps of  *)
(* these kinds, one after the other.                                       *)
Next ==
  \E o \in Officer :
    \/ \E a \in Alert, v \in Verdict : ResolveRead(o, a, v)
    \/ \E a \in Alert : EscalateRead(o, a) \/ ClaimRead(o, a) \/ Assign(a, o)
    \/ \E S \in SUBSET Alert, v \in Verdict : BulkRead(o, S, v)
    \/ ResolveCommit(o) \/ EscalateCommit(o) \/ ClaimCommit(o) \/ BulkCommit(o)
    \/ Abort(o)

Spec == Init /\ [][Next]_vars

-----------------------------------------------------------------------------
(* Every variable has its type.                                            *)
TypeOK ==
  /\ alert \in [Alert -> [status : Status, officer : Officer \cup {NoOfficer}]]
  /\ tx \in [Tx -> TxStatus]
  /\ audit \in [Alert -> SUBSET ({"single", "bulk"} \X Status)]
  /\ req \in [Officer -> Req]

(* Every committed change of a status is one the transition table allows,  *)
(* although escalation and bulk resolution validate one state and update   *)
(* another (validate_alert_transition, "strict, non-bypassable").          *)
TransitionsFollowTable ==
  [][\A a \in Alert : alert'[a].status # alert[a].status
       => alert'[a].status \in AlertTransitions[alert[a].status]]_vars

(* A closed alert has settled its transaction, so a held transaction has   *)
(* open alerts only.                                                       *)
ClosedSettles == \A a \in Alert : alert[a].status \in Terminal => tx[TxOf[a]] # "HELD"

(* A held transaction was released or rejected for a reason: an alert on   *)
(* it was closed with that verdict.                                        *)
SettledByVerdict ==
  \A t \in Tx : tx[t] # "HELD" =>
    \E a \in Alert : TxOf[a] = t /\ alert[a].status \in Verdict
                     /\ TxVerdict(alert[a].status) = tx[t]

(* A closed alert was audited with its verdict, and what resolve_alert     *)
(* audited is what the alert is: one event, one verdict.                   *)
AuditComplete ==
  \A a \in Alert :
    /\ alert[a].status \in Terminal => \E e \in audit[a] : e[2] = alert[a].status
    /\ \A v \in Verdict : <<"single", v>> \in audit[a] => alert[a].status = v

(* What the handlers rely on between read and update: the alerts of a      *)
(* request had left NEW if the verdict needs it, and no alert returns to   *)
(* NEW; the states that only the table knows are never entered.            *)
RequestsValidated ==
  /\ \A a \in Alert : alert[a].status \notin {"CLAIMED", "PENDING_SAR", "CLOSED"}
  /\ \A o \in Officer :
       /\ req[o].op \in {"resolve", "bulk"} =>
            /\ req[o].target \in Verdict
            /\ \A a \in req[o].on : alert[a].status # "NEW"
       /\ req[o].op = "resolve" => Valid(req[o].seen, req[o].target)
=============================================================================
