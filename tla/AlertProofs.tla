----------------------------- MODULE AlertProofs ----------------------------
(* Proofs about AlertLifecycle, for any alerts, transactions and officers. *)
EXTENDS AlertLifecycle, TLAPS

Event == {"single", "bulk"} \X Status

(* Recording an event keeps the audit log an audit log.                    *)
LEMMA RecordType ==
  ASSUME audit \in [Alert -> SUBSET Event],
         NEW S, NEW kind \in {"single", "bulk"}, NEW v \in Status,
         Record(S, kind, v)
  PROVE  audit' \in [Alert -> SUBSET Event]
<1>1. <<kind, v>> \in Event
  BY DEF Event
<1>2. \A a \in Alert : audit[a] \cup {<<kind, v>>} \in SUBSET Event
  BY <1>1
<1> QED
  BY <1>2 DEF Record

(* Settling transactions leaves each of them in a status of its type.      *)
LEMMA SettleType ==
  ASSUME tx \in [Tx -> TxStatus], NEW T, NEW v, Settle(T, v)
  PROVE  tx' \in [Tx -> TxStatus]
BY DEF Settle, TxVerdict, TxStatus

(* Every variable of the alert handlers keeps its type.                    *)
THEOREM AlertTypeOK == Spec => []TypeOK
<1> USE AlertAssumption DEF TypeOK, Status, Terminal, Verdict, TxStatus, Req, NoReq
<1>1. Init => TypeOK
  BY DEF Init
<1>2. TypeOK /\ [Next]_vars => TypeOK'
  <2> SUFFICES ASSUME TypeOK, [Next]_vars PROVE TypeOK'
    OBVIOUS
  <2>a. audit \in [Alert -> SUBSET Event]
    BY DEF Event
  <2> USE DEF Reads, Done
  <2>1. ASSUME NEW o \in Officer, NEW a \in Alert, NEW v \in Verdict,
               ResolveRead(o, a, v)
        PROVE TypeOK'
    BY <2>1 DEF ResolveRead
  <2>2. ASSUME NEW o \in Officer, NEW a \in Alert, EscalateRead(o, a)
        PROVE TypeOK'
    BY <2>2 DEF EscalateRead
  <2>3. ASSUME NEW o \in Officer, NEW a \in Alert, ClaimRead(o, a)
        PROVE TypeOK'
    BY <2>3 DEF ClaimRead
  <2>4. ASSUME NEW o \in Officer, NEW a \in Alert, Assign(a, o)
        PROVE TypeOK'
    BY <2>4 DEF Assign
  <2>5. ASSUME NEW o \in Officer, NEW S \in SUBSET Alert, NEW v \in Verdict,
               BulkRead(o, S, v)
        PROVE TypeOK'
    BY <2>5 DEF BulkRead, Eligible
  <2>6. ASSUME NEW o \in Officer, ResolveCommit(o)
        PROVE TypeOK'
    <3>1. PICK a \in req[o].on :
            IF alert[a].status = req[o].seen
            THEN /\ alert' = [alert EXCEPT ![a] = [status |-> req[o].target,
                                                   officer |-> o]]
                 /\ Settle({TxOf[a]}, req[o].target)
                 /\ Record({a}, "single", req[o].target)
            ELSE UNCHANGED <<alert, tx, audit>>
      BY <2>6 DEF ResolveCommit
    <3>2. a \in Alert /\ req[o].target \in Status /\ req' \in [Officer -> Req]
      BY <2>6 DEF ResolveCommit
    <3>3. CASE alert[a].status = req[o].seen
      <4>1. alert' \in [Alert -> [status : Status, officer : Officer \cup {NoOfficer}]]
        <5>1. [status |-> req[o].target, officer |-> o]
                \in [status : Status, officer : Officer \cup {NoOfficer}]
          BY <3>2
        <5> QED BY <3>1, <3>2, <3>3, <5>1
      <4>2. tx' \in [Tx -> TxStatus]
        BY <3>1, <3>3, SettleType
      <4>3. audit' \in [Alert -> SUBSET Event]
        BY <3>1, <3>2, <3>3, <2>a, RecordType
      <4> QED
        BY <3>2, <4>1, <4>2, <4>3 DEF Event
    <3>4. CASE alert[a].status # req[o].seen
      BY <3>1, <3>2, <3>4
    <3> QED
      BY <3>3, <3>4
  <2>7. ASSUME NEW o \in Officer, EscalateCommit(o)
        PROVE TypeOK'
    BY <2>7 DEF EscalateCommit
  <2>8. ASSUME NEW o \in Officer, ClaimCommit(o)
        PROVE TypeOK'
    <3>1. PICK a \in req[o].on :
            alert' = [alert EXCEPT ![a] = IF alert[a].officer \in {NoOfficer, o}
                                          THEN Claimed(alert[a], o) ELSE alert[a]]
      BY <2>8 DEF ClaimCommit
    <3>2. a \in Alert
      BY <2>8 DEF ClaimCommit
    <3>3. Claimed(alert[a], o) \in [status : Status, officer : Officer \cup {NoOfficer}]
      BY <3>2 DEF Claimed
    <3> QED
      BY <2>8, <3>1, <3>2, <3>3 DEF ClaimCommit
  <2>9. ASSUME NEW o \in Officer, BulkCommit(o)
        PROVE TypeOK'
    <3>1. alert' \in [Alert -> [status : Status, officer : Officer \cup {NoOfficer}]]
      BY <2>9 DEF BulkCommit
    <3>2. tx' \in [Tx -> TxStatus]
      BY <2>9, SettleType DEF BulkCommit
    <3>3. audit' \in [Alert -> SUBSET Event]
      <4>1. req[o].target \in Status
        OBVIOUS
      <4> QED
        BY <2>9, <2>a, <4>1, RecordType DEF BulkCommit
    <3> QED
      BY <2>9, <3>1, <3>2, <3>3 DEF BulkCommit, Event
  <2>10. ASSUME NEW o \in Officer, Abort(o)
         PROVE TypeOK'
    BY <2>10 DEF Abort
  <2>11. CASE UNCHANGED vars
    BY <2>11 DEF vars
  <2> HIDE DEF TypeOK, Status, Terminal, Verdict, TxStatus, Req, NoReq, Reads, Done
  <2>12. CASE Next
    <3>1. PICK o \in Officer :
            \/ \E a \in Alert, v \in Verdict : ResolveRead(o, a, v)
            \/ \E a \in Alert : EscalateRead(o, a) \/ ClaimRead(o, a) \/ Assign(a, o)
            \/ \E S \in SUBSET Alert, v \in Verdict : BulkRead(o, S, v)
            \/ ResolveCommit(o) \/ EscalateCommit(o) \/ ClaimCommit(o) \/ BulkCommit(o)
            \/ Abort(o)
      BY <2>12 DEF Next
    <3> QED
      BY <3>1, <2>1, <2>2, <2>3, <2>4, <2>5, <2>6, <2>7, <2>8, <2>9, <2>10, Zenon
  <2> QED
    BY <2>11, <2>12
<1> QED
  BY <1>1, <1>2, PTL DEF Spec

-----------------------------------------------------------------------------
Inv == TypeOK /\ RequestsValidated /\ ClosedSettles /\ SettledByVerdict
         /\ AuditComplete

(* What one handler step may do to an alert: nothing to its status, or a   *)
(* transition of the table to a state the handlers use; only verdicts      *)
(* close an alert, and they settle its transaction and are audited.        *)
Moves(a) ==
  /\ alert'[a].status # alert[a].status =>
       /\ alert[a].status \notin Terminal
       /\ alert'[a].status \in AlertTransitions[alert[a].status]
       /\ alert'[a].status \in {"IN_REVIEW", "ESCALATED"} \cup Verdict
  /\ alert'[a].status # alert[a].status /\ alert'[a].status \in Verdict =>
       /\ tx'[TxOf[a]] # "HELD"
       /\ \E e \in audit'[a] : e[2] = alert'[a].status

LEMMA Settled ==
  ASSUME NEW T, NEW v, Settle(T, v), NEW t \in Tx, t \in T
  PROVE  tx'[t] # "HELD"
BY DEF Settle, TxVerdict

LEMMA Recorded ==
  ASSUME NEW S, NEW kind, NEW v, Record(S, kind, v), NEW a \in Alert, a \in S
  PROVE  \E e \in audit'[a] : e[2] = v
<1>1. <<kind, v>> \in audit'[a]
  BY DEF Record
<1>2. <<kind, v>>[2] = v
  OBVIOUS
<1> QED
  BY <1>1, <1>2

LEMMA StepMoves == Inv /\ Next => \A a \in Alert : Moves(a)
<1> SUFFICES ASSUME Inv, Next, NEW a \in Alert PROVE Moves(a)
  OBVIOUS
<1> USE AlertAssumption DEF Inv, TypeOK, RequestsValidated, Status, Terminal,
        Verdict, TxStatus, Req, NoReq, AlertTransitions
<1>1. ASSUME UNCHANGED alert PROVE Moves(a)
  BY <1>1 DEF Moves
<1>2. ASSUME NEW o \in Officer, NEW b \in Alert, Assign(b, o) PROVE Moves(a)
  BY <1>2 DEF Assign, Moves
<1>3. ASSUME NEW o \in Officer, EscalateCommit(o) PROVE Moves(a)
  BY <1>3 DEF EscalateCommit, Moves
<1>4. ASSUME NEW o \in Officer, ClaimCommit(o) PROVE Moves(a)
  BY <1>4 DEF ClaimCommit, Claimed, Moves
<1>5. ASSUME NEW o \in Officer, ResolveCommit(o) PROVE Moves(a)
  <2>1. PICK b \in req[o].on :
          IF alert[b].status = req[o].seen
          THEN /\ alert' = [alert EXCEPT ![b] = [status |-> req[o].target,
                                                 officer |-> o]]
               /\ Settle({TxOf[b]}, req[o].target)
               /\ Record({b}, "single", req[o].target)
          ELSE UNCHANGED <<alert, tx, audit>>
    BY <1>5 DEF ResolveCommit
  <2>2. CASE a # b \/ alert[b].status # req[o].seen
    BY <1>5, <2>1, <2>2 DEF ResolveCommit, Moves
  <2>3. CASE a = b /\ alert[b].status = req[o].seen
    <3>1. Valid(alert[a].status, req[o].target) /\ req[o].target \in Verdict
      BY <1>5, <2>3 DEF ResolveCommit
    <3>2. alert'[a].status = req[o].target
      BY <2>1, <2>3
    <3>3. tx'[TxOf[a]] # "HELD"
      BY <2>1, <2>3, Settled
    <3>4. \E e \in audit'[a] : e[2] = req[o].target
      BY <2>1, <2>3, Recorded
    <3> QED
      BY <3>1, <3>2, <3>3, <3>4 DEF Moves, Valid
  <2> QED
    BY <2>2, <2>3
<1>6. ASSUME NEW o \in Officer, BulkCommit(o) PROVE Moves(a)
  <2>1. CASE a \notin req[o].on \/ alert[a].status \in Terminal
    BY <1>6, <2>1 DEF BulkCommit, Moves
  <2>2. CASE a \in req[o].on /\ alert[a].status \notin Terminal
    <3>1. alert'[a].status = req[o].target
      BY <1>6, <2>2 DEF BulkCommit
    <3>2. req[o].target \in Verdict /\ alert[a].status # "NEW"
      BY <1>6, <2>2 DEF BulkCommit
    <3>3. tx'[TxOf[a]] # "HELD"
      BY <1>6, <2>2, Settled DEF BulkCommit
    <3>4. \E e \in audit'[a] : e[2] = req[o].target
      BY <1>6, <2>2, Recorded DEF BulkCommit
    <3> QED
      BY <2>2, <3>1, <3>2, <3>3, <3>4 DEF Moves
  <2> QED
    BY <2>1, <2>2
<1> HIDE DEF Inv, TypeOK, RequestsValidated, Status, Terminal,
        Verdict, TxStatus, Req, NoReq, AlertTransitions
<1> QED
  BY <1>1, <1>2, <1>3, <1>4, <1>5, <1>6
  DEF Next, ResolveRead, EscalateRead, ClaimRead, BulkRead, Eligible, Abort, Reads

-----------------------------------------------------------------------------
(* What one step may do to the request of an officer.                      *)
Proceeds(o) ==
  \/ req'[o] = req[o]
  \/ req'[o] = NoReq
  \/ req'[o].op \in {"claim", "escalate"}
  \/ /\ req'[o].op \in {"resolve", "bulk"}
     /\ req'[o].target \in Verdict
     /\ \A a \in req'[o].on : alert'[a].status # "NEW"
     /\ req'[o].op = "resolve" => Valid(req'[o].seen, req'[o].target)

LEMMA StepProceeds == Inv /\ Next => \A o \in Officer : Proceeds(o)
<1> SUFFICES ASSUME Inv, Next, NEW p \in Officer PROVE Proceeds(p)
  OBVIOUS
<1> USE DEF Inv, TypeOK, Req, Proceeds, Reads, Done
<1>1. ASSUME NEW o \in Officer, NEW a \in Alert, NEW v \in Verdict,
             ResolveRead(o, a, v)
      PROVE  Proceeds(p)
  BY <1>1 DEF ResolveRead, Valid, AlertTransitions, Status, Verdict, Terminal
<1>2. ASSUME NEW o \in Officer, NEW a \in Alert, EscalateRead(o, a) \/ ClaimRead(o, a)
      PROVE  Proceeds(p)
  BY <1>2 DEF EscalateRead, ClaimRead
<1>3. ASSUME NEW o \in Officer, NEW S \in SUBSET Alert, NEW v \in Verdict,
             BulkRead(o, S, v)
      PROVE  Proceeds(p)
  BY <1>3 DEF BulkRead, Eligible, Valid, AlertTransitions, Status, Verdict, Terminal
<1>4. ASSUME NEW o \in Officer,
             ResolveCommit(o) \/ EscalateCommit(o) \/ ClaimCommit(o)
               \/ BulkCommit(o) \/ Abort(o)
      PROVE  Proceeds(p)
  BY <1>4 DEF ResolveCommit, EscalateCommit, ClaimCommit, BulkCommit, Abort
<1>5. ASSUME NEW o \in Officer, NEW a \in Alert, Assign(a, o) PROVE Proceeds(p)
  BY <1>5 DEF Assign
<1> HIDE DEF Inv, TypeOK, Req, Proceeds, Reads, Done
<1> QED
  BY <1>1, <1>2, <1>3, <1>4, <1>5 DEF Next

LEMMA ValidatedStep == Inv /\ [Next]_vars => RequestsValidated'
<1> SUFFICES ASSUME Inv, [Next]_vars PROVE RequestsValidated'
  OBVIOUS
<1>1. CASE UNCHANGED vars
  BY <1>1 DEF vars, Inv, RequestsValidated
<1>2. CASE Next
  <2>1. \A a \in Alert : Moves(a)
    BY <1>2, StepMoves
  <2>2. \A a \in Alert : /\ alert'[a].status \notin {"CLAIMED", "PENDING_SAR", "CLOSED"}
                        /\ alert[a].status # "NEW" => alert'[a].status # "NEW"
    BY <2>1 DEF Moves, Inv, RequestsValidated, Verdict
  <2>3. \A o \in Officer : Proceeds(o)
    BY <1>2, StepProceeds
  <2>4. ASSUME NEW o \in Officer
        PROVE  /\ req'[o].op \in {"resolve", "bulk"} =>
                    /\ req'[o].target \in Verdict
                    /\ \A a \in req'[o].on : alert'[a].status # "NEW"
               /\ req'[o].op = "resolve" => Valid(req'[o].seen, req'[o].target)
    <3>1. CASE req'[o] = req[o]
      <4>1. req[o].on \subseteq Alert
        BY DEF Inv, TypeOK, Req
      <4> QED
        BY <3>1, <4>1, <2>2 DEF Inv, RequestsValidated
    <3>2. CASE req'[o] # req[o]
      BY <2>3, <3>2 DEF Proceeds, NoReq
    <3> QED
      BY <3>1, <3>2
  <2>5. \A a \in Alert : alert'[a].status \notin {"CLAIMED", "PENDING_SAR", "CLOSED"}
    BY <2>1 DEF Moves, Inv, RequestsValidated, Verdict
  <2>6. \A o \in Officer :
          /\ req'[o].op \in {"resolve", "bulk"} =>
               /\ req'[o].target \in Verdict
               /\ \A a \in req'[o].on : alert'[a].status # "NEW"
          /\ req'[o].op = "resolve" => Valid(req'[o].seen, req'[o].target)
    BY <2>4
  <2> QED
    BY <2>5, <2>6 DEF RequestsValidated, Valid
<1> QED
  BY <1>1, <1>2

(* The steps that settle transactions or record events, in one form.       *)
Resolution(S, kind, v) ==
  /\ Settle({TxOf[a] : a \in S}, v)
  /\ Record(S, kind, v)
  /\ v \in Verdict /\ S \subseteq Alert
  /\ kind \in {"single", "bulk"}
  /\ \A a \in S : alert[a].status \notin Terminal => alert'[a].status = v
  /\ kind = "single" => \A a \in S : alert'[a].status = v

LEMMA StepResolves ==
  Inv /\ Next => \/ UNCHANGED <<tx, audit>>
                 \/ \E S, kind, v : Resolution(S, kind, v)
<1> SUFFICES ASSUME Inv, Next, ~UNCHANGED <<tx, audit>>
             PROVE  \E S, kind, v : Resolution(S, kind, v)
  OBVIOUS
<1>1. PICK o \in Officer : ResolveCommit(o) \/ BulkCommit(o)
  BY Zenon DEF Next, ResolveRead, EscalateRead, ClaimRead, BulkRead, Eligible, Assign, Abort, Reads,
               EscalateCommit, ClaimCommit
<1>2. req[o] \in Req
  BY DEF Inv, TypeOK
<1>3. CASE BulkCommit(o)
  <2>1. Resolution(req[o].on, "bulk", req[o].target)
    BY <1>2, <1>3 DEF BulkCommit, Resolution, Inv, RequestsValidated, Req, TypeOK
  <2> QED
    BY <2>1
<1>4. CASE ResolveCommit(o)
  <2>1. PICK b \in req[o].on :
          /\ alert' = [alert EXCEPT ![b] = [status |-> req[o].target, officer |-> o]]
          /\ Settle({TxOf[b]}, req[o].target)
          /\ Record({b}, "single", req[o].target)
    BY <1>4 DEF ResolveCommit
  <2>2. b \in Alert /\ req[o].target \in Verdict
    BY <1>2, <1>4 DEF ResolveCommit, Inv, RequestsValidated, Req
  <2>3. {TxOf[a] : a \in {b}} = {TxOf[b]}
    OBVIOUS
  <2>4. alert'[b].status = req[o].target
    BY <2>1, <2>2 DEF Inv, TypeOK
  <2>5. Resolution({b}, "single", req[o].target)
    BY <2>1, <2>2, <2>3, <2>4 DEF Resolution
  <2> QED
    BY <2>5
<1> QED
  BY <1>1, <1>3, <1>4

LEMMA SettledStep ==
  Inv /\ [Next]_vars => ClosedSettles' /\ SettledByVerdict' /\ AuditComplete'
<1> SUFFICES ASSUME Inv, [Next]_vars
             PROVE  ClosedSettles' /\ SettledByVerdict' /\ AuditComplete'
  OBVIOUS
<1>1. CASE UNCHANGED vars
  BY <1>1 DEF vars, Inv, ClosedSettles, SettledByVerdict, AuditComplete
<1>2. CASE Next
  <2>1. \A a \in Alert : Moves(a)
    BY <1>2, StepMoves
  <2>2. \A a \in Alert : alert[a].status \in Terminal => alert'[a].status = alert[a].status
    BY <2>1 DEF Moves
  <2>3. \/ UNCHANGED <<tx, audit>>
        \/ \E S, kind, v : Resolution(S, kind, v)
    BY <1>2, StepResolves
  <2>4. \A t \in Tx : tx[t] # "HELD" => tx'[t] = tx[t]
    BY <2>3 DEF Resolution, Settle
  <2>5. \A a \in Alert : audit[a] \subseteq audit'[a]
    BY <2>3 DEF Resolution, Record
  <2>6. \A a \in Alert : TxOf[a] \in Tx
    BY AlertAssumption
  <2>7. ClosedSettles'
    BY <2>1, <2>2, <2>4, <2>6 DEF Inv, ClosedSettles, Moves, Terminal, Verdict
  <2>8. SettledByVerdict'
    <3> SUFFICES ASSUME NEW t \in Tx, tx'[t] # "HELD"
                 PROVE  \E a \in Alert : /\ TxOf[a] = t /\ alert'[a].status \in Verdict
                                        /\ TxVerdict(alert'[a].status) = tx'[t]
      BY DEF SettledByVerdict
    <3>1. CASE tx[t] # "HELD"
      BY <3>1, <2>2, <2>4 DEF Inv, SettledByVerdict, Verdict, Terminal
    <3>2. CASE tx[t] = "HELD"
      <4>1. PICK S, kind, v : Resolution(S, kind, v)
        BY <3>2, <2>3
      <4>2. t \in {TxOf[a] : a \in S} /\ tx'[t] = TxVerdict(v)
        BY <4>1, <3>2 DEF Resolution, Settle
      <4>3. PICK a \in S : TxOf[a] = t
        BY <4>2
      <4>4. a \in Alert /\ alert[a].status \notin Terminal
        BY <4>1, <4>3, <3>2 DEF Resolution, Inv, ClosedSettles
      <4>5. alert'[a].status = v /\ v \in Verdict
        BY <4>1, <4>3, <4>4 DEF Resolution
      <4> QED
        BY <4>2, <4>3, <4>4, <4>5
    <3> QED
      BY <3>1, <3>2
  <2>9. AuditComplete'
    <3>1. ASSUME NEW a \in Alert, alert'[a].status \in Terminal
          PROVE  \E e \in audit'[a] : e[2] = alert'[a].status
      <4>1. CASE alert'[a].status = alert[a].status
        BY <3>1, <4>1, <2>5 DEF Inv, AuditComplete
      <4>2. CASE alert'[a].status # alert[a].status
        BY <3>1, <4>2, <2>1 DEF Moves, Terminal, Verdict
      <4> QED
        BY <4>1, <4>2
    <3>2. ASSUME NEW a \in Alert, NEW v \in Verdict, <<"single", v>> \in audit'[a]
          PROVE  alert'[a].status = v
      <4>1. CASE <<"single", v>> \in audit[a]
        BY <4>1, <2>2 DEF Inv, AuditComplete, Verdict, Terminal
      <4>2. CASE <<"single", v>> \notin audit[a]
        <5>1. PICK S, kind, w : Resolution(S, kind, w)
          BY <4>2, <3>2, <2>3
        <5>2. a \in S /\ <<"single", v>> = <<kind, w>>
          BY <5>1, <4>2, <3>2 DEF Resolution, Record
        <5>3. kind = "single" /\ w = v
          BY <5>2
        <5> QED
          BY <5>1, <5>2, <5>3 DEF Resolution
      <4> QED
        BY <4>1, <4>2
    <3> QED
      BY <3>1, <3>2 DEF AuditComplete
  <2> QED
    BY <2>7, <2>8, <2>9
<1> QED
  BY <1>1, <1>2

LEMMA InvAlways == Spec => []Inv
<1>1. Init => RequestsValidated /\ ClosedSettles /\ SettledByVerdict /\ AuditComplete
  BY AlertAssumption
  DEF Init, RequestsValidated, ClosedSettles, SettledByVerdict, AuditComplete,
      NoReq, Terminal
<1>2. TypeOK /\ RequestsValidated /\ ClosedSettles /\ SettledByVerdict
        /\ AuditComplete /\ [Next]_vars
      => RequestsValidated' /\ ClosedSettles' /\ SettledByVerdict' /\ AuditComplete'
  BY ValidatedStep, SettledStep DEF Inv
<1>3. Spec => [](RequestsValidated /\ ClosedSettles /\ SettledByVerdict
                   /\ AuditComplete)
  BY <1>1, <1>2, AlertTypeOK, PTL DEF Spec
<1> QED
  BY <1>3, AlertTypeOK, PTL DEF Inv

(* A closed alert has settled its transaction.                             *)
THEOREM AlertClosedSettles == Spec => []ClosedSettles
BY InvAlways, PTL DEF Inv

(* A held transaction was settled by the verdict of one of its alerts.     *)
THEOREM AlertSettledByVerdict == Spec => []SettledByVerdict
BY InvAlways, PTL DEF Inv

(* Every closed alert was audited, and resolve_alert audits no verdict but *)
(* the one that took effect.                                               *)
THEOREM AlertAuditComplete == Spec => []AuditComplete
BY InvAlways, PTL DEF Inv

(* Every committed change of a status is in ALERT_TRANSITIONS, whatever    *)
(* the races between the handlers.                                         *)
THEOREM AlertTransitionsFollowTable == Spec => TransitionsFollowTable
<1>1. Inv /\ [Next]_vars
      => [\A a \in Alert : alert'[a].status # alert[a].status
            => alert'[a].status \in AlertTransitions[alert[a].status]]_vars
  BY StepMoves DEF Moves
<1> QED
  BY <1>1, InvAlways, PTL DEF Spec, TransitionsFollowTable
=============================================================================
