--------------------------- MODULE CaseLifecycle ----------------------------
(***************************************************************************)
(* The handlers of routers/cases.py that change a case, with the case half *)
(* of services/state_machine.py.  A handler reads the case, validates in   *)
(* the process and then writes; other requests commit between the two      *)
(* (READ COMMITTED), so each handler has two steps.  What it writes        *)
(* commits together; an error (an unknown alert, a note the policy of      *)
(* case_notes refuses) rolls all of it back.                               *)
(***************************************************************************)
EXTENDS Naturals, FiniteSets

CONSTANTS
  Case,        \* cases
  Officer,     \* users; each has one request at a time
  Closer,      \* those whose role may post to /close (L2, MLRO, ADMIN)
  Elevated     \* those who may annotate a closed case (MLRO, ADMIN)

ASSUME CaseAssumption ==
  /\ Closer \subseteq Officer
  /\ Elevated \subseteq Officer

VARIABLES
  case,        \* case[c]: the row of cases
  dispositions,\* dispositions[c]: the reasons the closing notes of c give
  noted,       \* noted[c]: officers with an investigation note on c
  req          \* req[o]: the request of o between its read and its write

caseVars == <<case, dispositions, noted, req>>

Status == {"OPEN", "IN_REVIEW", "INVESTIGATING", "PENDING_EDD", "PENDING_SAR",
           "CLOSED"}
Reason == {"FALSE_POSITIVE", "SAR_FILED"}   \* two of the four closure reasons
NoReason == "NULL"

(* CASE_TRANSITIONS                                                        *)
CaseTransitions ==
  [s \in Status |->
    CASE s = "OPEN" -> {"IN_REVIEW", "INVESTIGATING", "PENDING_EDD", "CLOSED"}
      [] s = "IN_REVIEW" -> {"INVESTIGATING", "PENDING_EDD", "PENDING_SAR", "CLOSED"}
      [] s = "INVESTIGATING" -> {"PENDING_EDD", "PENDING_SAR", "CLOSED"}
      [] s = "PENDING_EDD" -> {"IN_REVIEW", "INVESTIGATING", "PENDING_SAR", "CLOSED"}
      [] s = "PENDING_SAR" -> {"CLOSED"}
      [] s = "CLOSED" -> {}]

(* validate_case_transition returns; otherwise it raises a 400.            *)
Valid(from, to) ==
  /\ from \in Status \ {"CLOSED"}
  /\ from = to \/ to \in CaseTransitions[from]

(* The statuses a PATCH may name (CaseUpdateRequest has no IN_REVIEW), and *)
(* "keep" for a PATCH of title, priority, assignee or narrative only.      *)
PatchTarget == (Status \ {"IN_REVIEW"}) \cup {"keep"}

Row == [status : Status \cup {"none"}, reason : Reason \cup {NoReason},
        closed_at : {"NULL", "set"}]
NoRow == [status |-> "none", reason |-> NoReason, closed_at |-> "NULL"]

Req == [op : {"none", "note", "patch", "close"}, on : Case \cup {"none"},
        target : PatchTarget, reason : Reason \cup {NoReason}]
NoReq == [op |-> "none", on |-> "none", target |-> "keep", reason |-> NoReason]

Reads(o, op, c, target, reason) ==
  /\ req[o] = NoReq
  /\ case[c].status # "none"
  /\ req' = [req EXCEPT ![o] = [op |-> op, on |-> c, target |-> target,
                                reason |-> reason]]
  /\ UNCHANGED <<case, dispositions, noted>>
Done(o) == req' = [req EXCEPT ![o] = NoReq]

CreateCase(o, c) ==
  /\ req[o] = NoReq
  /\ case[c].status = "none"
  /\ case' = [case EXCEPT ![c] = [NoRow EXCEPT !.status = "OPEN"]]
  /\ UNCHANGED <<dispositions, noted, req>>

NoteRead(o, c) ==
  /\ case[c].status = "CLOSED" => o \in Elevated
  /\ Reads(o, "note", c, "keep", NoReason)

AddCaseNote(o) ==
  /\ req[o].op = "note"
  /\ noted' = [noted EXCEPT ![req[o].on] = @ \cup {o}]
  /\ Done(o)
  /\ UNCHANGED <<case, dispositions>>

(* Variant of UpdateRead: the status is not validated when it is CLOSED.   *)
UpdateReadUnvalidated(o, c, target) == Reads(o, "patch", c, target, NoReason)

UpdateRead(o, c, target) ==
  /\ target # "keep" => Valid(case[c].status, target)
  /\ Reads(o, "patch", c, target, NoReason)

(* _build_case_updates and its UPDATE, which has no condition on status.   *)
Patched(row, target) ==
  [status    |-> IF target = "keep" THEN row.status ELSE target,
   reason    |-> row.reason,
   closed_at |-> IF target = "CLOSED" THEN "set" ELSE row.closed_at]

UpdateCase(o) ==
  /\ req[o].op = "patch"
  /\ LET c == req[o].on
     IN case' = [case EXCEPT ![c] = Patched(case[c], req[o].target)]
  /\ Done(o)
  /\ UNCHANGED <<dispositions, noted>>

CloseRead(o, c, reason) ==
  /\ o \in Closer
  /\ Valid(case[c].status, "CLOSED")
  /\ Reads(o, "close", c, "keep", reason)

(* Variant of Closed: without the condition on the status.                 *)
ClosedAnyway(row, reason) ==
  [status |-> "CLOSED", reason |-> reason, closed_at |-> "set"]

(* UPDATE cases ... AND status != 'CLOSED'; its row count is not looked at *)
(* and the closing note is inserted whatever it was.                       *)
Closed(row, reason) ==
  IF row.status = "CLOSED" THEN row
  ELSE [status |-> "CLOSED", reason |-> reason, closed_at |-> "set"]

(* Variant of CloseCase: the note is written when the row was updated for  *)
(* the first time only.                                                    *)
CloseCaseFirstNote(o) ==
  /\ req[o].op = "close"
  /\ LET c == req[o].on
     IN /\ case' = [case EXCEPT ![c] = Closed(case[c], req[o].reason)]
        /\ dispositions' = IF case[c].closed_at = "NULL"
                           THEN [dispositions EXCEPT ![c] = @ \cup {req[o].reason}]
                           ELSE dispositions
  /\ Done(o)
  /\ UNCHANGED noted

CloseCase(o) ==
  /\ req[o].op = "close"
  /\ LET c == req[o].on
     IN /\ case' = [case EXCEPT ![c] = Closed(case[c], req[o].reason)]
        /\ dispositions' = [dispositions EXCEPT ![c] = @ \cup {req[o].reason}]
  /\ Done(o)
  /\ UNCHANGED noted

(* A statement of the handler fails: the transaction rolls back, 500.      *)
RollBack(o) ==
  /\ req[o] # NoReq
  /\ Done(o)
  /\ UNCHANGED <<case, dispositions, noted>>

CaseInit ==
  /\ case = [c \in Case |-> NoRow]
  /\ dispositions = [c \in Case |-> {}]
  /\ noted = [c \in Case |-> {}]
  /\ req = [o \in Officer |-> NoReq]

CaseNext ==
  \E o \in Officer :
    \/ AddCaseNote(o)
    \/ UpdateCase(o)
    \/ CloseCase(o)
    \/ RollBack(o)
    \/ \E c \in Case :
         \/ CreateCase(o, c)
         \/ NoteRead(o, c)
         \/ \E t \in PatchTarget : UpdateRead(o, c, t)
         \/ \E r \in Reason : CloseRead(o, c, r)

CaseSpec == CaseInit /\ [][CaseNext]_caseVars
-----------------------------------------------------------------------------
(* Types; every request past its read works on a case that exists, a close *)
(* with a reason (pattern of CaseCloseRequest).                            *)
CaseTypeOK ==
  /\ case \in [Case -> Row]
  /\ dispositions \in [Case -> SUBSET Reason]
  /\ noted \in [Case -> SUBSET Officer]
  /\ req \in [Officer -> Req]
  /\ \A o \in Officer :
       req[o].op # "none" => /\ req[o].on \in Case
                             /\ case[req[o].on].status # "none"
  /\ \A o \in Officer : req[o].op = "close" => req[o].reason \in Reason
  /\ \A c \in Case : case[c].status = "none" => case[c] = NoRow

(* The reason a case was closed with is on its timeline, and a case with a *)
(* reason, a closing note or the status CLOSED has a closing date, however *)
(* close, PATCH and reopening PATCH interleave.                            *)
DispositionRecorded ==
  \A c \in Case :
    /\ case[c].reason # NoReason => case[c].reason \in dispositions[c]
    /\ (case[c].status = "CLOSED" \/ dispositions[c] # {})
         => case[c].closed_at = "set"

(* Two closes that both passed validation do not replace one another's     *)
(* reason: the first stands, unless a PATCH reopened the case (close_case, *)
(* "AND status != 'CLOSED'").                                              *)
FirstReasonStands ==
  [][\A c \in Case :
       case[c].status = "CLOSED" => case'[c].reason = case[c].reason]_caseVars

(* Closed, with no PATCH of the status still to be written.                *)
Sealed(c) ==
  /\ case[c].status = "CLOSED"
  /\ \A o \in Officer : req[o].op = "patch" /\ req[o].on = c
                          => req[o].target \in {"keep", "CLOSED"}

(* Only a PATCH that read the case before it was closed can reopen it:     *)
(* once closed with none of those in flight, a case stays closed for good  *)
(* (validate_case_transition, "already CLOSED and cannot be modified").    *)
ClosedForGood == [][\A c \in Case : Sealed(c) => Sealed(c)']_caseVars
=============================================================================
