----------------------------- MODULE SarProofs ------------------------------
(***************************************************************************)
(* Theorems about SarFiling, for any alerts, officers, keys, faults and    *)
(* bounds.  FourEyes is not inductive by itself: it needs the approvals    *)
(* behind the drafts (Approvals) and what each request has established by  *)
(* the step it is at (Established).  Nor is OneFilingPerKey: it needs who  *)
(* holds each key, and until when (KeysGuard).                             *)
(***************************************************************************)
EXTENDS SarFiling, FiniteSetTheorems, TLAPS

Req == [at : Step, on : Alert \cup {Nobody}, key : Key \cup {Nobody},
        draft : Draft \cup {NoDraft}, value : FilingStatus \cup DraftStatus]

Submitting == {"cached", "alert", "draft", "mark", "gateway", "failed",
               "persist", "save"}
Relying == {"mark", "gateway", "persist"}

(* An approved draft has an independent approval; only drafts that exist   *)
(* were approved.                                                          *)
Approvals ==
  /\ \A d \in Draft : draft[d].status = "APPROVED" => Independent(d)
  /\ \A d \in Draft, o \in Officer :
       <<d, o>> \in signed => draft[d].status # "none"

Reviewing(o) ==
  /\ o \in Reviewer
  /\ draft[req[o].draft].drafted_by # o \/ o \in SuperAdmin

Relies(o) ==
  IF req[o].draft = NoDraft THEN req[o].at # "mark" /\ "db" \in faults
  ELSE Independent(req[o].draft)

(* What the request of o has established by the step it is at.             *)
Established(o) ==
  /\ req[o].at \in Submitting => req[o].on \in Alert /\ req[o].key \in Key
  /\ req[o].at \in {"review", "edit"} =>
       req[o].draft \in Draft /\ draft[req[o].draft].status # "none"
  /\ req[o].at = "review" => Reviewing(o)
  /\ req[o].at = "edit" =>
       req[o].value \in {"DRAFT", "PENDING_MLRO_REVIEW", "REJECTED"}
  /\ req[o].at = "persist" => req[o].value \in {"ACKNOWLEDGED", "REJECTED"}
  /\ req[o].at \in Relying => Relies(o)

Inv == TypeOK /\ Approvals /\ FourEyes /\ \A o \in Officer : Established(o)

(* What no step does to the drafts, the approvals and the faults.          *)
Grows ==
  /\ \A d \in Draft : draft[d].status # "none" =>
       /\ draft'[d].status # "none"
       /\ draft'[d].drafted_by = draft[d].drafted_by
  /\ signed \subseteq signed'
  /\ faults \subseteq faults'

LEMMA NoReqTyped ==
  NoReq \in Req /\ NoReq.at = "idle" /\ \A o \in Officer : NoReq.at \notin Submitting
BY DEF NoReq, Req, Step, FilingStatus, Submitting

LEMMA NoRowTyped == NoRow \in DraftRow /\ NoRow.status = "none"
BY DEF NoRow, DraftRow, DraftStatus

LEMMA ApprovalsGrow ==
  ASSUME Approvals, Grows, NEW d \in Draft, Independent(d)
  PROVE  Independent(d)'
<1>1. PICK o \in Reviewer : /\ <<d, o>> \in signed
                            /\ o # draft[d].drafted_by \/ o \in SuperAdmin
  BY DEF Independent
<1>2. o \in Officer
  BY SarAssumption
<1>3. draft[d].status # "none"
  BY <1>1, <1>2 DEF Approvals
<1>4. <<d, o>> \in signed' /\ draft'[d].drafted_by = draft[d].drafted_by
  BY <1>1, <1>3 DEF Grows
<1> QED BY <1>1, <1>4 DEF Independent

(* The requests of the others lose nothing.                                *)
LEMMA OthersKeep ==
  ASSUME Inv, Grows, NEW p \in Officer, req'[p] = req[p]
  PROVE  Established(p)'
<1>1. req[p] \in Req /\ Established(p) /\ Approvals
  BY DEF Inv, TypeOK, Req
<1>2. req[p].at \in {"review", "edit"} =>
        req'[p].draft \in Draft /\ draft'[req'[p].draft].status # "none"
  BY <1>1 DEF Established, Grows
<1>3. req[p].at = "review" => Reviewing(p)'
  BY <1>1 DEF Established, Reviewing, Grows
<1>4. ASSUME req[p].at \in Relying
      PROVE  Relies(p)'
  <2>1. CASE req[p].draft = NoDraft
    BY <1>1, <1>4, <2>1 DEF Established, Relies, Grows
  <2>2. CASE req[p].draft # NoDraft
    <3>1. req[p].draft \in Draft /\ Independent(req[p].draft)
      BY <1>1, <1>4, <2>2 DEF Established, Relies, Req
    <3>2. Independent(req[p].draft)'
      <4> DEFINE d == req[p].draft
      <4>1. d \in Draft /\ Independent(d)
        BY <3>1
      <4>2. \A e \in Draft : Independent(e) => Independent(e)'
        BY <1>1, ApprovalsGrow
      <4> QED BY <4>1, <4>2 DEF Independent
    <3> QED BY <2>2, <3>2 DEF Relies, Independent
  <2> QED BY <2>1, <2>2
<1> QED BY <1>1, <1>2, <1>3, <1>4 DEF Established

(* TypeOK without the requests.                                            *)
Tables ==
  /\ draft \in [Draft -> DraftRow]
  /\ alert \in [Alert -> [filing : FilingStatus, tracking : {"NULL", "set"}]]
  /\ key \in [Key -> {"free", "IN_FLIGHT", "COMPLETED"}]
  /\ filed \in [Alert -> Seq(Filing)]
  /\ signed \subseteq Draft \X Officer
  /\ used \in [Alert -> SUBSET Key]
  /\ faults \subseteq Faults \cup {"vanished"}

LEMMA TypeParts == TypeOK <=> Tables /\ req \in [Officer -> Req]
BY DEF TypeOK, Tables, Req

(* What remains to be shown of a step of o that leaves r as its request.   *)
LEMMA RequestStep ==
  ASSUME Inv, NEW o \in Officer, NEW r \in Req, req' = [req EXCEPT ![o] = r],
         Grows, Tables', Approvals', FourEyes', Established(o)'
  PROVE  Inv'
<1>1. req' \in [Officer -> Req] /\ \A p \in Officer : p # o => req'[p] = req[p]
  BY TypeParts DEF Inv
<1>2. \A p \in Officer : p # o => Established(p)'
  BY <1>1, OthersKeep
<1>3. \A p \in Officer : Established(p)'
  BY <1>2
<1> QED BY <1>1, <1>3, TypeParts DEF Inv, Tables, TypeOK, Req

(* The filings on record stay independent.                                 *)
LEMMA FilingsKeep ==
  ASSUME Inv, Grows, UNCHANGED filed
  PROVE  FourEyes'
<1> SUFFICES ASSUME NEW a \in Alert, NEW i \in 1 .. Len(filed[a])
             PROVE  IF filed[a][i].draft = NoDraft THEN "db" \in faults'
                    ELSE Independent(filed[a][i].draft)'
  BY DEF FourEyes, Independent
<1> DEFINE d == filed[a][i].draft
<1>1. Tables /\ Approvals /\ FourEyes
  BY TypeParts DEF Inv
<1>2. filed[a] \in Seq(Filing)
  BY <1>1 DEF Tables
<1>3. filed[a][i] \in Filing
  BY <1>2
<1>4. CASE d = NoDraft
  BY <1>1, <1>4 DEF FourEyes, Grows
<1>5. CASE d # NoDraft
  <2>1. d \in Draft
    BY <1>3, <1>5 DEF Filing
  <2>2. Independent(d)
    BY <1>1, <1>5 DEF FourEyes
  <2>3. \A e \in Draft : Independent(e) => Independent(e)'
    BY <1>1, ApprovalsGrow
  <2> QED BY <1>5, <2>1, <2>2, <2>3 DEF Independent
<1> QED BY <1>4, <1>5

(* A step that writes neither drafts nor filings.                          *)
LEMMA QuietStep ==
  ASSUME Inv, NEW o \in Officer, NEW r \in Req, req' = [req EXCEPT ![o] = r],
         UNCHANGED <<draft, filed, signed>>, faults \subseteq faults',
         faults' \subseteq Faults \cup {"vanished"},
         alert' \in [Alert -> [filing : FilingStatus, tracking : {"NULL", "set"}]],
         key' \in [Key -> {"free", "IN_FLIGHT", "COMPLETED"}],
         used' \in [Alert -> SUBSET Key],
         Established(o)'
  PROVE  Inv'
<1>1. Grows
  BY DEF Grows
<1>2. Tables'
  BY TypeParts DEF Inv, Tables
<1>3. Approvals'
  BY DEF Inv, Approvals, Independent
<1>4. FourEyes'
  BY <1>1, FilingsKeep
<1> QED BY <1>1, <1>2, <1>3, <1>4, RequestStep

LEMMA Facts ==
  ASSUME Inv, NEW o \in Officer
  PROVE  /\ Tables /\ Approvals /\ FourEyes
         /\ req \in [Officer -> Req] /\ req[o] \in Req /\ Established(o)
BY TypeParts DEF Inv, Req

LEMMA FaultTyped ==
  ASSUME Inv, NEW f, Fault(f)
  PROVE  faults \subseteq faults' /\ faults' \subseteq Faults \cup {"vanished"} /\ f \in faults'
BY TypeParts DEF Inv, Tables, Fault

LEMMA ClearedTyped ==
  ASSUME Inv, NEW k \in Key
  PROVE  Cleared(k) \in [Key -> {"free", "IN_FLIGHT", "COMPLETED"}]
BY TypeParts DEF Inv, Tables, Cleared

(* A request that ends.                                                    *)
LEMMA EndStep ==
  ASSUME Inv, NEW o \in Officer, Done(o),
         UNCHANGED <<draft, filed, signed, used>>, faults \subseteq faults',
         faults' \subseteq Faults \cup {"vanished"},
         alert' \in [Alert -> [filing : FilingStatus, tracking : {"NULL", "set"}]],
         key' \in [Key -> {"free", "IN_FLIGHT", "COMPLETED"}]
  PROVE  Inv'
<1>1. req' = [req EXCEPT ![o] = NoReq] /\ req'[o] = NoReq
  BY Facts DEF Done
<1>2. Established(o)'
  BY <1>1, NoReqTyped DEF Established, Submitting, Relying
<1>3. used' \in [Alert -> SUBSET Key]
  BY Facts DEF Tables
<1> QED BY <1>1, <1>2, <1>3, NoReqTyped, QuietStep

(* A request that starts or goes on, and writes at most its key.           *)
LEMMA GoesStep ==
  ASSUME Inv, NEW o \in Officer, NEW r \in Req, req' = [req EXCEPT ![o] = r],
         UNCHANGED <<draft, filed, signed, alert>>, faults \subseteq faults',
         faults' \subseteq Faults \cup {"vanished"},
         key' \in [Key -> {"free", "IN_FLIGHT", "COMPLETED"}],
         used' \in [Alert -> SUBSET Key],
         Established(o)'
  PROVE  Inv'
BY QuietStep, Facts DEF Tables

LEMMA ReadsKeepInv ==
  ASSUME Inv, NEW o \in Officer, NEW d \in Draft
  PROVE  /\ ReviewRead(o, d) => Inv'
         /\ \A s \in {"DRAFT", "PENDING_MLRO_REVIEW", "keep"} : EditRead(o, d, s) => Inv'
<1>0. /\ draft \in [Draft -> DraftRow] /\ draft[d] \in DraftRow
      /\ req \in [Officer -> Req]
      /\ key \in [Key -> {"free", "IN_FLIGHT", "COMPLETED"}]
      /\ used \in [Alert -> SUBSET Key] /\ faults \subseteq Faults \cup {"vanished"}
  BY Facts DEF Tables
<1>1. ASSUME ReviewRead(o, d)
      PROVE  Inv'
  <2> DEFINE r == [at |-> "review", on |-> draft[d].on, key |-> Nobody, draft |-> d,
                   value |-> "NULL"]
  <2>1. r \in Req /\ req' = [req EXCEPT ![o] = r]
    BY <1>0, <1>1 DEF ReviewRead, Starts, Req, Step, DraftRow, FilingStatus
  <2>2. req'[o] = r /\ UNCHANGED <<draft, filed, signed, alert, key, used, faults>>
    BY <1>0, <1>1, <2>1 DEF ReviewRead
  <2>3. Established(o)'
    BY <1>1, <2>2 DEF Established, ReviewRead, Submitting, Relying, Reviewing
  <2> HIDE DEF r
  <2> QED BY <1>0, <2>1, <2>2, <2>3, GoesStep
<1>2. ASSUME NEW s \in {"DRAFT", "PENDING_MLRO_REVIEW", "keep"}, EditRead(o, d, s)
      PROVE  Inv'
  <2> DEFINE v == IF s = "keep" THEN draft[d].status ELSE s
             r == [at |-> "edit", on |-> draft[d].on, key |-> Nobody, draft |-> d,
                   value |-> v]
  <2>1. v \in {"DRAFT", "PENDING_MLRO_REVIEW", "REJECTED"}
    BY <1>0, <1>2 DEF EditRead, DraftRow, DraftStatus
  <2>2. r \in Req /\ req' = [req EXCEPT ![o] = r]
    BY <1>0, <1>2, <2>1 DEF EditRead, Starts, Req, Step, DraftRow, DraftStatus
  <2>3. req'[o] = r /\ UNCHANGED <<draft, filed, signed, alert, key, used, faults>>
    BY <1>0, <1>2, <2>2 DEF EditRead
  <2>4. Established(o)'
    BY <1>2, <2>1, <2>3 DEF Established, EditRead, Submitting, Relying
  <2> HIDE DEF r, v
  <2> QED BY <1>0, <2>2, <2>3, <2>4, GoesStep
<1> QED BY <1>1, <1>2

(* The request of o, at another step, for another draft, with a value.     *)
Moved(o, s, d, v) ==
  [at |-> s, on |-> req[o].on, key |-> req[o].key, draft |-> d, value |-> v]

LEMMA MovedTyped ==
  ASSUME Inv, NEW o \in Officer, NEW s \in Step, NEW d \in Draft \cup {NoDraft},
         NEW v \in FilingStatus \cup DraftStatus
  PROVE  Moved(o, s, d, v) \in Req
BY Facts DEF Moved, Req

(* A request that goes on to a step which asks nothing of its draft.       *)
LEMMA OnwardStep ==
  ASSUME Inv, NEW o \in Officer, NEW s \in {"alert", "draft", "failed"}, Goes(o, s),
         req[o].at \in Submitting,
         UNCHANGED <<draft, filed, signed, alert>>, faults \subseteq faults',
         faults' \subseteq Faults \cup {"vanished"},
         key' \in [Key -> {"free", "IN_FLIGHT", "COMPLETED"}],
         used' \in [Alert -> SUBSET Key]
  PROVE  Inv'
<1> DEFINE r == Moved(o, s, req[o].draft, req[o].value)
<1>1. /\ req \in [Officer -> Req] /\ req[o] \in Req
      /\ req[o].on \in Alert /\ req[o].key \in Key
  BY Facts DEF Established
<1>2. s \in Step
  BY DEF Step
<1>3. r \in Req
  BY <1>1, <1>2, MovedTyped DEF Req
<1>4. req' = [req EXCEPT ![o] = r]
  BY DEF Goes, Moves, Moved
<1>5. req'[o] = r /\ r.at = s /\ r.on = req[o].on /\ r.key = req[o].key
  BY <1>1, <1>4 DEF Moved
<1>6. Established(o)'
  BY <1>1, <1>5 DEF Established, Relying
<1> HIDE DEF r
<1> QED BY <1>3, <1>4, <1>6, GoesStep

LEMMA SubmitKeepsInv ==
  ASSUME Inv, NEW o \in Officer, NEW a \in Alert, NEW k \in Key,
         NEW d \in Draft \cup {NoDraft},
         SubmitReserve(o, a, k, d) \/ SubmitUnkeyed(o, a, k, d)
  PROVE  Inv'
<1>0. /\ req \in [Officer -> Req]
      /\ key \in [Key -> {"free", "IN_FLIGHT", "COMPLETED"}]
      /\ used \in [Alert -> SUBSET Key] /\ faults \subseteq Faults \cup {"vanished"}
  BY Facts DEF Tables
<1> DEFINE r(s) == [at |-> s, on |-> a, key |-> k, draft |-> d, value |-> "NULL"]
<1>1. ASSUME NEW s \in {"alert", "cached"}, Starts(o, s, a, k, d, "NULL")
      PROVE  r(s) \in Req /\ req' = [req EXCEPT ![o] = r(s)] /\ req'[o] = r(s)
  BY <1>0, <1>1 DEF Starts, Req, Step, FilingStatus
<1>2. ASSUME NEW s \in {"alert", "cached"}, req'[o] = r(s)
      PROVE  Established(o)'
  BY <1>2 DEF Established, Relying
<1>3. CASE SubmitReserve(o, a, k, d)
  <2> DEFINE s == IF key[k] = "free" THEN "alert" ELSE "cached"
  <2>1. Starts(o, s, a, k, d, "NULL") /\ s \in {"alert", "cached"}
    BY <1>3 DEF SubmitReserve
  <2>2. /\ key' \in [Key -> {"free", "IN_FLIGHT", "COMPLETED"}]
        /\ used' \in [Alert -> SUBSET Key]
        /\ UNCHANGED <<draft, alert, filed, signed, faults>>
    BY <1>0, <1>3 DEF SubmitReserve
  <2>3. r(s) \in Req /\ req' = [req EXCEPT ![o] = r(s)] /\ Established(o)'
    BY <1>1, <1>2, <2>1
  <2> HIDE DEF r, s
  <2> QED BY <1>0, <2>2, <2>3, GoesStep
<1>4. CASE SubmitUnkeyed(o, a, k, d)
  <2>1. /\ used' \in [Alert -> SUBSET Key]
        /\ UNCHANGED <<draft, alert, filed, signed, key>>
        /\ Fault("redis") /\ Starts(o, "alert", a, k, d, "NULL")
    BY <1>0, <1>4 DEF SubmitUnkeyed
  <2>2. r("alert") \in Req /\ req' = [req EXCEPT ![o] = r("alert")] /\ Established(o)'
    BY <1>1, <1>2, <2>1
  <2> HIDE DEF r
  <2> QED BY <1>0, <2>1, <2>2, FaultTyped, GoesStep
<1> QED BY <1>3, <1>4

LEMMA ChecksKeepInv ==
  ASSUME Inv, NEW o \in Officer,
         SubmitCached(o) \/ CheckAlert(o) \/ CheckDraft(o) \/ ChecksFail(o)
  PROVE  Inv'
<1>0. /\ req \in [Officer -> Req] /\ req[o] \in Req /\ Established(o) /\ Approvals
      /\ key \in [Key -> {"free", "IN_FLIGHT", "COMPLETED"}]
      /\ alert \in [Alert -> [filing : FilingStatus, tracking : {"NULL", "set"}]]
      /\ used \in [Alert -> SUBSET Key] /\ faults \subseteq Faults \cup {"vanished"}
  BY Facts DEF Tables
<1>1. CASE SubmitCached(o)
  <2>1. /\ req[o].at \in Submitting /\ req[o].on \in Alert /\ req[o].key \in Key
        /\ UNCHANGED <<draft, alert, key, filed, signed>>
    BY <1>0, <1>1 DEF SubmitCached, Waiting, Established, Submitting
  <2>2. CASE Done(o) /\ UNCHANGED <<used, faults>>
    BY <1>0, <2>1, <2>2, EndStep
  <2>3. CASE /\ Goes(o, "alert")
             /\ used' = [used EXCEPT ![req[o].on] = @ \cup {req[o].key}]
             /\ faults' = faults \cup {"vanished"}
    <3>1. used' \in [Alert -> SUBSET Key] /\ faults' \subseteq Faults \cup {"vanished"}
      BY <1>0, <2>1, <2>3
    <3> QED BY <1>0, <2>1, <2>3, <3>1, OnwardStep
  <2> QED BY <1>1, <2>2, <2>3 DEF SubmitCached
<1>2. CASE CheckAlert(o)
  <2>1. /\ req[o].at \in Submitting /\ req[o].key \in Key
        /\ UNCHANGED <<draft, alert, filed, signed, used, faults>>
    BY <1>0, <1>2 DEF CheckAlert, Waiting, Established, Submitting
  <2>2. CASE key' = Cleared(req[o].key) /\ Done(o)
    BY <1>0, <2>1, <2>2, ClearedTyped, EndStep
  <2>3. CASE Goes(o, "draft") /\ UNCHANGED key
    BY <1>0, <2>1, <2>3, OnwardStep
  <2> QED BY <1>2, <2>2, <2>3 DEF CheckAlert
<1>3. CASE CheckDraft(o)
  <2>1. /\ req[o].at = "draft" /\ req[o].on \in Alert /\ req[o].key \in Key
        /\ UNCHANGED <<draft, alert, key, filed, signed, used, faults>>
    BY <1>0, <1>3 DEF CheckDraft, Waiting, Established, Submitting
  <2>2. CASE Done(o)
    BY <1>0, <2>1, <2>2, EndStep
  <2>3. ASSUME NEW d \in Draft \cup {NoDraft}, FourEyesPass(o, d),
               Moves(o, "mark", d, req[o].value)
        PROVE  Inv'
    <3> DEFINE r == Moved(o, "mark", d, req[o].value)
    <3>1. d # NoDraft /\ d \in Draft /\ draft[d].status = "APPROVED"
      BY <2>3 DEF FourEyesPass
    <3>2. Independent(d)
      BY <1>0, <3>1 DEF Approvals
    <3>3. req' = [req EXCEPT ![o] = r]
      BY <2>3 DEF Moves, Moved
    <3>4. r \in Req
      BY <1>0, <3>1, MovedTyped DEF Req, Step
    <3>5. req'[o] = r /\ r.at = "mark" /\ r.on = req[o].on /\ r.key = req[o].key /\ r.draft = d
      BY <1>0, <3>3 DEF Moved
    <3>6. Relies(o)'
      BY <2>1, <3>1, <3>2, <3>5 DEF Relies, Independent
    <3>7. Established(o)'
      BY <2>1, <3>5, <3>6 DEF Established
    <3> HIDE DEF r
    <3> QED BY <1>0, <2>1, <3>3, <3>4, <3>7, GoesStep
  <2> QED BY <1>3, <2>2, <2>3 DEF CheckDraft
<1>4. CASE ChecksFail(o)
  <2> DEFINE d == IF req[o].at = "mark" THEN req[o].draft ELSE NoDraft
             r == Moved(o, "gateway", d, req[o].value)
  <2>1. /\ req[o].at \in {"alert", "draft", "mark"} /\ Fault("db")
        /\ req[o].on \in Alert /\ req[o].key \in Key
        /\ UNCHANGED <<draft, alert, key, filed, signed, used>>
    BY <1>0, <1>4 DEF ChecksFail, Established, Submitting
  <2>2. d \in Draft \cup {NoDraft} /\ "db" \in faults'
    BY <1>0, <2>1, FaultTyped DEF Req
  <2>3. d # NoDraft => req[o].at = "mark" /\ Independent(d)
    BY <1>0 DEF Established, Relying, Relies
  <2>4. Moves(o, "gateway", d, req[o].value)
    BY <1>0, <1>4 DEF ChecksFail
  <2> HIDE DEF d
  <2>5. req' = [req EXCEPT ![o] = r]
    BY <2>4 DEF Moves, Moved
  <2>6. r \in Req
    BY <1>0, <2>2, MovedTyped DEF Req, Step
  <2>7. req'[o] = r /\ r.at = "gateway" /\ r.on = req[o].on /\ r.key = req[o].key /\ r.draft = d
    BY <1>0, <2>5 DEF Moved
  <2>8. Relies(o)'
    BY <2>1, <2>2, <2>3, <2>7 DEF Relies, Independent
  <2>9. Established(o)'
    BY <2>1, <2>7, <2>8 DEF Established
  <2> HIDE DEF r
  <2> QED BY <1>0, <2>1, <2>5, <2>6, <2>9, FaultTyped, GoesStep
<1> QED BY <1>1, <1>2, <1>3, <1>4

(* Steps between the checks and the receipt that file nothing, and ends.   *)
LEMMA QuietKeepsInv ==
  ASSUME Inv, NEW o \in Officer,
         \/ MarkPending(o) \/ GatewayRejects(o) \/ GatewayFails(o)
         \/ RecordFailure(o) \/ PersistFails(o) \/ SaveResult(o) \/ Crash(o)
  PROVE  Inv'
<1>0. /\ req \in [Officer -> Req] /\ req[o] \in Req /\ Established(o) /\ Approvals
      /\ key \in [Key -> {"free", "IN_FLIGHT", "COMPLETED"}]
      /\ alert \in [Alert -> [filing : FilingStatus, tracking : {"NULL", "set"}]]
      /\ used \in [Alert -> SUBSET Key] /\ faults \subseteq Faults \cup {"vanished"}
      /\ req[o].draft \in Draft \cup {NoDraft}
      /\ req[o].value \in FilingStatus \cup DraftStatus
  BY Facts DEF Tables, Req
<1> DEFINE a == req[o].on
           mv(s, v) == Moved(o, s, req[o].draft, v)
<1>a. ASSUME NEW s \in {"gateway", "persist"}, NEW v \in FilingStatus \cup DraftStatus,
             Moves(o, s, req[o].draft, v), req[o].at \in {"mark", "gateway"},
             s = "persist" => v \in {"ACKNOWLEDGED", "REJECTED"},
             UNCHANGED <<draft, signed, faults>>
      PROVE  /\ mv(s, v) \in Req /\ req' = [req EXCEPT ![o] = mv(s, v)]
             /\ Established(o)'
  <2>1. mv(s, v) \in Req
    BY <1>0, MovedTyped DEF Step
  <2>2. req' = [req EXCEPT ![o] = mv(s, v)]
    BY <1>a DEF Moves, Moved
  <2>3. /\ req'[o].at = s /\ req'[o].on = a /\ req'[o].key = req[o].key
        /\ req'[o].draft = req[o].draft /\ req'[o].value = v
    BY <1>0, <2>2 DEF Moved
  <2>4. a \in Alert /\ req[o].key \in Key /\ Relies(o)
    BY <1>0, <1>a DEF Established, Submitting, Relying
  <2>5. Relies(o)'
    BY <1>a, <2>3, <2>4 DEF Relies, Independent
  <2>6. Established(o)'
    BY <1>a, <2>3, <2>4, <2>5 DEF Established
  <2> QED BY <2>1, <2>2, <2>6
<1>1. CASE MarkPending(o)
  <2>1. /\ Moves(o, "gateway", req[o].draft, req[o].value) /\ req[o].at = "mark"
        /\ UNCHANGED <<draft, key, filed, signed, used, faults>>
        /\ alert' = [alert EXCEPT ![a].filing = "FILING_PENDING"]
    BY <1>1 DEF MarkPending, Goes, Waiting
  <2>2. alert' \in [Alert -> [filing : FilingStatus, tracking : {"NULL", "set"}]]
    BY <1>0, <2>1 DEF FilingStatus
  <2>3. /\ mv("gateway", req[o].value) \in Req /\ Established(o)'
        /\ req' = [req EXCEPT ![o] = mv("gateway", req[o].value)]
    BY <1>0, <1>a, <2>1
  <2> HIDE DEF mv
  <2> QED BY <1>0, <2>1, <2>2, <2>3, QuietStep
<1>2. CASE GatewayRejects(o)
  <2>1. /\ Moves(o, "persist", req[o].draft, "REJECTED") /\ req[o].at = "gateway"
        /\ UNCHANGED <<draft, alert, key, filed, signed, used, faults>>
    BY <1>2 DEF GatewayRejects, Waiting
  <2>2. /\ mv("persist", "REJECTED") \in Req /\ Established(o)'
        /\ req' = [req EXCEPT ![o] = mv("persist", "REJECTED")]
    BY <1>0, <1>a, <2>1 DEF FilingStatus
  <2> HIDE DEF mv
  <2> QED BY <1>0, <2>1, <2>2, GoesStep
<1>3. CASE GatewayFails(o)
  <2>1. req[o].at \in Submitting /\ Goes(o, "failed")
        /\ UNCHANGED <<draft, alert, key, filed, signed, used, faults>>
    BY <1>3 DEF GatewayFails, Waiting, Submitting
  <2> QED BY <1>0, <2>1, OnwardStep
<1>4. CASE RecordFailure(o)
  <2>1. /\ a \in Alert /\ req[o].key \in Key
        /\ Done(o) /\ key' = Cleared(req[o].key) /\ UNCHANGED <<draft, filed, signed, used>>
    BY <1>0, <1>4 DEF RecordFailure, Waiting, Established, Submitting
  <2>2. key' \in [Key -> {"free", "IN_FLIGHT", "COMPLETED"}]
    BY <2>1, ClearedTyped
  <2>3. CASE alert' = [alert EXCEPT ![a].filing = "FAILED"] /\ UNCHANGED faults
    <3>1. alert' \in [Alert -> [filing : FilingStatus, tracking : {"NULL", "set"}]]
      BY <1>0, <2>1, <2>3 DEF FilingStatus
    <3> QED BY <1>0, <2>1, <2>2, <2>3, <3>1, EndStep
  <2>4. CASE Fault("db") /\ UNCHANGED alert
    BY <1>0, <2>1, <2>2, <2>4, FaultTyped, EndStep
  <2> QED BY <1>4, <2>3, <2>4 DEF RecordFailure
<1>5. CASE PersistFails(o)
  BY <1>0, <1>5, FaultTyped, EndStep DEF PersistFails
<1>6. CASE SaveResult(o)
  <2>1. Done(o) /\ UNCHANGED <<draft, alert, filed, signed, used>>
    BY <1>6 DEF SaveResult
  <2>2. CASE key' = [key EXCEPT ![req[o].key] = "COMPLETED"] /\ UNCHANGED faults
    <3>1. key' \in [Key -> {"free", "IN_FLIGHT", "COMPLETED"}]
      BY <1>0, <2>2
    <3> QED BY <1>0, <2>1, <2>2, <3>1, EndStep
  <2>3. CASE Fault("redis") /\ UNCHANGED key
    BY <1>0, <2>1, <2>3, FaultTyped, EndStep
  <2> QED BY <1>6, <2>2, <2>3 DEF SaveResult
<1>7. CASE Crash(o)
  BY <1>0, <1>7, FaultTyped, EndStep DEF Crash
<1> QED BY <1>1, <1>2, <1>3, <1>4, <1>5, <1>6, <1>7

LEMMA ExpiryKeepsInv ==
  ASSUME Inv, NEW k \in Key, KeyExpires(k)
  PROVE  Inv'
<1>1. /\ Fault("expired") /\ key' = [key EXCEPT ![k] = "free"]
      /\ UNCHANGED <<draft, alert, req, filed, signed, used>>
  BY DEF KeyExpires
<1>2. Tables' /\ Grows
  BY <1>1, FaultTyped, TypeParts DEF Inv, Tables, Grows
<1>3. Approvals' /\ FourEyes'
  BY <1>1, <1>2, FilingsKeep DEF Inv, Approvals, Independent
<1>4. \A p \in Officer : Established(p)'
  BY <1>1, <1>2, OthersKeep
<1>5. req' \in [Officer -> Req]
  BY <1>1, TypeParts DEF Inv
<1> QED BY <1>2, <1>3, <1>4, <1>5, TypeParts DEF Inv, Tables, TypeOK, Req

(* A write of one row by a request that ends or goes on with r.            *)
LEMMA RowStep ==
  ASSUME Inv, NEW o \in Officer, NEW r \in Req, req' = [req EXCEPT ![o] = r],
         NEW d \in Draft, NEW row \in DraftRow, row.status # "none",
         draft' = [draft EXCEPT ![d] = row],
         draft[d].status = "none" \/ row.drafted_by = draft[d].drafted_by,
         signed \subseteq signed', signed' \subseteq signed \cup ({d} \X Officer),
         row.status = "APPROVED" => Independent(d)',
         UNCHANGED <<filed, key, used, faults>>,
         alert' \in [Alert -> [filing : FilingStatus, tracking : {"NULL", "set"}]],
         Established(o)'
  PROVE  Inv'
<1>1. Tables /\ Approvals /\ draft \in [Draft -> DraftRow] /\ signed \subseteq Draft \X Officer
  BY Facts DEF Tables
<1>2. /\ draft' \in [Draft -> DraftRow] /\ draft'[d] = row
      /\ \A e \in Draft : e # d => draft'[e] = draft[e]
  BY <1>1
<1>3. Grows
  BY <1>2 DEF Grows
<1>4. signed' \subseteq Draft \X Officer
  BY <1>1
<1>5. Tables'
  BY <1>1, <1>2, <1>4 DEF Tables
<1>6. Approvals'
  <2>1. \A e \in Draft : Independent(e) => Independent(e)'
    BY <1>1, <1>3, ApprovalsGrow
  <2>2. \A e \in Draft : draft'[e].status = "APPROVED" => Independent(e)'
    BY <1>1, <1>2, <2>1 DEF Approvals
  <2>3. ASSUME NEW e \in Draft, NEW p \in Officer, <<e, p>> \in signed'
        PROVE  draft'[e].status # "none"
    <3>1. CASE e = d
      BY <1>2, <3>1
    <3>2. CASE e # d
      <4>1. <<e, p>> \in signed
        BY <2>3, <3>2
      <4> QED BY <1>1, <1>2, <3>2, <4>1 DEF Approvals
    <3> QED BY <3>1, <3>2
  <2> QED BY <2>2, <2>3 DEF Approvals, Independent
<1>7. FourEyes'
  BY <1>3, FilingsKeep
<1> QED BY <1>3, <1>5, <1>6, <1>7, RequestStep

LEMMA DraftsKeepInv ==
  ASSUME Inv, NEW o \in Officer,
         \/ \E a \in Alert : CreateDraft(o, a)
         \/ \E v \in {"APPROVED", "REJECTED"} : ReviewCommit(o, v)
         \/ EditCommit(o)
         \/ PersistReceipt(o)
  PROVE  Inv'
<1>0. /\ req \in [Officer -> Req] /\ req[o] \in Req /\ Established(o)
      /\ draft \in [Draft -> DraftRow]
      /\ alert \in [Alert -> [filing : FilingStatus, tracking : {"NULL", "set"}]]
  BY Facts DEF Tables
<1>e. ASSUME Done(o)
      PROVE  req' = [req EXCEPT ![o] = NoReq] /\ Established(o)'
  <2>1. req' = [req EXCEPT ![o] = NoReq] /\ req'[o] = NoReq
    BY <1>0, <1>e DEF Done
  <2> QED BY <2>1, NoReqTyped DEF Established, Submitting, Relying
<1>1. ASSUME NEW a \in Alert, CreateDraft(o, a)
      PROVE  Inv'
  <2> DEFINE row == [status |-> "PENDING_MLRO_REVIEW", on |-> a, drafted_by |-> o,
                     reviewed_by |-> Nobody]
  <2>1. PICK d \in Draft : draft[d].status = "none" /\ draft' = [draft EXCEPT ![d] = row]
    BY <1>1 DEF CreateDraft
  <2>2. /\ req[o] = NoReq /\ UNCHANGED <<alert, key, req, filed, signed, used, faults>>
    BY <1>1 DEF CreateDraft
  <2>3. /\ row \in DraftRow /\ row.status # "none" /\ row.status # "APPROVED"
    BY DEF DraftRow, DraftStatus
  <2>4. /\ req' = [req EXCEPT ![o] = NoReq] /\ req'[o] = NoReq
    BY <1>0, <2>2
  <2>5. Established(o)'
    BY <2>4, NoReqTyped DEF Established, Submitting, Relying
  <2> HIDE DEF row
  <2> QED BY <1>0, <2>1, <2>2, <2>3, <2>4, <2>5, NoReqTyped, RowStep
<1>2. ASSUME NEW v \in {"APPROVED", "REJECTED"}, ReviewCommit(o, v)
      PROVE  Inv'
  <2>0. PICK d \in Draft : d = req[o].draft
    BY <1>0, <1>2 DEF ReviewCommit, Waiting, Established
  <2> DEFINE row == [status |-> v, on |-> draft[d].on,
                     drafted_by |-> draft[d].drafted_by, reviewed_by |-> o]
  <2>1. /\ Done(o) /\ UNCHANGED <<alert, key, filed, used, faults>>
        /\ o \in Reviewer /\ draft[d].status # "none"
        /\ draft[d].drafted_by # o \/ o \in SuperAdmin
    BY <1>0, <1>2, <2>0 DEF ReviewCommit, Waiting, Established, Reviewing
  <2>2. CASE UNCHANGED <<draft, signed>>
    BY <1>0, <2>1, <2>2, EndStep, Facts DEF Tables
  <2>3. CASE /\ Set(d, v, o)
             /\ signed' = IF v = "APPROVED" THEN signed \cup {<<d, o>>} ELSE signed
    <3>1. /\ row \in DraftRow /\ row.status # "none" /\ row.status = v
          /\ row.drafted_by = draft[d].drafted_by
      BY <1>0, <2>1 DEF DraftRow, DraftStatus
    <3>2. draft' = [draft EXCEPT ![d] = row] /\ draft'[d] = row
      BY <1>0, <2>1, <2>3 DEF Set
    <3>3. signed \subseteq signed' /\ signed' \subseteq signed \cup ({d} \X Officer)
      BY <2>3
    <3>4. v = "APPROVED" => Independent(d)'
      BY <2>1, <2>3, <3>1, <3>2 DEF Independent
    <3> HIDE DEF row
    <3> QED BY <1>0, <1>e, <2>1, <3>1, <3>2, <3>3, <3>4, NoReqTyped, RowStep
  <2> QED BY <1>2, <2>0, <2>2, <2>3 DEF ReviewCommit
<1>3. CASE EditCommit(o)
  <2> DEFINE d == req[o].draft
             v == req[o].value
             row == [status |-> v, on |-> draft[d].on,
                     drafted_by |-> draft[d].drafted_by,
                     reviewed_by |-> draft[d].reviewed_by]
  <2>1. /\ Done(o) /\ UNCHANGED <<alert, key, filed, signed, used, faults>>
        /\ d \in Draft /\ v \in {"DRAFT", "PENDING_MLRO_REVIEW", "REJECTED"}
        /\ draft' = [draft EXCEPT ![d] = row]
    BY <1>0, <1>3 DEF EditCommit, Waiting, Established, Set
  <2>2. /\ row \in DraftRow /\ row.status # "none" /\ row.status # "APPROVED"
        /\ row.drafted_by = draft[d].drafted_by
    BY <1>0, <2>1 DEF DraftRow, DraftStatus
  <2> HIDE DEF row
  <2> QED BY <1>0, <1>e, <2>1, <2>2, NoReqTyped, RowStep
<1>4. CASE PersistReceipt(o)
  <2> DEFINE d == req[o].draft
             row == [status |-> "FILED", on |-> draft[d].on,
                     drafted_by |-> draft[d].drafted_by,
                     reviewed_by |-> draft[d].reviewed_by]
             r == Moved(o, "save", d, req[o].value)
  <2>1. /\ req[o].on \in Alert /\ req[o].key \in Key
        /\ req[o].value \in {"ACKNOWLEDGED", "REJECTED"}
        /\ d \in Draft \cup {NoDraft}
        /\ UNCHANGED <<key, filed, signed, used, faults>>
        /\ req' = [req EXCEPT ![o] = r]
        /\ alert' = [alert EXCEPT ![req[o].on] = [filing |-> req[o].value,
                                                  tracking |-> "set"]]
    BY <1>0, <1>4 DEF PersistReceipt, Waiting, Established, Submitting, Goes, Moves, Moved, Req
  <2>2. alert' \in [Alert -> [filing : FilingStatus, tracking : {"NULL", "set"}]]
    BY <1>0, <2>1 DEF FilingStatus
  <2>3. r \in Req
    BY <2>1, MovedTyped DEF Step, FilingStatus
  <2>4. Established(o)'
    <3>1. req'[o].at = "save" /\ req'[o].on = req[o].on /\ req'[o].key = req[o].key
      BY <1>0, <2>1 DEF Moved
    <3> QED BY <2>1, <3>1 DEF Established, Relying
  <2>5. CASE d = NoDraft
    <3>1. UNCHANGED draft
      BY <1>4, <2>5 DEF PersistReceipt
    <3>2. /\ key' \in [Key -> {"free", "IN_FLIGHT", "COMPLETED"}]
          /\ used' \in [Alert -> SUBSET Key] /\ faults' \subseteq Faults \cup {"vanished"}
      BY <2>1, Facts DEF Tables
    <3> HIDE DEF r
    <3> QED BY <2>1, <2>2, <2>3, <2>4, <3>1, <3>2, QuietStep
  <2>6. CASE d # NoDraft
    <3>1. d \in Draft /\ draft' = [draft EXCEPT ![d] = row]
      BY <1>4, <2>1, <2>6 DEF PersistReceipt, Set
    <3>2. /\ draft[d].status # "none" => row.status # "none"
          /\ row \in DraftRow /\ row.status # "none" /\ row.status # "APPROVED"
          /\ row.drafted_by = draft[d].drafted_by
      BY <1>0, <3>1 DEF DraftRow, DraftStatus
    <3> HIDE DEF row, r
    <3> QED BY <2>1, <2>2, <2>3, <2>4, <3>1, <3>2, RowStep
  <2> QED BY <2>5, <2>6
<1> QED BY <1>1, <1>2, <1>3, <1>4

LEMMA FilingsKeepInv ==
  ASSUME Inv, NEW o \in Officer, GatewayAccepts(o) \/ GatewayAnswerLost(o)
  PROVE  Inv'
<1>1. /\ req \in [Officer -> Req] /\ req[o] \in Req /\ Established(o) /\ Approvals
      /\ Tables /\ FourEyes /\ filed \in [Alert -> Seq(Filing)]
  BY Facts DEF Tables
<1>2. PICK a \in Alert, k \in Key : a = req[o].on /\ k = req[o].key
  BY <1>1 DEF GatewayAccepts, GatewayAnswerLost, Waiting, Established, Submitting
<1>3. PICK d \in Draft \cup {NoDraft} : d = req[o].draft
  BY <1>1 DEF Req
<1> DEFINE new == [key |-> k, draft |-> d]
           goal == Moved(o, "persist", d, "ACKNOWLEDGED")
           longer == Append(filed[a], new)
<1>4. /\ req[o].at = "gateway" /\ filed' = [filed EXCEPT ![a] = longer]
      /\ UNCHANGED <<draft, alert, key, signed, used>>
  BY <1>2, <1>3 DEF GatewayAccepts, GatewayAnswerLost, Waiting, Take
<1>n. /\ longer \in Seq(Filing) /\ Len(longer) = Len(filed[a]) + 1
      /\ longer[Len(filed[a]) + 1].draft = d
      /\ \A i \in 1 .. Len(filed[a]) : longer[i] = filed[a][i]
      /\ Len(filed[a]) \in Nat
  <2>1. new \in Filing /\ new.draft = d /\ filed[a] \in Seq(Filing)
    BY <1>1 DEF Filing
  <2> HIDE DEF new
  <2> QED BY <2>1
<1> HIDE DEF longer
<1>5. /\ faults \subseteq faults' /\ faults' \subseteq Faults \cup {"vanished"}
  BY <1>1, FaultTyped DEF GatewayAccepts, GatewayAnswerLost, Tables
<1>6. Grows
  BY <1>4, <1>5 DEF Grows
<1>7. Relies(o)
  BY <1>1, <1>4 DEF Established, Relying
<1>8. IF d = NoDraft THEN "db" \in faults' ELSE Independent(d)'
  BY <1>3, <1>4, <1>5, <1>7 DEF Relies, Independent
<1>9. Tables' /\ Approvals'
  <2>1. filed' \in [Alert -> Seq(Filing)]
    BY <1>1, <1>4, <1>n
  <2> QED BY <1>1, <1>4, <1>5, <2>1 DEF Tables, Approvals, Independent
<1>10. FourEyes'
  <2> SUFFICES ASSUME NEW b \in Alert, NEW i \in 1 .. Len(filed'[b])
               PROVE  (IF filed[b][i].draft = NoDraft THEN "db" \in faults
                       ELSE Independent(filed[b][i].draft))'
    BY DEF FourEyes
  <2>1. CASE b = a /\ i = Len(filed[a]) + 1
    <3>1. filed'[b][i].draft = d
      BY <1>1, <1>4, <1>n, <2>1
    <3> QED BY <1>8, <3>1 DEF Independent
  <2>2. CASE ~(b = a /\ i = Len(filed[a]) + 1)
    <3>1. i \in 1 .. Len(filed[b]) /\ filed'[b][i] = filed[b][i]
      <4>1. CASE b = a
        <5>1. filed'[a] = longer
          BY <1>1, <1>4
        <5> QED BY <1>n, <2>2, <4>1, <5>1
      <4>2. CASE b # a
        BY <1>1, <1>4, <4>2
      <4> QED BY <4>1, <4>2
    <3>2. PICK e : e = filed[b][i].draft
      OBVIOUS
    <3>3. IF e = NoDraft THEN "db" \in faults ELSE Independent(e)
      BY <1>1, <3>1, <3>2 DEF FourEyes
    <3>4. IF e = NoDraft THEN "db" \in faults' ELSE Independent(e)'
      BY <1>4, <1>5, <3>3 DEF Independent
    <3>5. filed'[b][i].draft = e
      BY <3>1, <3>2
    <3> QED BY <3>4, <3>5 DEF Independent
  <2> QED BY <2>1, <2>2
<1>11. CASE GatewayAccepts(o)
  <2>1. req' = [req EXCEPT ![o] = goal]
    BY <1>3, <1>11 DEF GatewayAccepts, Moves, Moved
  <2>2. goal \in Req
    BY MovedTyped DEF Step, FilingStatus
  <2>3. /\ req'[o].at = "persist" /\ req'[o].on = a /\ req'[o].key = k
        /\ req'[o].draft = d /\ req'[o].value = "ACKNOWLEDGED"
    BY <1>1, <1>2, <2>1 DEF Moved
  <2>4. Relies(o)'
    BY <1>8, <2>3 DEF Relies, Independent
  <2>5. Established(o)'
    BY <2>3, <2>4 DEF Established
  <2> HIDE DEF goal
  <2> QED BY <1>6, <1>9, <1>10, <2>1, <2>2, <2>5, RequestStep
<1>12. CASE GatewayAnswerLost(o)
  <2> DEFINE r == Moved(o, "failed", d, req[o].value)
  <2>1. req' = [req EXCEPT ![o] = r]
    BY <1>3, <1>12 DEF GatewayAnswerLost, Goes, Moves, Moved
  <2>2. r \in Req
    BY <1>1, MovedTyped DEF Step, Req
  <2>3. req'[o].at = "failed" /\ req'[o].on = a /\ req'[o].key = k
    BY <1>1, <1>2, <2>1 DEF Moved
  <2>4. Established(o)'
    BY <2>3 DEF Established, Relying
  <2> HIDE DEF r
  <2> QED BY <1>6, <1>9, <1>10, <2>1, <2>2, <2>4, RequestStep
<1> QED BY <1>11, <1>12

LEMMA InitInv == Init => Inv
<1> SUFFICES ASSUME Init
             PROVE  Inv
  OBVIOUS
<1>1. TypeOK
  BY NoReqTyped, NoRowTyped DEF Init, TypeOK, FilingStatus, Req
<1>2. Approvals
  BY NoRowTyped DEF Init, Approvals
<1>3. FourEyes
  BY DEF Init, FourEyes
<1>4. \A o \in Officer : Established(o)
  BY NoReqTyped DEF Init, Established, Submitting, Relying
<1> QED BY <1>1, <1>2, <1>3, <1>4 DEF Inv

(* The steps of one officer.                                               *)
OfficerStep(o) ==
  \/ \E a \in Alert : CreateDraft(o, a)
  \/ \E d \in Draft : ReviewRead(o, d)
  \/ \E v \in {"APPROVED", "REJECTED"} : ReviewCommit(o, v)
  \/ \E d \in Draft, s \in {"DRAFT", "PENDING_MLRO_REVIEW", "keep"} : EditRead(o, d, s)
  \/ EditCommit(o)
  \/ \E a \in Alert, k \in Key, d \in Draft \cup {NoDraft} :
       SubmitReserve(o, a, k, d) \/ SubmitUnkeyed(o, a, k, d)
  \/ SubmitCached(o) \/ CheckAlert(o) \/ CheckDraft(o) \/ MarkPending(o)
  \/ ChecksFail(o) \/ GatewayAccepts(o) \/ GatewayRejects(o) \/ GatewayFails(o)
  \/ GatewayAnswerLost(o) \/ RecordFailure(o) \/ PersistReceipt(o)
  \/ PersistFails(o) \/ SaveResult(o) \/ Crash(o)

LEMMA NextIsStep ==
  Next <=> (\E o \in Officer : OfficerStep(o)) \/ \E k \in Key : KeyExpires(k)
BY DEF Next, OfficerStep

LEMMA NextInv == Inv /\ [Next]_vars => Inv'
<1> SUFFICES ASSUME Inv, [Next]_vars
             PROVE  Inv'
  OBVIOUS
<1>1. ASSUME NEW o \in Officer,
             \/ \E a \in Alert : CreateDraft(o, a)
             \/ \E v \in {"APPROVED", "REJECTED"} : ReviewCommit(o, v)
             \/ EditCommit(o)
             \/ PersistReceipt(o)
      PROVE  Inv'
  BY <1>1, DraftsKeepInv
<1>2. ASSUME NEW o \in Officer,
             \E d \in Draft :
               \/ ReviewRead(o, d)
               \/ \E s \in {"DRAFT", "PENDING_MLRO_REVIEW", "keep"} : EditRead(o, d, s)
      PROVE  Inv'
  BY <1>2, ReadsKeepInv
<1>3. ASSUME NEW o \in Officer,
             \E a \in Alert, k \in Key, d \in Draft \cup {NoDraft} :
               SubmitReserve(o, a, k, d) \/ SubmitUnkeyed(o, a, k, d)
      PROVE  Inv'
  BY <1>3, SubmitKeepsInv
<1>4. ASSUME NEW o \in Officer,
             SubmitCached(o) \/ CheckAlert(o) \/ CheckDraft(o) \/ ChecksFail(o)
      PROVE  Inv'
  BY <1>4, ChecksKeepInv
<1>5. ASSUME NEW o \in Officer,
             \/ MarkPending(o) \/ GatewayRejects(o) \/ GatewayFails(o)
             \/ RecordFailure(o) \/ PersistFails(o) \/ SaveResult(o) \/ Crash(o)
      PROVE  Inv'
  BY <1>5, QuietKeepsInv
<1>6. ASSUME NEW o \in Officer, GatewayAccepts(o) \/ GatewayAnswerLost(o)
      PROVE  Inv'
  BY <1>6, FilingsKeepInv
<1>7. ASSUME NEW k \in Key, KeyExpires(k)
      PROVE  Inv'
  BY <1>7, ExpiryKeepsInv
<1>8. CASE UNCHANGED vars
  <2>1. Grows /\ UNCHANGED <<draft, alert, key, req, filed, signed, used, faults>>
    BY <1>8 DEF vars, Grows
  <2>2. Tables' /\ req' \in [Officer -> Req]
    BY <2>1, TypeParts DEF Inv, Tables
  <2>3. Approvals' /\ FourEyes'
    BY <2>1, FilingsKeep DEF Inv, Approvals, Independent
  <2>4. \A p \in Officer : Established(p)'
    BY <2>1, OthersKeep
  <2> QED BY <2>2, <2>3, <2>4, TypeParts DEF Inv, Tables, TypeOK, Req
<1>9. CASE Next
  <2>1. CASE \E k \in Key : KeyExpires(k)
    BY <1>7, <2>1
  <2>2. ASSUME NEW o \in Officer, OfficerStep(o)
        PROVE  Inv'
    BY <1>1, <1>2, <1>3, <1>4, <1>5, <1>6, <2>2 DEF OfficerStep
  <2> QED BY <1>9, <2>1, <2>2, NextIsStep
<1> QED BY <1>8, <1>9

(* Type correctness of the drafts, keys, requests and filings.             *)
THEOREM SarTypeOK == Spec => []TypeOK
<1>1. Inv => TypeOK
  BY DEF Inv
<1> QED BY <1>1, InitInv, NextInv, PTL DEF Spec

(* submit_sar_to_fincen files nothing that a second person has not         *)
(* approved, unless the database failed during its checks.                 *)
THEOREM SarFourEyes == Spec => []FourEyes
<1>1. Inv => FourEyes
  BY DEF Inv
<1> QED BY <1>1, InitInv, NextInv, PTL DEF Spec
-----------------------------------------------------------------------------
(* ApprovalStands.  No step but EditRead starts an edit, and the steps     *)
(* that write drafts spare those that are approved and not being edited.   *)
NoNewEdit == \A p \in Officer : req'[p].at = "edit" => req'[p] = req[p]

LEMMA NoNewEditCases ==
  ASSUME Inv, NEW o \in Officer,
         \/ req' = req
         \/ Done(o)
         \/ \E s \in Step \ {"edit"} : \E d, v : Moves(o, s, d, v)
         \/ \E s \in Step \ {"edit"} : \E a, k, d, v : Starts(o, s, a, k, d, v)
  PROVE  NoNewEdit
<1>1. req \in [Officer -> Req]
  BY Facts
<1>2. CASE req' = req
  BY <1>2 DEF NoNewEdit
<1>3. CASE Done(o)
  BY <1>1, <1>3, NoReqTyped DEF Done, NoNewEdit
<1>4. ASSUME NEW s \in Step \ {"edit"}, NEW d, NEW v, Moves(o, s, d, v)
      PROVE  NoNewEdit
  BY <1>1, <1>4 DEF Moves, NoNewEdit
<1>5. ASSUME NEW s \in Step \ {"edit"}, NEW a, NEW k, NEW d, NEW v,
             Starts(o, s, a, k, d, v)
      PROVE  NoNewEdit
  BY <1>1, <1>5 DEF Starts, NoNewEdit
<1> QED BY <1>2, <1>3, <1>4, <1>5

LEMMA QuietNoNewEdit ==
  ASSUME Inv, NEW o \in Officer,
         \/ \E d \in Draft : ReviewRead(o, d)
         \/ \E a \in Alert, k \in Key, d \in Draft \cup {NoDraft} :
              SubmitReserve(o, a, k, d) \/ SubmitUnkeyed(o, a, k, d)
         \/ SubmitCached(o) \/ CheckAlert(o) \/ CheckDraft(o) \/ MarkPending(o)
         \/ ChecksFail(o) \/ GatewayAccepts(o) \/ GatewayRejects(o) \/ GatewayFails(o)
         \/ GatewayAnswerLost(o) \/ RecordFailure(o)
         \/ PersistFails(o) \/ SaveResult(o) \/ Crash(o)
  PROVE  NoNewEdit /\ UNCHANGED draft
<1>1. ASSUME NEW d \in Draft, ReviewRead(o, d)
      PROVE  NoNewEdit /\ UNCHANGED draft
  <2>1. \E s \in Step \ {"edit"} : \E a, k, e, v : Starts(o, s, a, k, e, v)
    BY <1>1 DEF ReviewRead, Step
  <2> QED BY <1>1, <2>1, NoNewEditCases DEF ReviewRead
<1>2. ASSUME NEW a \in Alert, NEW k \in Key, NEW d \in Draft \cup {NoDraft},
             SubmitReserve(o, a, k, d) \/ SubmitUnkeyed(o, a, k, d)
      PROVE  NoNewEdit /\ UNCHANGED draft
  <2>1. \E s \in Step \ {"edit"} : Starts(o, s, a, k, d, "NULL")
    BY <1>2 DEF SubmitReserve, SubmitUnkeyed, Step
  <2>2. \E s \in Step \ {"edit"} : \E b, l, e, v : Starts(o, s, b, l, e, v)
    BY <2>1
  <2> QED BY <1>2, <2>2, NoNewEditCases DEF SubmitReserve, SubmitUnkeyed
<1>3. CASE SubmitCached(o)
  <2>1. Done(o) \/ \E s \in Step \ {"edit"} : \E d, v : Moves(o, s, d, v)
    BY <1>3 DEF SubmitCached, Goes, Step
  <2> QED BY <1>3, <2>1, NoNewEditCases DEF SubmitCached
<1>4. CASE CheckAlert(o)
  <2>1. Done(o) \/ \E s \in Step \ {"edit"} : \E d, v : Moves(o, s, d, v)
    BY <1>4 DEF CheckAlert, Goes, Step
  <2> QED BY <1>4, <2>1, NoNewEditCases DEF CheckAlert
<1>5. CASE CheckDraft(o)
  <2>1. Done(o) \/ \E s \in Step \ {"edit"} : \E d, v : Moves(o, s, d, v)
    BY <1>5 DEF CheckDraft, Step
  <2> QED BY <1>5, <2>1, NoNewEditCases DEF CheckDraft
<1>6. CASE MarkPending(o) \/ GatewayFails(o) \/ GatewayAnswerLost(o)
  <2>1. \E s \in Step \ {"edit"} : \E d, v : Moves(o, s, d, v)
    BY <1>6 DEF MarkPending, GatewayFails, GatewayAnswerLost, Goes, Step
  <2> QED BY <1>6, <2>1, NoNewEditCases DEF MarkPending, GatewayFails, GatewayAnswerLost
<1>7. CASE ChecksFail(o) \/ GatewayAccepts(o) \/ GatewayRejects(o)
  <2>1. \E s \in Step \ {"edit"} : \E d, v : Moves(o, s, d, v)
    BY <1>7 DEF ChecksFail, GatewayAccepts, GatewayRejects, Step
  <2> QED BY <1>7, <2>1, NoNewEditCases DEF ChecksFail, GatewayAccepts, GatewayRejects
<1>8. CASE RecordFailure(o) \/ PersistFails(o) \/ SaveResult(o) \/ Crash(o)
  BY <1>8, NoNewEditCases DEF RecordFailure, PersistFails, SaveResult, Crash
<1> QED BY <1>1, <1>2, <1>3, <1>4, <1>5, <1>6, <1>7, <1>8

LEMMA SettledStays ==
  ASSUME Inv, NEW d \in Draft, Settled(d), NoNewEdit,
         draft'[d].status \in {"APPROVED", "FILED"}
  PROVE  Settled(d)'
BY DEF Settled, NoNewEdit

LEMMA StepKeepsSettled ==
  ASSUME Inv, NEW d \in Draft, Settled(d), NEW o \in Officer, OfficerStep(o)
  PROVE  Settled(d)'
<1>0. /\ req \in [Officer -> Req] /\ req[o] \in Req /\ Established(o)
      /\ draft \in [Draft -> DraftRow]
      /\ draft[d].status \in {"APPROVED", "FILED"}
      /\ \A p \in Officer : ~(req[p].at = "edit" /\ req[p].draft = d)
  BY Facts DEF Tables, Settled
<1>1. CASE NoNewEdit /\ UNCHANGED draft
  BY <1>0, <1>1, SettledStays
<1>2. ASSUME NEW a \in Alert, CreateDraft(o, a)
      PROVE  Settled(d)'
  <2>1. /\ req' = req
        /\ \E e \in Draft : /\ draft[e].status = "none"
                            /\ \A c \in Draft : c # e => draft'[c] = draft[c]
    BY <1>0, <1>2 DEF CreateDraft
  <2>2. draft'[d] = draft[d]
    BY <1>0, <2>1
  <2> QED BY <1>0, <2>1, <2>2, NoNewEditCases, SettledStays
<1>3. ASSUME NEW v \in {"APPROVED", "REJECTED"}, ReviewCommit(o, v)
      PROVE  Settled(d)'
  <2>1. Done(o) /\ req[o].draft \in Draft
    BY <1>0, <1>3 DEF ReviewCommit, Waiting, Established
  <2>2. draft'[d] = draft[d]
    BY <1>0, <1>3, <2>1 DEF ReviewCommit, Set
  <2> QED BY <1>0, <2>1, <2>2, NoNewEditCases, SettledStays
<1>4. CASE EditCommit(o)
  <2>1. Done(o) /\ req[o].draft \in Draft /\ req[o].draft # d
    BY <1>0, <1>4 DEF EditCommit, Waiting, Established
  <2>2. draft'[d] = draft[d]
    BY <1>0, <1>4, <2>1 DEF EditCommit, Set
  <2> QED BY <1>0, <2>1, <2>2, NoNewEditCases, SettledStays
<1>5. CASE PersistReceipt(o)
  <2>1. \E s \in Step \ {"edit"} : \E e, v : Moves(o, s, e, v)
    BY <1>5 DEF PersistReceipt, Goes, Step
  <2>2. draft'[d].status \in {"APPROVED", "FILED"}
    BY <1>0, <1>5 DEF PersistReceipt, Set
  <2> QED BY <2>1, <2>2, NoNewEditCases, SettledStays
<1>6. ASSUME NEW e \in Draft, NEW s \in {"DRAFT", "PENDING_MLRO_REVIEW", "keep"},
             EditRead(o, e, s)
      PROVE  Settled(d)'
  <2>1. e # d /\ UNCHANGED draft
    BY <1>0, <1>6 DEF EditRead
  <2>2. req'[o].draft = e /\ \A p \in Officer : p # o => req'[p] = req[p]
    BY <1>0, <1>6 DEF EditRead, Starts
  <2> QED BY <1>0, <2>1, <2>2 DEF Settled
<1> QED BY <1>1, <1>2, <1>3, <1>4, <1>5, <1>6, QuietNoNewEdit DEF OfficerStep

(* update_sar_draft and the other handlers leave an approved or filed      *)
(* draft as it is unless its edit began before.                            *)
THEOREM SarApprovalStands == Spec => ApprovalStands
<1>1. ASSUME Inv, [Next]_vars
      PROVE  [\A d \in Draft : Settled(d) => Settled(d)']_vars
  <2>1. ASSUME Next, NEW d \in Draft, Settled(d)
        PROVE  Settled(d)'
    <3>1. CASE \E k \in Key : KeyExpires(k)
      BY <2>1, <3>1 DEF KeyExpires, Settled
    <3>2. CASE \E o \in Officer : OfficerStep(o)
      BY <1>1, <2>1, <3>2, StepKeepsSettled
    <3> QED BY <2>1, <3>1, <3>2, NextIsStep
  <2> QED BY <1>1, <2>1
<1> QED BY <1>1, InitInv, NextInv, PTL DEF Spec, ApprovalStands

-----------------------------------------------------------------------------
(* FilingTracked.  Only the request whose report was taken records it, and *)
(* without one of the three faults it does.                                *)
Untracking == {"lost answer", "db", "crash"}
Tracked(a) ==
  filed[a] # <<>> /\ ~ (\E o \in Officer : req[o].at = "persist" /\ req[o].on = a)
    => alert[a].tracking = "set"

(* What a step of o does to the filings, their requests and the tracking   *)
(* ids, if none of the three faults occurs.                                *)
LEMMA TrackingCourse ==
  ASSUME Inv, NEW o \in Officer, OfficerStep(o), faults' \cap Untracking = {}
  PROVE  /\ \A p \in Officer \ {o} : req'[p] = req[p]
         /\ \/ /\ UNCHANGED filed /\ (req[o].at = "persist" => req'[o] = req[o])
               /\ \A a \in Alert : alert'[a].tracking = alert[a].tracking
            \/ /\ req'[o].at = "persist" /\ req'[o].on = req[o].on /\ req[o].at = "gateway"
               /\ UNCHANGED alert
               /\ \A a \in Alert \ {req[o].on} : filed'[a] = filed[a]
            \/ /\ req[o].at = "persist" /\ UNCHANGED filed
               /\ alert'[req[o].on].tracking = "set"
               /\ \A a \in Alert \ {req[o].on} : alert'[a] = alert[a]
<1>0. /\ req \in [Officer -> Req] /\ req[o] \in Req /\ Established(o)
      /\ alert \in [Alert -> [filing : FilingStatus, tracking : {"NULL", "set"}]]
      /\ filed \in [Alert -> Seq(Filing)]
  BY Facts DEF Tables
<1>1. ASSUME NEW f \in Untracking PROVE ~Fault(f)
  BY DEF Fault
<1>2. CASE \/ \E a \in Alert : CreateDraft(o, a)
           \/ \E d \in Draft : ReviewRead(o, d)
           \/ \E v \in {"APPROVED", "REJECTED"} : ReviewCommit(o, v)
           \/ \E d \in Draft, s \in {"DRAFT", "PENDING_MLRO_REVIEW", "keep"} : EditRead(o, d, s)
           \/ EditCommit(o)
  BY <1>0, <1>2 DEF CreateDraft, ReviewRead, ReviewCommit, EditRead, EditCommit, Starts, Done,
     Waiting, NoReq
<1>3. CASE \/ \E a \in Alert, k \in Key, d \in Draft \cup {NoDraft} :
                SubmitReserve(o, a, k, d) \/ SubmitUnkeyed(o, a, k, d)
           \/ SubmitCached(o) \/ CheckAlert(o) \/ CheckDraft(o) \/ GatewayFails(o)
  BY <1>0, <1>3 DEF SubmitReserve, SubmitUnkeyed, SubmitCached, CheckAlert, CheckDraft,
     GatewayFails, Starts, Done, Goes, Moves, Waiting, NoReq
<1>4. CASE MarkPending(o)
  BY <1>0, <1>4 DEF MarkPending, Goes, Moves, Waiting
<1>5. CASE RecordFailure(o)
  <2>1. alert' = [alert EXCEPT ![req[o].on].filing = "FAILED"]
    BY <1>1, <1>5 DEF RecordFailure, Untracking
  <2> QED
    BY <1>0, <1>5, <2>1 DEF RecordFailure, Done, Waiting
<1>6. CASE SaveResult(o)
  BY <1>0, <1>6 DEF SaveResult, Done, Waiting
<1>7. CASE GatewayAccepts(o)
  BY <1>0, <1>7 DEF GatewayAccepts, Take, Moves, Waiting
<1>8. CASE GatewayRejects(o)
  BY <1>0, <1>8 DEF GatewayRejects, Moves, Waiting
<1>9. CASE PersistReceipt(o)
  <2>1. req[o].on \in Alert
    BY <1>0, <1>9 DEF PersistReceipt, Waiting, Established, Submitting
  <2> QED
    BY <1>0, <1>9, <2>1 DEF PersistReceipt, Goes, Moves, Waiting
<1>10. ~ChecksFail(o) /\ ~GatewayAnswerLost(o) /\ ~PersistFails(o) /\ ~Crash(o)
  BY <1>1 DEF ChecksFail, GatewayAnswerLost, PersistFails, Crash, Untracking
<1> QED
  BY <1>2, <1>3, <1>4, <1>5, <1>6, <1>7, <1>8, <1>9, <1>10 DEF OfficerStep

(* The tracking ids step by step.                                          *)
LEMMA TrackingStays ==
  Inv /\ FilingTracked /\ [Next]_vars => FilingTracked'
<1> SUFFICES ASSUME Inv, FilingTracked, [Next]_vars, NEW a \in Alert, faults' \cap Untracking = {}
             PROVE  Tracked(a)'
  BY DEF FilingTracked, Tracked, Untracking
<1>1. CASE UNCHANGED vars
  <2>1. Tracked(a)
    BY <1>1 DEF FilingTracked, Tracked, vars, Untracking
  <2> QED
    BY <1>1, <2>1 DEF Tracked, vars
<1>2. ASSUME NEW k \in Key, KeyExpires(k)
      PROVE  Tracked(a)'
  <2>1. UNCHANGED <<alert, req, filed>> /\ faults \subseteq faults'
    BY <1>2 DEF KeyExpires, Fault
  <2>2. Tracked(a)
    BY <2>1 DEF FilingTracked, Tracked, Untracking
  <2> QED
    BY <2>1, <2>2 DEF Tracked
<1>3. ASSUME NEW o \in Officer, OfficerStep(o)
      PROVE  Tracked(a)'
  <2>1. faults \subseteq faults'
    BY <1>3 DEF OfficerStep, CreateDraft, ReviewRead, ReviewCommit, EditRead, EditCommit,
       SubmitReserve, SubmitUnkeyed, SubmitCached, CheckAlert, CheckDraft, MarkPending, ChecksFail,
       GatewayAccepts, GatewayRejects, GatewayFails, GatewayAnswerLost, RecordFailure,
       PersistReceipt, PersistFails, SaveResult, Crash, Fault
  <2>2. Tracked(a)
    BY <2>1 DEF FilingTracked, Tracked, Untracking
  <2>3. /\ \A p \in Officer \ {o} : req'[p] = req[p]
        /\ \/ /\ UNCHANGED filed /\ (req[o].at = "persist" => req'[o] = req[o])
              /\ \A b \in Alert : alert'[b].tracking = alert[b].tracking
           \/ /\ req'[o].at = "persist" /\ req'[o].on = req[o].on /\ req[o].at = "gateway"
              /\ UNCHANGED alert
              /\ \A b \in Alert \ {req[o].on} : filed'[b] = filed[b]
           \/ /\ req[o].at = "persist" /\ UNCHANGED filed
              /\ alert'[req[o].on].tracking = "set"
              /\ \A b \in Alert \ {req[o].on} : alert'[b] = alert[b]
    BY <1>3, TrackingCourse
  <2> QED
    BY <2>2, <2>3 DEF Tracked
<1> QED
  BY <1>1, <1>2, <1>3, NextIsStep

(* What the gateway took is tracked once its request has ended.            *)
THEOREM SarFilingTracked == Spec => []FilingTracked
<1>1. Init => FilingTracked
  BY DEF Init, FilingTracked
<1> QED BY <1>1, InitInv, NextInv, TrackingStays, PTL DEF Spec

(* OneFilingPerKey.  Unless a fault frees it, a key is taken from the time *)
(* a request reserves it until the request ends without filing, and for    *)
(* good once it has filed; nobody else has it meanwhile.                   *)
KeyFaults == {"redis", "expired", "vanished", "lost answer"}
Unfiled == {"alert", "draft", "mark", "gateway", "failed"}
Owning == Unfiled \cup {"persist", "save"}

KeyOwned(o) ==
  req[o].at \in Owning =>
    /\ key[req[o].key] # "free"
    /\ req[o].key \in used[req[o].on]
    /\ \A p \in Officer : req[p].at \in Owning /\ req[p].key = req[o].key => p = o
FilingKeyed(a, i) ==
  /\ key[filed[a][i].key] # "free"
  /\ filed[a][i].key \in used[a]
  /\ \A o \in Officer : req[o].at \in Unfiled => req[o].key # filed[a][i].key
  /\ \A j \in 1 .. Len(filed[a]) : filed[a][j].key = filed[a][i].key => j = i
KeysHeld ==
  /\ \A o \in Officer : KeyOwned(o)
  /\ \A a \in Alert : \A i \in 1 .. Len(filed[a]) : FilingKeyed(a, i)
KeysGuard ==
  /\ \A a \in Alert : IsFiniteSet(used[a])
  /\ faults \cap KeyFaults = {} => KeysHeld

(* What a step does to keys, filings and the requests that own a key.      *)
Lets(o) ==
  /\ UNCHANGED <<key, filed, used>>
  /\ req'[o].at \in Owning => req'[o] = req[o]
Frees(o) ==
  /\ req[o].at \in Unfiled /\ req'[o].at = "idle"
  /\ key' = Cleared(req[o].key) /\ UNCHANGED <<filed, used>>
GoesOn(o) ==
  /\ UNCHANGED <<key, filed, used>>
  /\ req[o].at \in Owning /\ req'[o].key = req[o].key /\ req'[o].on = req[o].on
  /\ req'[o].at \in Unfiled => req[o].at \in Unfiled
Reserves(o, a, k) ==
  /\ key[k] = "free" /\ key' = [key EXCEPT ![k] = "IN_FLIGHT"]
  /\ used' = [used EXCEPT ![a] = used[a] \cup {k}] /\ UNCHANGED filed
  /\ req'[o].at = "alert" /\ req'[o].key = k /\ req'[o].on = a
Files(o) ==
  /\ req[o].at = "gateway" /\ req'[o].at = "persist"
  /\ req'[o].key = req[o].key /\ req'[o].on = req[o].on
  /\ filed' = [filed EXCEPT ![req[o].on] = Append(filed[req[o].on], [key |-> req[o].key, draft |-> req[o].draft])]
  /\ UNCHANGED <<key, used>>
Saves(o) ==
  /\ req[o].at = "save" /\ req'[o].at = "idle"
  /\ key' = [key EXCEPT ![req[o].key] = "COMPLETED"] /\ UNCHANGED <<filed, used>>

(* Unless one of the four faults occurs there are no other steps.          *)
LEMMA KeyCourse ==
  ASSUME Inv, NEW o \in Officer, OfficerStep(o), faults' \cap KeyFaults = {}
  PROVE  /\ \A p \in Officer \ {o} : req'[p] = req[p]
         /\ \/ Lets(o) \/ Frees(o) \/ GoesOn(o) \/ Files(o) \/ Saves(o)
            \/ \E a \in Alert, k \in Key : Reserves(o, a, k)
<1>0. /\ req \in [Officer -> Req] /\ req[o] \in Req
      /\ key \in [Key -> {"free", "IN_FLIGHT", "COMPLETED"}]
  BY Facts DEF Tables
<1>1. ASSUME NEW f \in KeyFaults PROVE ~Fault(f)
  BY DEF Fault
<1>2. CASE \/ \E a \in Alert : CreateDraft(o, a)
           \/ \E d \in Draft : ReviewRead(o, d)
           \/ \E v \in {"APPROVED", "REJECTED"} : ReviewCommit(o, v)
           \/ \E d \in Draft, s \in {"DRAFT", "PENDING_MLRO_REVIEW", "keep"} : EditRead(o, d, s)
           \/ EditCommit(o) \/ PersistFails(o) \/ Crash(o)
  <2>1. \A p \in Officer \ {o} : req'[p] = req[p]
    BY <1>0, <1>2 DEF CreateDraft, ReviewRead, ReviewCommit, EditRead, EditCommit, PersistFails,
       Crash, Starts, Done
  <2>2. UNCHANGED <<key, filed, used>>
    BY <1>2 DEF CreateDraft, ReviewRead, ReviewCommit, EditRead, EditCommit, PersistFails, Crash
  <2>3. req'[o] = req[o] \/ req'[o].at \in {"idle", "review", "edit"}
    BY <1>0, <1>2 DEF CreateDraft, ReviewRead, ReviewCommit, EditRead, EditCommit, PersistFails,
       Crash, Starts, Done, NoReq
  <2> QED
    BY <2>1, <2>2, <2>3 DEF Lets, Owning, Unfiled
<1>3. ASSUME NEW a \in Alert, NEW k \in Key, NEW d \in Draft \cup {NoDraft},
             SubmitReserve(o, a, k, d) \/ SubmitUnkeyed(o, a, k, d)
      PROVE  /\ \A p \in Officer \ {o} : req'[p] = req[p]
             /\ Lets(o) \/ Reserves(o, a, k)
  <2>1. SubmitReserve(o, a, k, d)
    BY <1>1, <1>3 DEF SubmitUnkeyed, KeyFaults
  <2>2. CASE key[k] = "free"
    BY <1>0, <2>1, <2>2 DEF SubmitReserve, Starts, Reserves
  <2>3. CASE key[k] # "free"
    BY <1>0, <2>1, <2>3 DEF SubmitReserve, Starts, Lets, Owning, Unfiled
  <2> QED
    BY <2>2, <2>3
<1>4. CASE SubmitCached(o)
  <2>1. key[req[o].key] # "free" /\ Done(o) /\ UNCHANGED <<key, filed, used>>
    BY <1>4 DEF SubmitCached, KeyFaults
  <2> QED
    BY <1>0, <2>1 DEF Done, NoReq, Lets, Owning, Unfiled
<1>5. CASE CheckAlert(o)
  <2>1. CASE Done(o) /\ key' = Cleared(req[o].key)
    BY <1>0, <1>5, <2>1 DEF CheckAlert, Waiting, Done, NoReq, Frees, Unfiled
  <2>2. CASE Goes(o, "draft") /\ UNCHANGED key
    BY <1>0, <1>5, <2>2 DEF CheckAlert, Waiting, Goes, Moves, GoesOn, Owning, Unfiled
  <2> QED
    BY <1>5, <2>1, <2>2 DEF CheckAlert
<1>6. CASE CheckDraft(o)
  <2>1. CASE Done(o)
    BY <1>0, <1>6, <2>1 DEF CheckDraft, Done, NoReq, Lets, Owning, Unfiled
  <2>2. CASE \E d \in Draft \cup {NoDraft} : Moves(o, "mark", d, req[o].value)
    BY <1>0, <1>6, <2>2 DEF CheckDraft, Waiting, Moves, GoesOn, Owning, Unfiled
  <2> QED
    BY <1>6, <2>1, <2>2 DEF CheckDraft
<1>7. CASE MarkPending(o) \/ GatewayRejects(o) \/ GatewayFails(o)
  BY <1>0, <1>7 DEF MarkPending, GatewayRejects, GatewayFails, Waiting, Goes, Moves, GoesOn,
     Owning, Unfiled
<1>8. CASE ChecksFail(o)
  BY <1>0, <1>8 DEF ChecksFail, Moves, GoesOn, Owning, Unfiled
<1>9. CASE PersistReceipt(o)
  BY <1>0, <1>9 DEF PersistReceipt, Waiting, Goes, Moves, GoesOn, Owning, Unfiled
<1>10. CASE GatewayAccepts(o)
  BY <1>0, <1>10 DEF GatewayAccepts, Take, Waiting, Moves, Files
<1>11. CASE RecordFailure(o)
  BY <1>0, <1>11 DEF RecordFailure, Waiting, Done, NoReq, Frees, Unfiled
<1>12. CASE SaveResult(o)
  <2>1. key' = [key EXCEPT ![req[o].key] = "COMPLETED"]
    BY <1>1, <1>12 DEF SaveResult, KeyFaults
  <2> QED
    BY <1>0, <1>12, <2>1 DEF SaveResult, Waiting, Done, NoReq, Saves
<1>13. ~GatewayAnswerLost(o)
  BY <1>1 DEF GatewayAnswerLost, KeyFaults
<1> QED
  BY <1>2, <1>3, <1>4, <1>5, <1>6, <1>7, <1>8, <1>9, <1>10, <1>11, <1>12, <1>13 DEF OfficerStep

(* What the six kinds of steps need of the state.                          *)
Keyed ==
  /\ req \in [Officer -> Req]
  /\ key \in [Key -> {"free", "IN_FLIGHT", "COMPLETED"}]
  /\ used \in [Alert -> SUBSET Key]
  /\ filed \in [Alert -> Seq(Filing)]
  /\ \A o \in Officer : req[o].at \in Owning => req[o].on \in Alert /\ req[o].key \in Key

(* The invariant gives it.                                                 *)
LEMMA InvKeyed == Inv => Keyed
<1> SUFFICES ASSUME Inv PROVE Keyed
  OBVIOUS
<1>1. \A o \in Officer : req[o].at \in Owning => req[o].on \in Alert /\ req[o].key \in Key
  BY DEF Inv, Established, Owning, Unfiled, Submitting
<1> QED BY <1>1, TypeParts DEF Inv, Tables, Keyed

(* A report was filed with a key.                                          *)
LEMMA FilingTyped ==
  ASSUME Keyed, NEW a \in Alert, NEW i \in 1 .. Len(filed[a])
  PROVE  filed[a][i].key \in Key
<1>1. filed[a] \in Seq(Filing)
  BY DEF Keyed
<1>2. filed[a][i] \in Filing
  BY <1>1
<1> QED BY <1>2 DEF Filing

(* A step that only goes on, or ends without freeing the key.              *)
LEMMA LetsKeeps ==
  ASSUME Keyed, KeysHeld, NEW o \in Officer, \A p \in Officer \ {o} : req'[p] = req[p], Lets(o) \/ GoesOn(o)
  PROVE  KeysHeld'
<1>1. \A p \in Officer : /\ req'[p].at \in Owning => /\ req[p].at \in Owning
                                                     /\ req'[p].key = req[p].key /\ req'[p].on = req[p].on
                         /\ req'[p].at \in Unfiled => req[p].at \in Unfiled
  BY DEF Lets, GoesOn, Owning
<1>2. UNCHANGED <<key, filed, used>>
  BY DEF Lets, GoesOn
<1>3. ASSUME NEW p \in Officer PROVE KeyOwned(p)'
  BY <1>1, <1>2 DEF KeysHeld, KeyOwned
<1>4. ASSUME NEW a \in Alert, NEW i \in 1 .. Len(filed[a]) PROVE FilingKeyed(a, i)'
  <2>1. FilingKeyed(a, i)
    BY DEF KeysHeld
  <2>2. \A p \in Officer : req'[p].at \in Unfiled => req'[p].key # filed[a][i].key
    BY <1>1, <2>1 DEF FilingKeyed, Owning
  <2> QED BY <1>2, <2>1, <2>2 DEF FilingKeyed
<1> QED BY <1>2, <1>3, <1>4 DEF KeysHeld

(* The key is freed by the only request that has it, before it has filed.  *)
LEMMA FreesKeeps ==
  ASSUME Keyed, KeysHeld, NEW o \in Officer, \A p \in Officer \ {o} : req'[p] = req[p], Frees(o)
  PROVE  KeysHeld'
<1>1. /\ req[o].at \in Unfiled /\ req'[o].at \notin Owning /\ UNCHANGED <<filed, used>>
      /\ \A k \in Key : k # req[o].key => key'[k] = key[k]
  BY DEF Frees, Cleared, Keyed, Owning, Unfiled
<1>2. ASSUME NEW p \in Officer PROVE KeyOwned(p)'
  <2>1. CASE p = o
    BY <1>1, <2>1 DEF KeyOwned
  <2>2. CASE p # o /\ req[p].at \in Owning
    <3>1. req[p].key \in Key /\ req[p].key # req[o].key
      BY <1>1, <2>2 DEF Keyed, KeysHeld, KeyOwned, Owning
    <3>2. key'[req[p].key] = key[req[p].key] /\ req'[p] = req[p]
      BY <1>1, <2>2, <3>1
    <3>3. KeyOwned(p)
      BY DEF KeysHeld
    <3>4. \A r \in Officer : req'[r].at \in Owning => req'[r] = req[r]
      BY <1>1
    <3> QED BY <1>1, <2>2, <3>2, <3>3, <3>4 DEF KeyOwned
  <2>3. CASE p # o /\ req[p].at \notin Owning
    BY <2>3 DEF KeyOwned
  <2> QED BY <2>1, <2>2, <2>3
<1>3. ASSUME NEW a \in Alert, NEW i \in 1 .. Len(filed[a]) PROVE FilingKeyed(a, i)'
  <2>1. FilingKeyed(a, i) /\ filed[a][i].key \in Key
    BY FilingTyped DEF KeysHeld
  <2>2. key'[filed[a][i].key] = key[filed[a][i].key]
    BY <1>1, <2>1 DEF FilingKeyed
  <2>3. \A p \in Officer : req'[p].at \in Unfiled => req'[p].key # filed[a][i].key
    BY <1>1, <2>1 DEF FilingKeyed, Owning
  <2> QED BY <1>1, <2>1, <2>2, <2>3 DEF FilingKeyed
<1> QED BY <1>1, <1>2, <1>3 DEF KeysHeld

(* The answer is stored under the key.                                     *)
LEMMA SavesKeeps ==
  ASSUME Keyed, KeysHeld, NEW o \in Officer, \A p \in Officer \ {o} : req'[p] = req[p], Saves(o)
  PROVE  KeysHeld'
<1>1. /\ req'[o].at \notin Owning /\ UNCHANGED <<filed, used>>
      /\ \A k \in Key : key[k] # "free" => key'[k] # "free"
  BY DEF Saves, Keyed, Owning, Unfiled
<1>2. \A r \in Officer : req'[r].at \in Owning => req'[r] = req[r]
  BY <1>1
<1>3. ASSUME NEW p \in Officer PROVE KeyOwned(p)'
  <2>1. KeyOwned(p) /\ (req[p].at \in Owning => req[p].key \in Key)
    BY DEF KeysHeld, Keyed
  <2> QED BY <1>1, <1>2, <2>1 DEF KeyOwned
<1>4. ASSUME NEW a \in Alert, NEW i \in 1 .. Len(filed[a]) PROVE FilingKeyed(a, i)'
  <2>1. FilingKeyed(a, i) /\ filed[a][i].key \in Key
    BY FilingTyped DEF KeysHeld
  <2>2. \A p \in Officer : req'[p].at \in Unfiled => req'[p].key # filed[a][i].key
    BY <1>2, <2>1 DEF FilingKeyed, Owning
  <2> QED BY <1>1, <2>1, <2>2 DEF FilingKeyed
<1> QED BY <1>1, <1>3, <1>4 DEF KeysHeld

(* A key that was free has nobody's filings.                               *)
LEMMA ReservesKeeps ==
  ASSUME Keyed, KeysHeld, NEW o \in Officer, \A p \in Officer \ {o} : req'[p] = req[p],
         NEW b \in Alert, NEW k \in Key, Reserves(o, b, k)
  PROVE  KeysHeld'
<1>1. /\ UNCHANGED filed /\ key[k] = "free" /\ key'[k] # "free"
      /\ \A l \in Key : key[l] # "free" => l # k /\ key'[l] # "free"
      /\ k \in used'[b] /\ \A a \in Alert : used[a] \subseteq used'[a]
      /\ req'[o].at = "alert" /\ req'[o].key = k /\ req'[o].on = b
  BY DEF Reserves, Keyed
<1>2. ASSUME NEW p \in Officer, p # o, req[p].at \in Owning
      PROVE  /\ req'[p] = req[p] /\ req[p].key # k /\ req[p].on \in Alert
             /\ key'[req[p].key] # "free" /\ req[p].key \in used'[req[p].on]
  <2>1. KeyOwned(p) /\ req[p].key \in Key /\ req[p].on \in Alert
    BY <1>2 DEF KeysHeld, Keyed
  <2> QED BY <1>1, <1>2, <2>1 DEF KeyOwned
<1>3. ASSUME NEW p \in Officer PROVE KeyOwned(p)'
  <2>1. CASE p = o
    <3>1. \A r \in Officer : r # o /\ req'[r].at \in Owning => req'[r].key # k
      BY <1>2
    <3> QED BY <1>1, <2>1, <3>1 DEF KeyOwned
  <2>2. CASE p # o /\ req[p].at \in Owning
    <3>1. KeyOwned(p)
      BY DEF KeysHeld
    <3>2. \A r \in Officer : r # o => req'[r] = req[r]
      OBVIOUS
    <3> QED BY <1>1, <1>2, <2>2, <3>1, <3>2 DEF KeyOwned
  <2>3. CASE p # o /\ req[p].at \notin Owning
    BY <2>3 DEF KeyOwned
  <2> QED BY <2>1, <2>2, <2>3
<1>4. ASSUME NEW a \in Alert, NEW i \in 1 .. Len(filed[a]) PROVE FilingKeyed(a, i)'
  <2>1. FilingKeyed(a, i) /\ filed[a][i].key \in Key
    BY FilingTyped DEF KeysHeld
  <2>2. filed[a][i].key # k /\ key'[filed[a][i].key] # "free"
    BY <1>1, <2>1 DEF FilingKeyed
  <2>3. \A p \in Officer : req'[p].at \in Unfiled => req'[p].key # filed[a][i].key
    BY <1>1, <2>1, <2>2 DEF FilingKeyed
  <2> QED BY <1>1, <2>1, <2>2, <2>3 DEF FilingKeyed
<1> QED BY <1>1, <1>3, <1>4 DEF KeysHeld

(* The gateway takes the report of the only request with its key.          *)
LEMMA FilesKeeps ==
  ASSUME Keyed, KeysHeld, NEW o \in Officer, \A p \in Officer \ {o} : req'[p] = req[p], Files(o)
  PROVE  KeysHeld'
<1> DEFINE b == req[o].on
           k == req[o].key
           new == [key |-> k, draft |-> req[o].draft]
<1>1. /\ req[o].at = "gateway" /\ req'[o].at = "persist" /\ req'[o].key = k /\ req'[o].on = b
      /\ filed' = [filed EXCEPT ![b] = Append(filed[b], new)] /\ UNCHANGED <<key, used>>
  BY DEF Files
<1>2. b \in Alert /\ k \in Key /\ key[k] # "free" /\ k \in used[b]
  BY <1>1 DEF Keyed, KeysHeld, KeyOwned, Owning, Unfiled
<1>3. filed[b] \in Seq(Filing) /\ filed'[b] = Append(filed[b], new)
      /\ \A a \in Alert : a # b => filed'[a] = filed[a]
  BY <1>1, <1>2 DEF Keyed
<1>4. new.key = k
  OBVIOUS
<1>5. \A p \in Officer : /\ req'[p].at \in Owning => req[p].at \in Owning
                         /\ req'[p].key = req[p].key /\ req'[p].on = req[p].on
                         /\ req'[p].at \in Unfiled => p # o /\ req[p].at \in Unfiled
  BY <1>1 DEF Owning, Unfiled
<1>6. ASSUME NEW p \in Officer PROVE KeyOwned(p)'
  <2>1. KeyOwned(p)
    BY DEF KeysHeld
  <2> QED BY <1>1, <1>5, <2>1 DEF KeyOwned
<1>7. ASSUME NEW a \in Alert, NEW i \in 1 .. Len(filed[a])
      PROVE  /\ FilingKeyed(a, i) /\ filed[a][i].key # k
             /\ \A p \in Officer : req'[p].at \in Unfiled => req'[p].key # filed[a][i].key
  <2>1. FilingKeyed(a, i)
    BY DEF KeysHeld
  <2>2. filed[a][i].key # k
    BY <1>1, <2>1 DEF FilingKeyed, Unfiled
  <2>3. \A p \in Officer : req'[p].at \in Unfiled => req'[p].key # filed[a][i].key
    BY <1>5, <2>1 DEF FilingKeyed
  <2> QED BY <2>1, <2>2, <2>3
<1>8. \A p \in Officer : req'[p].at \in Unfiled => req'[p].key # k
  <2>1. KeyOwned(o) /\ req[o].at \in Owning
    BY <1>1 DEF KeysHeld, Owning, Unfiled
  <2> QED BY <1>5, <2>1 DEF KeyOwned, Owning
<1> HIDE DEF new, k, b
<1>9. ASSUME NEW a \in Alert, NEW i \in 1 .. Len(filed'[a]) PROVE FilingKeyed(a, i)'
  <2>1. CASE a # b
    <3>1. filed'[a] = filed[a] /\ i \in 1 .. Len(filed[a])
      BY <1>3, <2>1
    <3>2. /\ FilingKeyed(a, i)
          /\ \A p \in Officer : req'[p].at \in Unfiled => req'[p].key # filed[a][i].key
      BY <1>7, <3>1
    <3> QED BY <1>1, <3>1, <3>2 DEF FilingKeyed
  <2>2. CASE a = b /\ i = Len(filed[b]) + 1
    <3>1. filed'[a][i] = new /\ Len(filed'[a]) = Len(filed[b]) + 1
      BY <1>3, <2>2
    <3>2. ASSUME NEW j \in 1 .. Len(filed'[a]), j # i PROVE filed'[a][j].key # k
      <4>1. j \in 1 .. Len(filed[b]) /\ filed'[a][j] = filed[b][j]
        BY <1>3, <2>2, <3>1, <3>2
      <4> QED BY <1>2, <1>7, <4>1
    <3> QED BY <1>1, <1>2, <1>4, <1>8, <2>2, <3>1, <3>2 DEF FilingKeyed
  <2>3. CASE a = b /\ i \in 1 .. Len(filed[b])
    <3>1. filed'[a][i] = filed[b][i] /\ Len(filed'[a]) = Len(filed[b]) + 1
      BY <1>3, <2>3
    <3>2. /\ FilingKeyed(b, i) /\ filed[b][i].key # k
          /\ \A p \in Officer : req'[p].at \in Unfiled => req'[p].key # filed[b][i].key
      BY <1>7, <1>2, <2>3
    <3>3. ASSUME NEW j \in 1 .. Len(filed'[a]), filed'[a][j].key = filed'[a][i].key PROVE j = i
      <4>1. CASE j \in 1 .. Len(filed[b])
        <5>1. filed'[a][j] = filed[b][j]
          BY <1>3, <2>3, <4>1
        <5> QED BY <3>1, <3>2, <3>3, <4>1, <5>1 DEF FilingKeyed
      <4>2. CASE j = Len(filed[b]) + 1
        <5>1. filed'[a][j] = new
          BY <1>3, <2>3, <4>2
        <5> QED BY <1>4, <3>1, <3>2, <3>3, <5>1
      <4> QED BY <1>3, <3>1, <4>1, <4>2
    <3> QED BY <1>1, <2>3, <3>1, <3>2, <3>3 DEF FilingKeyed
  <2> QED BY <1>3, <2>1, <2>2, <2>3
<1> QED BY <1>6, <1>9 DEF KeysHeld

(* Keys are used one at a time.                                            *)
LEMMA UsedStaysFinite ==
  ASSUME Inv, \A a \in Alert : IsFiniteSet(used[a]), [Next]_vars
  PROVE  \A a \in Alert : IsFiniteSet(used'[a])
<1>1. CASE UNCHANGED used
  BY <1>1
<1>2. ASSUME NEW b \in Alert, NEW k \in Key, used' = [used EXCEPT ![b] = used[b] \cup {k}]
      PROVE  \A a \in Alert : IsFiniteSet(used'[a])
  <2>1. IsFiniteSet(used[b] \cup {k})
    BY FS_AddElement
  <2> QED BY <1>2, <2>1, InvKeyed DEF Keyed
<1>3. ASSUME NEW o \in Officer, OfficerStep(o)
      PROVE  UNCHANGED used \/ \E b \in Alert, k \in Key : used' = [used EXCEPT ![b] = used[b] \cup {k}]
  <2>1. CASE SubmitCached(o)
    <3>1. CASE used' = [used EXCEPT ![req[o].on] = used[req[o].on] \cup {req[o].key}]
      <4>1. req[o].at = "cached"
        BY <2>1 DEF SubmitCached, Waiting
      <4>2. req[o].on \in Alert /\ req[o].key \in Key
        BY <4>1, Facts DEF Established, Submitting
      <4> QED BY <3>1, <4>2
    <3> QED BY <2>1, <3>1 DEF SubmitCached
  <2>2. CASE \E a \in Alert, k \in Key, d \in Draft \cup {NoDraft} :
               SubmitReserve(o, a, k, d) \/ SubmitUnkeyed(o, a, k, d)
    BY <2>2 DEF SubmitReserve, SubmitUnkeyed
  <2> QED
    BY <1>3, <2>1, <2>2 DEF OfficerStep, CreateDraft, ReviewRead, ReviewCommit, EditRead, EditCommit,
       CheckAlert, CheckDraft, MarkPending, ChecksFail,
       GatewayAccepts, GatewayRejects, GatewayFails, GatewayAnswerLost, RecordFailure,
       PersistReceipt, PersistFails, SaveResult, Crash
<1>4. ASSUME NEW k \in Key, KeyExpires(k) PROVE UNCHANGED used
  BY <1>4 DEF KeyExpires
<1> QED BY <1>1, <1>2, <1>3, <1>4, NextIsStep DEF vars

(* The keys step by step.                                                  *)
LEMMA KeysStay == Inv /\ KeysGuard /\ [Next]_vars => KeysGuard'
<1> SUFFICES ASSUME Inv, KeysGuard, [Next]_vars PROVE KeysGuard'
  OBVIOUS
<1>0. Keyed
  BY InvKeyed
<1>1. \A a \in Alert : IsFiniteSet(used'[a])
  BY UsedStaysFinite DEF KeysGuard
<1>2. ASSUME faults' \cap KeyFaults = {} PROVE KeysHeld'
  <2>1. CASE UNCHANGED vars
    <3>1. KeysHeld
      BY <1>2, <2>1 DEF KeysGuard, vars
    <3>2. UNCHANGED <<req, key, filed, used>>
      BY <2>1 DEF vars
    <3> QED BY <3>1, <3>2 DEF KeysHeld, KeyOwned, FilingKeyed
  <2>2. ASSUME NEW k \in Key PROVE ~KeyExpires(k)
    BY <1>2 DEF KeyExpires, Fault, KeyFaults
  <2>3. ASSUME NEW o \in Officer, OfficerStep(o) PROVE KeysHeld'
    <3>1. faults \subseteq faults'
      BY <2>3 DEF OfficerStep, CreateDraft, ReviewRead, ReviewCommit, EditRead, EditCommit,
       SubmitReserve, SubmitUnkeyed, SubmitCached, CheckAlert, CheckDraft, MarkPending, ChecksFail,
       GatewayAccepts, GatewayRejects, GatewayFails, GatewayAnswerLost, RecordFailure,
       PersistReceipt, PersistFails, SaveResult, Crash, Fault
    <3>2. KeysHeld
      BY <1>2, <3>1 DEF KeysGuard
    <3>3. /\ \A p \in Officer \ {o} : req'[p] = req[p]
          /\ \/ Lets(o) \/ Frees(o) \/ GoesOn(o) \/ Files(o) \/ Saves(o)
             \/ \E a \in Alert, k \in Key : Reserves(o, a, k)
      BY <1>2, <2>3, KeyCourse
    <3> QED
      BY <1>0, <3>2, <3>3, LetsKeeps, FreesKeeps, FilesKeeps, SavesKeeps, ReservesKeeps
  <2> QED BY <2>1, <2>2, <2>3, NextIsStep
<1> QED BY <1>1, <1>2 DEF KeysGuard

(* Filings whose keys differ are no more than there are keys.              *)
LEMMA NoMoreThanKeys ==
  ASSUME Keyed, KeysHeld, NEW a \in Alert, IsFiniteSet(used[a])
  PROVE  Len(filed[a]) <= Cardinality(used[a])
<1> DEFINE n == Len(filed[a])
           f == [i \in 1 .. n |-> filed[a][i].key]
<1>1. filed[a] \in Seq(Filing) /\ n \in Nat
  BY DEF Keyed
<1>2. \A i \in 1 .. n : FilingKeyed(a, i)
  BY DEF KeysHeld
<1>3. f \in [1 .. n -> used[a]]
  BY <1>2 DEF FilingKeyed
<1>4. \A i, j \in 1 .. n : f[i] = f[j] => i = j
  BY <1>2 DEF FilingKeyed
<1>5. f \in Injection(1 .. n, used[a])
  BY <1>3, <1>4 DEF Injection, IsInjective
<1>6. Cardinality(1 .. n) <= Cardinality(used[a])
  BY <1>5, FS_Injection
<1>7. Cardinality(1 .. n) = n
  BY <1>1, FS_Interval
<1> QED BY <1>6, <1>7

(* Without one of the four faults no alert is filed more often than there  *)
(* were keys.                                                              *)
THEOREM SarOneFilingPerKey == Spec => []OneFilingPerKey
<1>1. Init => KeysGuard
  <2> SUFFICES ASSUME Init PROVE KeysGuard
    OBVIOUS
  <2>1. \A a \in Alert : IsFiniteSet(used[a])
    BY FS_EmptySet DEF Init
  <2>2. KeysHeld
    BY NoReqTyped DEF Init, KeysHeld, KeyOwned, NoReq, Owning, Unfiled
  <2> QED BY <2>1, <2>2 DEF KeysGuard
<1>2. Inv /\ KeysGuard => OneFilingPerKey
  <2> SUFFICES ASSUME Inv, KeysGuard, NEW a \in Alert, faults \cap KeyFaults = {}
               PROVE  ~(Len(filed[a]) > Cardinality(used[a]))
    BY DEF OneFilingPerKey, KeyFaults
  <2>1. Keyed /\ KeysHeld /\ IsFiniteSet(used[a])
    BY InvKeyed DEF KeysGuard
  <2>2. Len(filed[a]) <= Cardinality(used[a])
    BY <2>1, NoMoreThanKeys
  <2>3. Len(filed[a]) \in Nat /\ Cardinality(used[a]) \in Nat
    BY <2>1, FS_CardinalityType DEF Keyed
  <2> QED BY <2>2, <2>3
<1> QED BY <1>1, <1>2, InitInv, NextInv, KeysStay, PTL DEF Spec
=============================================================================
