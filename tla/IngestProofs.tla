---------------------------- MODULE IngestProofs ----------------------------
(***************************************************************************)
(* Theorems about TransactionIngest, for any accounts, requests, keys,     *)
(* payloads and bounds.                                                    *)
(***************************************************************************)
EXTENDS TransactionIngest, Sums

(* A request that waits for its key has one.                               *)
Keyed ==
  \A r \in Request : pc[r] \in {"lookup", "clear", "delete"} => key(r) \in Key

TypeInv == TypeOK /\ Keyed

AccountsOK ==
  /\ status \in [Account -> AccountStatuses]
  /\ replica \in [Account -> AccountStatuses]
  /\ frozen_at \subseteq Account
  /\ edd \in [Account -> {"NONE", "PENDING", "RESOLVED"}]
  /\ holder \in [Account -> Request \cup {Nobody}]
  /\ acts \in 0 .. MaxActs

IngestOK ==
  /\ pc \in [Request -> Step]
  /\ call \in [Request -> Call]
  /\ filed \in [Request -> SUBSET {"CTR", "STRUCTURING"}]
  /\ named \in [Request -> Request \cup {Nobody}]
  /\ rows \in Seq(Request)
  /\ buffered \subseteq Request
  /\ idem \in [Key -> {"ABSENT", "IN_FLIGHT", "COMPLETED"}]
  /\ saved \in [Key -> Request \cup {Nobody}]
  /\ lapsed \subseteq Key
  /\ unsettled \subseteq Key
  /\ faults \in 0 .. MaxFaults

LEMMA TypeParts == TypeOK <=> AccountsOK /\ IngestOK
BY DEF TypeOK, AccountsOK, IngestOK

LEMMA Calls == \A c \in Call : /\ c.key \in Key \cup {NoKey}
                               /\ {c.pay.from, c.pay.to} \subseteq Account
                               /\ c.route \in {"sync", "async"}
BY IngestAssumption

LEMMA AccountsStay ==
  ASSUME AccountsOK, UNCHANGED accountVars
  PROVE  AccountsOK'
BY DEF AccountsOK, accountVars

LEMMA AccountStepTyped ==
  ASSUME AccountsOK, NEW a \in Account, AccountStep(a)
  PROVE  AccountsOK'
<1> USE AccountAssumption DEF AccountsOK, AccountStatuses, SetStatus
<1>1. CASE VerifyCip(a)
  BY <1>1 DEF VerifyCip
<1>2. CASE Freeze(a)
  BY <1>2 DEF Freeze
<1>3. CASE Unfreeze(a)
  BY <1>3 DEF Unfreeze
<1>4. CASE RequestEdd(a)
  BY <1>4 DEF RequestEdd
<1>5. ASSUME NEW d \in {"APPROVED", "EXIT_RELATIONSHIP", "RESTRICTED"},
             DecideEdd(a, d)
      PROVE  AccountsOK'
  BY <1>5 DEF DecideEdd
<1>6. CASE Rescreen(a)
  BY <1>6 DEF Rescreen
<1>7. CASE Replicate(a)
  BY <1>7 DEF Replicate
<1> QED BY <1>1, <1>2, <1>3, <1>4, <1>5, <1>6, <1>7 DEF AccountStep

(* Lock and Release leave the table of accounts well typed.                *)
LEMMA LocksTyped ==
  ASSUME AccountsOK, UnchangedAccounts, NEW r \in Request,
         \/ Release(r)
         \/ UNCHANGED holder
         \/ holder' = [a \in Account |-> IF a \in Accounts(r) THEN r
                                         ELSE holder[a]]
  PROVE  AccountsOK'
BY DEF AccountsOK, UnchangedAccounts, Release

LEMMA FaultTyped ==
  ASSUME faults \in 0 .. MaxFaults, Fault \/ UNCHANGED faults
  PROVE  faults' \in 0 .. MaxFaults
BY IngestAssumption DEF Fault

LEMMA RequestStepTyped ==
  ASSUME TypeInv, NEW r \in Request, RequestStep(r)
  PROVE  IngestOK'
<1> USE Calls, IngestAssumption
    DEF Goes, key, Rejected, Lapse, Leave, txVars, keyVars, faultVars
<1>0. IngestOK /\ Keyed
  BY TypeParts DEF TypeInv
<1>a. "check" \in Step /\ "lookup" \in Step /\ "answered" \in Step
  BY DEF Step, Working
<1>b. "save" \in Step /\ "clear" \in Step /\ "rejected" \in Step
  BY DEF Step, Working
<1>1. ASSUME NEW c \in Call, Arrive(r, c)
      PROVE  IngestOK'
  <2>1. c.key \in Key \cup {NoKey}
    OBVIOUS
  <2>2. faults' \in 0 .. MaxFaults
    BY <1>0, <1>1, FaultTyped DEF IngestOK, Arrive
  <2>3. pc' \in [Request -> Step]
    <3>1. \E s \in Step : pc' = [pc EXCEPT ![r] = s]
      BY <1>1, <1>a DEF Arrive
    <3> QED BY <1>0, <3>1 DEF IngestOK
  <2>4. /\ idem' \in [Key -> {"ABSENT", "IN_FLIGHT", "COMPLETED"}]
        /\ lapsed' \subseteq Key
    BY <1>0, <1>1, <2>1 DEF IngestOK, Arrive
  <2> QED BY <1>0, <1>1, <2>2, <2>3, <2>4 DEF IngestOK, Arrive
<1>2. CASE Lookup(r)
  <2>1. key(r) \in Key
    BY <1>0, <1>2 DEF Keyed, Lookup
  <2>2. faults' \in 0 .. MaxFaults
    BY <1>0, <1>2, FaultTyped DEF IngestOK, Lookup
  <2>3. pc' \in [Request -> Step]
    <3>1. "conflict" \in Step /\ "mismatch" \in Step
      BY DEF Step
    <3>2. \E s \in Step : pc' = [pc EXCEPT ![r] = s]
      BY <1>2, <1>a, <3>1 DEF Lookup
    <3> QED BY <1>0, <3>2 DEF IngestOK
  <2>4. named' \in [Request -> Request \cup {Nobody}] /\ lapsed' \subseteq Key
    BY <1>0, <1>2, <2>1 DEF IngestOK, Lookup
  <2> QED BY <1>0, <1>2, <2>2, <2>3, <2>4 DEF IngestOK, Lookup
<1>3. CASE Check(r)
  BY <1>0, <1>3 DEF IngestOK, Step, Working, Check
<1>4. CASE Lock(r)
  BY <1>0, <1>4 DEF IngestOK, Step, Working, Lock
<1>5. CASE Record(r)
  <2>1. Filings(r) \in SUBSET {"CTR", "STRUCTURING"}
    BY DEF Filings
  <2>2. pc' \in [Request -> Step]
    BY <1>0, <1>5 DEF IngestOK, Step, Working, Record
  <2>3. filed' \in [Request -> SUBSET {"CTR", "STRUCTURING"}]
    <3> DEFINE F == Filings(r)
    <3>1. F \in SUBSET {"CTR", "STRUCTURING"}
      BY <2>1
    <3>2. filed' = [filed EXCEPT ![r] = F] \/ filed' = filed
      BY <1>5 DEF Record
    <3> HIDE DEF F
    <3> DEFINE S == SUBSET {"CTR", "STRUCTURING"}
    <3>3. filed \in [Request -> S] /\ F \in S
      BY <1>0, <3>1 DEF IngestOK
    <3> HIDE DEF S
    <3>4. filed' \in [Request -> S]
      BY <3>2, <3>3
    <3> QED BY <3>4 DEF S
  <2> QED BY <1>0, <1>5, <2>2, <2>3 DEF IngestOK, Record
<1>6. CASE Commit(r)
  <2>1. faults' \in 0 .. MaxFaults
    BY <1>0, <1>6, FaultTyped DEF IngestOK, Commit
  <2>2. pc' \in [Request -> Step]
    <3>1. \E s \in Step : pc' = [pc EXCEPT ![r] = s]
      BY <1>6, <1>b DEF Commit
    <3> QED BY <1>0, <3>1 DEF IngestOK
  <2>3. lapsed' \subseteq Key
    BY <1>0, <1>6 DEF IngestOK, Commit
  <2> QED BY <1>0, <1>6, <2>1, <2>2, <2>3 DEF IngestOK, Commit
<1>7. CASE CommitAborted(r)
  BY <1>0, <1>7 DEF IngestOK, Step, Working, CommitAborted
<1>8. CASE Fail(r)
  BY <1>0, <1>8 DEF IngestOK, Step, Working, Fail
<1>9. CASE Buffer(r)
  BY <1>0, <1>9 DEF IngestOK, Step, Working, Buffer
<1>10. CASE Save(r)
  <2>1. faults' \in 0 .. MaxFaults
    BY <1>0, <1>10, FaultTyped DEF IngestOK, Save
  <2>2. pc' \in [Request -> Step]
    BY <1>0, <1>10, <1>a DEF IngestOK, Save
  <2>3. /\ idem' \in [Key -> {"ABSENT", "IN_FLIGHT", "COMPLETED"}]
        /\ saved' \in [Key -> Request \cup {Nobody}]
    <3>1. CASE UNCHANGED <<idem, saved>>
      BY <1>0, <3>1 DEF IngestOK
    <3>2. CASE /\ idem' = [idem EXCEPT ![key(r)] = "COMPLETED"]
               /\ saved' = [saved EXCEPT ![key(r)] = r]
      BY <1>0, <3>2 DEF IngestOK
    <3> QED BY <1>10, <3>1, <3>2 DEF Save
  <2>4. named' \in [Request -> Request \cup {Nobody}]
    BY <1>0, <1>10 DEF IngestOK, Save
  <2>5. unsettled' \subseteq Key
    BY <1>0, <1>10 DEF IngestOK, Save
  <2> QED BY <1>0, <1>10, <2>1, <2>2, <2>3, <2>4, <2>5 DEF IngestOK, Save
<1>11. CASE Clear(r)
  BY <1>0, <1>11 DEF IngestOK, Step, Working, Clear
<1>12. CASE Delete(r)
  BY <1>0, <1>12 DEF IngestOK, Step, Working, Delete
<1>13. CASE NotCleared(r)
  BY <1>0, <1>13, FaultTyped DEF IngestOK, Step, Working, NotCleared
<1>14. CASE Crash(r)
  BY <1>0, <1>14, FaultTyped DEF IngestOK, Step, Working, Crash
<1> QED BY <1>1, <1>2, <1>3, <1>4, <1>5, <1>6, <1>7, <1>8, <1>9, <1>10, <1>11,
           <1>12, <1>13, <1>14 DEF RequestStep

(* A step of r leaves the other requests alone, and r what it was sent.    *)
LEMMA OnlyOwn ==
  ASSUME TypeInv, NEW r \in Request, RequestStep(r)
  PROVE  /\ \A q \in Request : q # r => /\ pc'[q] = pc[q]
                                       /\ call'[q] = call[q]
                                       /\ named'[q] = named[q]
         /\ pc[r] # "new" => call' = call
<1> USE DEF Goes, txVars
<1>0. /\ pc \in [Request -> Step]
      /\ call \in [Request -> Call]
      /\ named \in [Request -> Request \cup {Nobody}]
  BY DEF TypeInv, TypeOK
<1>1. CASE \E c \in Call : Arrive(r, c)
  BY <1>0, <1>1 DEF Arrive
<1>2. CASE Lookup(r)
  BY <1>0, <1>2 DEF Lookup
<1>3. CASE Check(r) \/ Lock(r)
  BY <1>0, <1>3 DEF Check, Lock
<1>4. CASE Record(r) \/ Commit(r) \/ CommitAborted(r)
  BY <1>0, <1>4 DEF Record, Commit, CommitAborted
<1>5. CASE Fail(r) \/ Buffer(r) \/ Crash(r)
  BY <1>0, <1>5 DEF Fail, Buffer, Crash
<1>6. CASE Save(r)
  BY <1>0, <1>6 DEF Save
<1>7. CASE Clear(r) \/ Delete(r) \/ NotCleared(r)
  BY <1>0, <1>7 DEF Clear, Delete, NotCleared
<1> QED BY <1>1, <1>2, <1>3, <1>4, <1>5, <1>6, <1>7 DEF RequestStep

LEMMA KeyedKept ==
  ASSUME TypeInv, NEW r \in Request, RequestStep(r)
  PROVE  Keyed'
<1> USE DEF Goes, Rejected, key
<1>0. /\ pc \in [Request -> Step]
      /\ call \in [Request -> Call]
      /\ Keyed
      /\ call[r].key \in Key \cup {NoKey}
  BY Calls DEF TypeInv, TypeOK
<1>1. \A q \in Request :
        q # r /\ pc'[q] \in {"lookup", "clear", "delete"} => key(q)' \in Key
  BY <1>0, OnlyOwn DEF Keyed
<1>2. ASSUME pc'[r] \in {"lookup", "clear", "delete"}
      PROVE  key(r)' \in Key
  <2>1. ASSUME NEW c \in Call, Arrive(r, c)
        PROVE  key(r)' \in Key
    <3>1. call'[r].key = c.key /\ c.key \in Key \cup {NoKey}
      BY <1>0, <2>1, Calls DEF Arrive
    <3>2. c.key # NoKey
      BY <1>0, <1>2, <2>1 DEF Arrive
    <3> QED BY <3>1, <3>2
  <2>2. CASE Lookup(r)
    BY <1>0, <1>2, <2>2 DEF Lookup, Keyed
  <2>3. CASE Check(r) \/ Lock(r) \/ Record(r)
    BY <1>0, <1>2, <2>3 DEF Check, Lock, Record
  <2>4. CASE Commit(r) \/ CommitAborted(r) \/ Fail(r)
    BY <1>0, <1>2, <2>4 DEF Commit, CommitAborted, Fail
  <2>5. CASE Buffer(r) \/ Save(r) \/ Crash(r)
    BY <1>0, <1>2, <2>5 DEF Buffer, Save, Crash
  <2>6. CASE Clear(r) \/ Delete(r) \/ NotCleared(r)
    BY <1>0, <1>2, <2>6 DEF Clear, Delete, NotCleared, Keyed
  <2> QED BY <2>1, <2>2, <2>3, <2>4, <2>5, <2>6 DEF RequestStep
<1> QED BY <1>1, <1>2 DEF Keyed

LEMMA RequestStepAccounts ==
  ASSUME AccountsOK, NEW r \in Request, RequestStep(r)
  PROVE  AccountsOK'
<1>1. CASE UNCHANGED accountVars
  BY <1>1, AccountsStay
<1>2. CASE Lock(r)
  BY <1>2, LocksTyped DEF Lock
<1>3. CASE Commit(r) \/ CommitAborted(r) \/ Fail(r) \/ Crash(r)
  BY <1>3, LocksTyped DEF Commit, CommitAborted, Fail, Crash
<1> QED BY <1>1, <1>2, <1>3
        DEF RequestStep, Arrive, Lookup, Check, Record, Buffer, Save, Clear,
            Delete, NotCleared

LEMMA ExpireTyped ==
  ASSUME TypeInv, NEW k \in Key, Expire(k)
  PROVE  TypeInv'
<1>1. AccountsOK' /\ IngestOK'
  BY TypeParts, FaultTyped
  DEF TypeInv, Expire, AccountsOK, IngestOK, accountVars, txVars
<1>2. Keyed'
  BY DEF TypeInv, Keyed, Expire, key
<1> QED BY <1>1, <1>2, TypeParts DEF TypeInv, TypeOK, AccountsOK, IngestOK

LEMMA TypeInvariant == Spec => []TypeInv
<1>1. Init => TypeInv
  <2> SUFFICES ASSUME Init PROVE TypeInv
    OBVIOUS
  <2>1. AccountsOK
    BY AccountAssumption, IngestAssumption
    DEF Init, AccountInit, AccountsOK, AccountStatuses
  <2>2. (CHOOSE c \in Call : TRUE) \in Call
    BY IngestAssumption
  <2>3. IngestOK /\ Keyed
    BY <2>2, IngestAssumption
    DEF Init, IngestOK, Keyed, Step, Working
  <2> QED BY <2>1, <2>3, TypeParts DEF TypeInv
<1>2. TypeInv /\ [Next]_vars => TypeInv'
  <2> SUFFICES ASSUME TypeInv, [Next]_vars PROVE TypeInv'
    OBVIOUS
  <2>1. ASSUME NEW r \in Request, RequestStep(r)
        PROVE  TypeInv'
    <3>1. AccountsOK' /\ IngestOK'
      BY <2>1, TypeParts, RequestStepTyped, RequestStepAccounts DEF TypeInv
    <3>2. Keyed'
      BY <2>1, KeyedKept
    <3> QED BY <3>1, <3>2 DEF TypeInv, TypeOK, AccountsOK, IngestOK
  <2>2. ASSUME NEW k \in Key, Expire(k)
        PROVE  TypeInv'
    BY <2>2, ExpireTyped
  <2>3. ASSUME NEW a \in Account, AccountStep(a), UNCHANGED ingestVars
        PROVE  TypeInv'
    <3>1. AccountsOK'
      BY <2>3, TypeParts, AccountStepTyped DEF TypeInv
    <3> QED BY <2>3, <3>1
            DEF TypeInv, TypeOK, AccountsOK, Keyed, key, ingestVars, txVars,
                keyVars, faultVars
  <2>4. CASE UNCHANGED vars
    BY <2>4 DEF TypeInv, TypeOK, Keyed, key, vars, accountVars, ingestVars,
                txVars, keyVars, faultVars
  <2> QED BY <2>1, <2>2, <2>3, <2>4 DEF Next
<1> QED BY <1>1, <1>2, PTL DEF Spec

(* Accounts, keys, tables and requests keep their types.                   *)
THEOREM IngestTypeOK == Spec => []TypeOK
<1>1. TypeInv => TypeOK
  BY DEF TypeInv
<1> QED BY <1>1, TypeInvariant, PTL
-----------------------------------------------------------------------------
(* The row locks.  The replica is behind the primary, and no account goes  *)
(* back to CIP_PENDING: what passed the check on the replica is identified *)
(* on the primary.  What was open when it was locked stays so until the    *)
(* lock is released.                                                       *)
Behind ==
  \A a \in Account : replica[a] # "CIP_PENDING" => status[a] # "CIP_PENDING"

Secured(r) ==
  /\ pc[r] = "lock" => \A a \in Accounts(r) : status[a] # "CIP_PENDING"
  /\ pc[r] \in {"record", "commit"} =>
       \A a \in Accounts(r) :
         holder[a] = r /\ status[a] \notin {"FROZEN", "CIP_PENDING"}

LockInv == Behind /\ \A r \in Request : Secured(r)

LEMMA AccountsOfCalls ==
  ASSUME TypeInv, NEW r \in Request
  PROVE  Accounts(r) \subseteq Account
BY Calls DEF TypeInv, TypeOK, Accounts, pay

(* A status is written under a free lock and never to CIP_PENDING.         *)
LEMMA StatusWrites ==
  ASSUME AccountsOK, NEW a \in Account, AccountStep(a)
  PROVE  /\ holder' = holder
         /\ \A b \in Account : status'[b] # status[b] =>
              holder[b] = Nobody /\ status'[b] # "CIP_PENDING"
         /\ \A b \in Account : replica'[b] # replica[b] => replica'[b] = status[b]
<1> USE DEF AccountsOK, SetStatus
<1>1. CASE VerifyCip(a)
  BY <1>1 DEF VerifyCip
<1>2. CASE Freeze(a)
  BY <1>2 DEF Freeze
<1>3. CASE Unfreeze(a)
  BY <1>3 DEF Unfreeze
<1>4. CASE RequestEdd(a)
  BY <1>4 DEF RequestEdd
<1>5. ASSUME NEW d \in {"APPROVED", "EXIT_RELATIONSHIP", "RESTRICTED"},
             DecideEdd(a, d)
      PROVE  /\ holder' = holder
             /\ \A b \in Account : status'[b] # status[b] =>
                  holder[b] = Nobody /\ status'[b] # "CIP_PENDING"
             /\ \A b \in Account :
                  replica'[b] # replica[b] => replica'[b] = status[b]
  BY <1>5 DEF DecideEdd
<1>6. CASE Rescreen(a)
  BY <1>6 DEF Rescreen
<1>7. CASE Replicate(a)
  BY <1>7 DEF Replicate
<1> QED BY <1>1, <1>2, <1>3, <1>4, <1>5, <1>6, <1>7 DEF AccountStep

LEMMA LockInvAccounts ==
  ASSUME TypeInv, LockInv, NEW a \in Account, AccountStep(a),
         UNCHANGED ingestVars
  PROVE  LockInv'
<1>0. AccountsOK
  BY TypeParts DEF TypeInv
<1>1. /\ holder' = holder
      /\ \A b \in Account : status'[b] # status[b] =>
           holder[b] = Nobody /\ status'[b] # "CIP_PENDING"
      /\ \A b \in Account : replica'[b] # replica[b] => replica'[b] = status[b]
  BY <1>0, StatusWrites
<1>2. Behind'
  BY <1>1 DEF LockInv, Behind
<1>3. ASSUME NEW r \in Request
      PROVE  Secured(r)'
  <2>1. Accounts(r)' = Accounts(r) /\ pc' = pc
    BY DEF ingestVars, Accounts, pay
  <2>2. Accounts(r) \subseteq Account /\ r # Nobody
    BY AccountsOfCalls, IngestAssumption
  <2> QED BY <1>1, <2>1, <2>2 DEF LockInv, Secured
<1> QED BY <1>2, <1>3 DEF LockInv

LEMMA LockInvRequest ==
  ASSUME TypeInv, LockInv, NEW r \in Request, RequestStep(r)
  PROVE  LockInv'
<1>0. /\ pc \in [Request -> Step]
      /\ call \in [Request -> Call]
      /\ holder \in [Account -> Request \cup {Nobody}]
      /\ r # Nobody
  BY IngestAssumption DEF TypeInv, TypeOK
<1>1. status' = status /\ replica' = replica
  BY DEF RequestStep, Arrive, Lookup, Check, Lock, Record, Commit,
         CommitAborted, Fail, Buffer, Save, Clear, Delete, NotCleared, Crash,
         accountVars, UnchangedAccounts
<1>2. Behind'
  BY <1>1 DEF LockInv, Behind
<1>3. \A a \in Account : holder[a] \notin {r, Nobody} => holder'[a] = holder[a]
  <2>1. CASE UNCHANGED accountVars
    BY <2>1 DEF accountVars
  <2>2. CASE Lock(r)
    BY <1>0, <2>2 DEF Lock
  <2>3. CASE Commit(r) \/ CommitAborted(r) \/ Fail(r) \/ Crash(r)
    BY <2>3 DEF Commit, CommitAborted, Fail, Crash, Release
  <2> QED BY <2>1, <2>2, <2>3
          DEF RequestStep, Arrive, Lookup, Check, Record, Buffer, Save, Clear,
              Delete, NotCleared
<1>4. ASSUME NEW q \in Request, q # r
      PROVE  Secured(q)'
  <2>1. pc'[q] = pc[q] /\ Accounts(q)' = Accounts(q)
    BY <1>4, OnlyOwn DEF Accounts, pay
  <2>2. Accounts(q) \subseteq Account /\ q # Nobody
    BY AccountsOfCalls, IngestAssumption
  <2> QED BY <1>1, <1>3, <1>4, <2>1, <2>2 DEF LockInv, Secured
<1>5. Secured(r)'
  <2>1. CASE Check(r)
    <3>1. Accounts(r)' = Accounts(r) /\ Accounts(r) \subseteq Account
      BY <2>1, AccountsOfCalls DEF Check, Accounts, pay
    <3>2. pc'[r] = "lock" =>
            \A a \in Accounts(r) : replica[a] # "CIP_PENDING"
      BY <1>0, <2>1 DEF Check, Goes, Rejected
    <3>3. pc'[r] \notin {"record", "commit"}
      BY <1>0, <2>1 DEF Check, Goes, Rejected
    <3> QED BY <1>1, <3>1, <3>2, <3>3 DEF LockInv, Behind, Secured
  <2>2. CASE Lock(r)
    <3>1. Accounts(r)' = Accounts(r) /\ Accounts(r) \subseteq Account
      BY <2>2, AccountsOfCalls DEF Lock, Accounts, pay
    <3>2. pc'[r] # "lock" /\ pc'[r] # "commit"
      BY <1>0, <2>2 DEF Lock, Goes, Rejected
    <3>3. pc'[r] = "record" =>
            \A a \in Accounts(r) : holder'[a] = r /\ status[a] # "FROZEN"
      BY <1>0, <2>2, <3>1 DEF Lock, Goes, Rejected
    <3>4. \A a \in Accounts(r) : status[a] # "CIP_PENDING"
      BY <2>2 DEF Lock, LockInv, Secured
    <3> QED BY <1>1, <3>1, <3>2, <3>3, <3>4 DEF Secured
  <2>3. CASE Record(r)
    <3>1. /\ Accounts(r)' = Accounts(r)
          /\ holder' = holder
          /\ pc[r] = "record"
          /\ pc'[r] \in {"commit", "aborted"}
      BY <1>0, <2>3 DEF Record, Goes, accountVars, Accounts, pay
    <3> QED BY <1>1, <3>1 DEF LockInv, Secured
  <2>4. CASE ~(Check(r) \/ Lock(r) \/ Record(r))
    <3>1. CASE \E c \in Call : Arrive(r, c)
      BY <1>0, <3>1 DEF Arrive, Goes, Secured
    <3>2. CASE Lookup(r)
      BY <1>0, <3>2 DEF Lookup, Goes, Secured
    <3>3. CASE Commit(r) \/ CommitAborted(r)
      BY <1>0, <3>3 DEF Commit, CommitAborted, Goes, Rejected, Secured
    <3>4. CASE Fail(r) \/ Crash(r)
      BY <1>0, <3>4 DEF Fail, Crash, Goes, Rejected, Secured
    <3>5. CASE Buffer(r) \/ Save(r)
      BY <1>0, <3>5 DEF Buffer, Save, Goes, Secured
    <3>6. CASE Clear(r) \/ Delete(r) \/ NotCleared(r)
      BY <1>0, <3>6 DEF Clear, Delete, NotCleared, Goes, Secured
    <3> QED BY <2>4, <3>1, <3>2, <3>3, <3>4, <3>5, <3>6 DEF RequestStep
  <2> QED BY <2>1, <2>2, <2>3, <2>4
<1> QED BY <1>2, <1>4, <1>5 DEF LockInv

LEMMA LockInvariant == Spec => []LockInv
<1>1. Init => LockInv
  BY DEF Init, AccountInit, LockInv, Behind, Secured
<1>2. TypeInv /\ LockInv /\ [Next]_vars => LockInv'
  <2> SUFFICES ASSUME TypeInv, LockInv, [Next]_vars PROVE LockInv'
    OBVIOUS
  <2>1. CASE \E r \in Request : RequestStep(r)
    BY <2>1, LockInvRequest
  <2>2. CASE \E a \in Account : AccountStep(a) /\ UNCHANGED ingestVars
    BY <2>2, LockInvAccounts
  <2>3. CASE UNCHANGED vars \/ \E k \in Key : Expire(k)
    BY <2>3 DEF LockInv, Behind, Secured, Accounts, pay, Expire, vars,
                accountVars, ingestVars
  <2> QED BY <2>1, <2>2, <2>3 DEF Next
<1> QED BY <1>1, <1>2, TypeInvariant, PTL DEF Spec

(* Only a commit adds to the table, and only its own transaction.          *)
LEMMA RowsChange ==
  ASSUME NEW r \in Request, RequestStep(r)
  PROVE  rows' = rows \/ Commit(r)
BY DEF RequestStep, Arrive, Lookup, Check, Lock, Record, CommitAborted, Fail,
       Buffer, Save, Clear, Delete, NotCleared, Crash, txVars

LEMMA RangeAppend ==
  ASSUME NEW s \in Seq(Request), NEW r \in Request
  PROVE  Range(Append(s, r)) = Range(s) \cup {r}
<1>1. /\ DOMAIN Append(s, r) = 1 .. Len(s) + 1
      /\ \A i \in 1 .. Len(s) : Append(s, r)[i] = s[i]
      /\ Append(s, r)[Len(s) + 1] = r
      /\ DOMAIN s = 1 .. Len(s)
      /\ Len(s) \in Nat
  OBVIOUS
<1> QED BY <1>1 DEF Range

(* No transaction commits on an account that is frozen or unidentified.    *)
THEOREM IngestOpenAccounts == Spec => OpenAccounts
<1> DEFINE Opened == \A r \in Request : r \in Range(rows') \ Range(rows) =>
                       \A a \in Accounts(r) :
                         status[a] \notin {"FROZEN", "CIP_PENDING"}
<1>1. TypeInv /\ LockInv /\ [Next]_vars => [Opened]_vars
  <2> SUFFICES ASSUME TypeInv, LockInv, [Next]_vars, NEW q \in Request,
                      q \in Range(rows') \ Range(rows)
               PROVE  \A a \in Accounts(q) :
                        status[a] \notin {"FROZEN", "CIP_PENDING"}
    OBVIOUS
  <2>1. rows' # rows
    OBVIOUS
  <2>2. PICK r \in Request : RequestStep(r)
    BY <2>1 DEF Next, Expire, txVars, ingestVars, vars
  <2>3. Commit(r)
    BY <2>1, <2>2, RowsChange
  <2>4. q = r
    BY <2>3, RangeAppend DEF Commit, TypeInv, TypeOK
  <2> QED BY <2>3, <2>4 DEF Commit, LockInv, Secured
<1> QED BY <1>1, TypeInvariant, LockInvariant, PTL DEF Spec, OpenAccounts
-----------------------------------------------------------------------------
(* The keys.  A request is engaged while it works or once its transaction  *)
(* is recorded.  A key that has not lapsed engages one request, exists     *)
(* while it does, and is cleared only by a request that recorded nothing.  *)
Engaged(r) == pc[r] \in Working \/ r \in Recorded

Past == {"save", "answered", "gone", "clear", "delete", "rejected"}

Reserved(k) ==
  /\ \A q, r \in Request :
       Engaged(q) /\ Engaged(r) /\ key(q) = k /\ key(r) = k => q = r
  /\ \A r \in Request : Engaged(r) /\ key(r) = k =>
       /\ idem[k] # "ABSENT"
       /\ pc[r] \in {"clear", "delete"} => r \notin Recorded

KeyInv ==
  /\ \A r \in Recorded : pc[r] \in Past
  /\ \A k \in Key : k \in lapsed \/ Reserved(k)

LEMMA RecordedChange ==
  ASSUME TypeInv, NEW r \in Request, RequestStep(r)
  PROVE  \/ Recorded' = Recorded
         \/ /\ Recorded' = Recorded \cup {r}
            /\ pc[r] \in {"commit", "check"}
            /\ pc'[r] = "save" \/ key(r) \in lapsed' \cup {NoKey}
            /\ pc'[r] \in Past
<1>1. CASE Commit(r)
  <2>1. Recorded' = Recorded \cup {r}
    BY <1>1, RangeAppend DEF Commit, Recorded, TypeInv, TypeOK
  <2> QED BY <1>1, <2>1
          DEF Commit, Goes, Lapse, Rejected, Past, TypeInv, TypeOK
<1>2. CASE Buffer(r)
  BY <1>2 DEF Buffer, Recorded, Goes, Past, TypeInv, TypeOK
<1> QED BY <1>1, <1>2
        DEF RequestStep, Arrive, Lookup, Check, Lock, Record, CommitAborted,
            Fail, Save, Clear, Delete, NotCleared, Crash, Recorded, txVars

LEMMA PastKept ==
  ASSUME TypeInv, KeyInv, NEW r \in Request, RequestStep(r)
  PROVE  \A q \in Recorded' : pc'[q] \in Past
<1>0. pc \in [Request -> Step] /\ Recorded \subseteq Request
  BY DEF TypeInv, TypeOK, Recorded, Range
<1>1. pc[r] \in Past => pc'[r] \in Past
  BY <1>0 DEF Past, RequestStep, Arrive, Lookup, Check, Lock, Record, Commit,
     CommitAborted, Fail, Buffer, Save, Clear, Delete, NotCleared, Crash, Goes
<1> QED BY <1>0, <1>1, OnlyOwn, RecordedChange DEF KeyInv

(* What a step of r does to its own engagement and to the key it carries.  *)
Leaves(r, k) ==
  /\ ~Engaged(r)'
  /\ idem'[k] = idem[k] \/ (Engaged(r) /\ key(r) = k)
Stays(r, k) ==
  /\ Engaged(r)
  /\ Engaged(r)'
  /\ key(r)' = key(r)
  /\ idem'[k] = idem[k] \/ (key(r) = k /\ idem'[k] = "COMPLETED")
  /\ key(r) = k /\ pc'[r] \in {"clear", "delete"} => r \notin Recorded'
Joins(r, k) ==
  /\ ~Engaged(r)
  /\ Engaged(r)'
  /\ idem'[k] = idem[k] \/ key(r)' = k
  /\ key(r)' = k => /\ idem[k] = "ABSENT"
                    /\ idem'[k] # "ABSENT"
                    /\ pc'[r] = "check"

LEMMA Engagement ==
  ASSUME TypeInv, KeyInv, NEW r \in Request, RequestStep(r), NEW k \in Key,
         k \notin lapsed'
  PROVE  Leaves(r, k) \/ Stays(r, k) \/ Joins(r, k)
<1>0. /\ pc \in [Request -> Step]
      /\ call \in [Request -> Call]
      /\ idem \in [Key -> {"ABSENT", "IN_FLIGHT", "COMPLETED"}]
      /\ key(r) \in Key \cup {NoKey}
      /\ Keyed
      /\ r \in Recorded => pc[r] \in Past
      /\ k # NoKey
  BY Calls, IngestAssumption DEF TypeInv, TypeOK, KeyInv, key
<1>1. ASSUME NEW c \in Call, Arrive(r, c)
      PROVE  Leaves(r, k) \/ Joins(r, k)
  <2>1. c.key \in Key \cup {NoKey} /\ key(r)' = c.key
    BY <1>0, <1>1, Calls DEF Arrive, key
  <2>2. r \notin Recorded /\ Recorded' = Recorded /\ ~Engaged(r)
    BY <1>0, <1>1 DEF Arrive, Past, Recorded, txVars, Engaged, Working
  <2>3. CASE pc'[r] = "lookup"
    <3>1. ~Engaged(r)'
      BY <2>2, <2>3 DEF Engaged, Working
    <3>2. idem' = idem
      BY <1>0, <1>1, <2>3 DEF Arrive, Goes
    <3> QED BY <3>1, <3>2 DEF Leaves
  <2>4. CASE pc'[r] = "check"
    <3>1. Engaged(r)'
      BY <2>4 DEF Engaged, Working
    <3>2. CASE c.key = k
      <4>1. idem[k] = "ABSENT" /\ idem' = [idem EXCEPT ![k] = "IN_FLIGHT"]
        BY <1>0, <1>1, <2>4, <3>2 DEF Arrive, Goes
      <4> QED BY <1>0, <2>1, <2>2, <2>4, <3>1, <3>2, <4>1 DEF Joins
    <3>3. CASE c.key # k
      <4>1. idem'[k] = idem[k]
        BY <1>0, <1>1, <2>1, <3>3 DEF Arrive
      <4> QED BY <2>1, <2>2, <3>1, <3>3, <4>1 DEF Joins
    <3> QED BY <3>2, <3>3
  <2> QED BY <1>0, <1>1, <2>3, <2>4 DEF Arrive, Goes
<1>2. CASE Lookup(r)
  <2>1. /\ r \notin Recorded
        /\ Recorded' = Recorded
        /\ key(r)' = key(r)
        /\ idem' = idem
        /\ key(r) \in Key
        /\ ~Engaged(r)
    BY <1>0, <1>2
    DEF Lookup, Past, Recorded, txVars, keyVars, key, Keyed, Engaged, Working
  <2>2. CASE pc'[r] = "check"
    <3>1. key(r) # k
      BY <1>0, <1>2, <2>1, <2>2 DEF Lookup, Goes, Lapse
    <3> QED BY <2>1, <2>2, <3>1 DEF Joins, Engaged, Working
  <2>3. CASE pc'[r] # "check"
    <3>1. pc'[r] \in {"conflict", "mismatch", "answered"}
      BY <1>0, <1>2, <2>3 DEF Lookup, Goes
    <3> QED BY <2>1, <3>1 DEF Leaves, Engaged, Working
  <2> QED BY <2>2, <2>3
<1>3. ASSUME Check(r) \/ Lock(r) \/ Record(r) \/ CommitAborted(r) \/ Fail(r)
      PROVE  Leaves(r, k) \/ Stays(r, k)
  <2>1. /\ Recorded' = Recorded
        /\ key(r)' = key(r)
        /\ idem' = idem
        /\ pc[r] \in {"check", "lock", "record", "commit", "aborted"}
        /\ pc'[r] \in Working \cup {"rejected"}
    BY <1>0, <1>3
    DEF Check, Lock, Record, CommitAborted, Fail, Recorded, txVars, keyVars,
        key, Goes, Rejected, Working
  <2>2. r \notin Recorded /\ Engaged(r)
    BY <1>0, <2>1 DEF Past, Engaged, Working
  <2>3. CASE pc'[r] \in Working
    BY <2>1, <2>2, <2>3 DEF Stays, Engaged
  <2>4. CASE pc'[r] = "rejected"
    BY <2>1, <2>2, <2>4 DEF Leaves, Engaged, Working
  <2> QED BY <2>1, <2>3, <2>4
<1>4. CASE Commit(r)
  <2>1. /\ key(r)' = key(r)
        /\ idem' = idem
        /\ Engaged(r)
        /\ pc'[r] \in {"clear", "delete"} => key(r) # k
    BY <1>0, <1>4
    DEF Commit, keyVars, key, Engaged, Working, Goes, Rejected, Lapse
  <2>2. Engaged(r)'
    <3>1. rows \in Seq(Request)
      BY DEF TypeInv, TypeOK
    <3>2. r \in Recorded'
      BY <1>4, <3>1, RangeAppend DEF Commit, Recorded
    <3> QED BY <3>2 DEF Engaged
  <2> QED BY <2>1, <2>2 DEF Stays
<1>5. CASE Buffer(r)
  <2>1. /\ key(r)' = key(r)
        /\ idem' = idem
        /\ Engaged(r)
        /\ pc'[r] = "save"
    BY <1>0, <1>5 DEF Buffer, keyVars, key, Engaged, Working, Goes
  <2> QED BY <2>1 DEF Stays, Engaged, Working
<1>6. CASE Save(r)
  <2>1. /\ key(r)' = key(r)
        /\ Engaged(r)
        /\ pc'[r] = "answered"
        /\ idem'[k] = idem[k] \/ (key(r) = k /\ idem'[k] = "COMPLETED")
    BY <1>0, <1>6 DEF Save, keyVars, key, Engaged, Working, Goes
  <2> QED BY <2>1 DEF Stays, Leaves
<1>7. CASE Clear(r) \/ NotCleared(r) \/ Crash(r)
  <2>1. /\ Recorded' = Recorded
        /\ key(r)' = key(r)
        /\ idem' = idem
        /\ pc'[r] \in {"delete", "rejected", "gone"}
        /\ pc'[r] = "delete" => pc[r] = "clear"
        /\ lapsed' = lapsed
    BY <1>0, <1>7
    DEF Clear, NotCleared, Crash, Recorded, txVars, keyVars, faultVars, key, Goes
  <2>2. CASE pc'[r] = "delete"
    <3>1. Engaged(r) /\ Engaged(r)'
      BY <2>1, <2>2 DEF Engaged, Working
    <3>2. key(r) = k => r \notin Recorded
      BY <2>1, <2>2, <3>1 DEF KeyInv, Reserved
    <3> QED BY <2>1, <3>1, <3>2 DEF Stays
  <2>3. CASE pc'[r] # "delete"
    <3>1. Engaged(r)' <=> r \in Recorded
      BY <2>1, <2>3 DEF Engaged, Working
    <3> QED BY <2>1, <2>3, <3>1 DEF Stays, Leaves, Engaged
  <2> QED BY <2>2, <2>3
<1>8. CASE Delete(r)
  <2>1. /\ Recorded' = Recorded
        /\ key(r)' = key(r)
        /\ idem' = [idem EXCEPT ![key(r)] = "ABSENT"]
        /\ pc[r] = "delete"
        /\ pc'[r] = "rejected"
        /\ lapsed' = lapsed
        /\ Engaged(r)
    BY <1>0, <1>8
    DEF Delete, Recorded, txVars, faultVars, key, Goes, Engaged, Working
  <2>2. CASE key(r) = k
    <3>1. r \notin Recorded
      BY <2>1, <2>2 DEF KeyInv, Reserved
    <3> QED BY <2>1, <2>2, <3>1 DEF Leaves, Engaged, Working
  <2>3. CASE key(r) # k
    <3>1. idem'[k] = idem[k]
      BY <1>0, <2>1, <2>3
    <3> QED BY <2>1, <2>3, <3>1 DEF Stays, Leaves, Engaged, Working
  <2> QED BY <2>2, <2>3
<1> QED BY <1>1, <1>2, <1>3, <1>4, <1>5, <1>6, <1>7, <1>8 DEF RequestStep

LEMMA LapsedGrows ==
  ASSUME NEW r \in Request, RequestStep(r)
  PROVE  lapsed \subseteq lapsed'
BY DEF RequestStep, Arrive, Lookup, Check, Lock, Record, Commit, CommitAborted,
       Fail, Buffer, Save, Clear, Delete, NotCleared, Crash, faultVars, Lapse

LEMMA KeyInvRequest ==
  ASSUME TypeInv, KeyInv, NEW r \in Request, RequestStep(r)
  PROVE  KeyInv'
<1> SUFFICES ASSUME NEW k \in Key, k \notin lapsed'
             PROVE  Reserved(k)'
  BY PastKept DEF KeyInv
<1>0. Reserved(k)
  BY LapsedGrows DEF KeyInv
<1>1. \A q \in Request : q # r => /\ pc'[q] = pc[q]
                               /\ call'[q] = call[q]
                               /\ (q \in Recorded') = (q \in Recorded)
  BY OnlyOwn, RecordedChange
<1>2. CASE Leaves(r, k)
  <2>1. ASSUME NEW q \in Request, Engaged(q)', key(q)' = k
        PROVE  q # r /\ Engaged(q) /\ key(q) = k
    BY <1>1, <1>2, <2>1 DEF Leaves, Engaged, key
  <2>2. ASSUME NEW q \in Request, Engaged(q)', key(q)' = k
        PROVE  idem'[k] = idem[k]
    BY <1>0, <1>2, <2>1, <2>2 DEF Leaves, Reserved
  <2> QED BY <1>0, <1>1, <2>1, <2>2 DEF Reserved, Engaged, key
<1>3. CASE Stays(r, k)
  <2>1. ASSUME NEW q \in Request, Engaged(q)', key(q)' = k
        PROVE  Engaged(q) /\ key(q) = k
    BY <1>1, <1>3, <2>1 DEF Stays, Engaged, key
  <2>2. ASSUME NEW q \in Request, Engaged(q)', key(q)' = k
        PROVE  idem'[k] # "ABSENT"
    BY <1>0, <1>3, <2>1, <2>2 DEF Stays, Reserved
  <2>3. ASSUME NEW q \in Request, Engaged(q)', key(q)' = k,
               pc'[q] \in {"clear", "delete"}
        PROVE  q \notin Recorded'
    <3>1. CASE q = r
      BY <1>3, <2>1, <2>3, <3>1 DEF Stays
    <3>2. CASE q # r
      BY <1>0, <1>1, <2>1, <2>3, <3>2 DEF Reserved
    <3> QED BY <3>1, <3>2
  <2> QED BY <1>0, <2>1, <2>2, <2>3 DEF Reserved, Engaged, key
<1>4. CASE Joins(r, k)
  <2>1. CASE key(r)' = k
    <3>1. \A q \in Request : Engaged(q) => key(q) # k
      BY <1>0, <1>4, <2>1 DEF Joins, Reserved
    <3>2. ASSUME NEW q \in Request, Engaged(q)', key(q)' = k
          PROVE  q = r
      BY <1>1, <3>1, <3>2 DEF Engaged, key
    <3> QED BY <1>4, <2>1, <3>2 DEF Joins, Reserved, Engaged, key
  <2>2. CASE key(r)' # k
    <3>1. ASSUME NEW q \in Request, Engaged(q)', key(q)' = k
          PROVE  q # r /\ Engaged(q) /\ key(q) = k
      BY <1>1, <2>2, <3>1 DEF Engaged, key
    <3>2. idem'[k] = idem[k]
      BY <1>4, <2>2 DEF Joins
    <3> QED BY <1>0, <1>1, <3>1, <3>2 DEF Reserved, Engaged, key
  <2> QED BY <2>1, <2>2
<1> QED BY <1>2, <1>3, <1>4, Engagement

LEMMA KeyInvariant == Spec => []KeyInv
<1>1. Init => KeyInv
  <2> SUFFICES ASSUME Init PROVE KeyInv
    OBVIOUS
  <2>1. Recorded = {}
    BY DEF Init, Recorded, Range
  <2> QED BY <2>1 DEF Init, KeyInv, Reserved, Engaged, Working
<1>2. TypeInv /\ KeyInv /\ [Next]_vars => KeyInv'
  <2> SUFFICES ASSUME TypeInv, KeyInv, [Next]_vars PROVE KeyInv'
    OBVIOUS
  <2>1. CASE \E r \in Request : RequestStep(r)
    BY <2>1, KeyInvRequest
  <2>2. ASSUME NEW k \in Key, Expire(k)
        PROVE  KeyInv'
    <3>1. \A j \in Key : j \notin lapsed' => idem'[j] = idem[j] /\ j \notin lapsed
      BY <2>2 DEF Expire, TypeInv, TypeOK
    <3>2. Recorded' = Recorded /\ pc' = pc /\ call' = call
      BY <2>2 DEF Expire, Recorded, txVars
    <3> QED BY <3>1, <3>2 DEF KeyInv, Reserved, Engaged, key
  <2>3. CASE UNCHANGED ingestVars
    BY <2>3 DEF KeyInv, Reserved, Engaged, Recorded, key, ingestVars, txVars,
                keyVars, faultVars
  <2> QED BY <2>1, <2>2, <2>3 DEF Next, vars
<1> QED BY <1>1, <1>2, TypeInvariant, PTL DEF Spec

(* Unless a key lapsed, it made at most one transaction.                   *)
THEOREM IngestOncePerKey == Spec => []OncePerKey
<1>1. TypeInv /\ KeyInv => OncePerKey
  <2> SUFFICES ASSUME TypeInv, KeyInv, NEW q \in Recorded, NEW r \in Recorded,
                      q # r, key(q) = key(r)
               PROVE  key(q) \in lapsed \cup {NoKey}
    BY DEF OncePerKey
  <2>1. q \in Request /\ r \in Request
    BY DEF TypeInv, TypeOK, Recorded, Range
  <2>2. key(q) \in Key \cup {NoKey}
    BY <2>1, Calls DEF TypeInv, TypeOK, key
  <2> QED BY <2>1, <2>2 DEF KeyInv, Reserved, Engaged
<1> QED BY <1>1, TypeInvariant, KeyInvariant, PTL
-----------------------------------------------------------------------------
(* The answers.  A stored answer is that of a request which carried the    *)
(* key; requests do not change what they carry.                            *)
AnswerInv ==
  /\ AnswersMatch
  /\ \A r \in Request : named[r] # Nobody => pc[r] # "new" /\ pc[named[r]] # "new"
  /\ \A k \in Key : saved[k] # Nobody => /\ key(saved[k]) = k
                                        /\ pc[saved[k]] # "new"

LEMMA NamedAndSaved ==
  ASSUME TypeInv, NEW r \in Request, RequestStep(r)
  PROVE  /\ pc'[r] # "new"
         /\ saved' = saved \/ (pc[r] = "save" /\ saved' = [saved EXCEPT ![key(r)] = r])
         /\ \/ named' = named
            \/ pc[r] = "save" /\ named' = [named EXCEPT ![r] = r]
            \/ /\ pc[r] = "lookup"
               /\ ~Mismatch(r)
               /\ named' = [named EXCEPT ![r] = saved[key(r)]]
<1>0. pc \in [Request -> Step]
  BY DEF TypeInv, TypeOK
<1> QED BY <1>0 DEF RequestStep, Arrive, Lookup, Check, Lock, Record, Commit,
     CommitAborted, Fail, Buffer, Save, Clear, Delete, NotCleared, Crash, Goes,
     Rejected, keyVars

LEMMA AnswerInvRequest ==
  ASSUME TypeInv, AnswerInv, NEW r \in Request, RequestStep(r)
  PROVE  AnswerInv'
<1>0. /\ named \in [Request -> Request \cup {Nobody}]
      /\ saved \in [Key -> Request \cup {Nobody}]
      /\ Keyed
      /\ Nobody \notin Request
  BY IngestAssumption DEF TypeInv, TypeOK
<1>1. \A q \in Request : pc[q] # "new" => pc'[q] # "new" /\ call'[q] = call[q]
  BY OnlyOwn, NamedAndSaved
<1>2. \A q \in Request : named'[q] # Nobody =>
        \/ named'[q] = named[q]
        \/ q = r /\ pc[r] = "save" /\ named'[r] = r
        \/ /\ q = r
           /\ pc[r] = "lookup"
           /\ ~Mismatch(r)
           /\ named'[r] = saved[key(r)]
  BY <1>0, NamedAndSaved
<1>3. ASSUME NEW q \in Request, named'[q] # Nobody
      PROVE  /\ named'[q] \in Request
             /\ pc[q] # "new"
             /\ pc[named'[q]] # "new"
             /\ key(named'[q]) = key(q)
             /\ call[named'[q]].route = "sync" /\ call[q].route = "sync"
                  => pay(named'[q]) = pay(q)
  <2>1. CASE named'[q] = named[q]
    BY <1>0, <1>3, <2>1 DEF AnswerInv, AnswersMatch
  <2>2. CASE q = r /\ pc[r] = "save" /\ named'[r] = r
    BY <2>2
  <2>3. CASE /\ q = r
             /\ pc[r] = "lookup"
             /\ ~Mismatch(r)
             /\ named'[r] = saved[key(r)]
    <3>1. key(r) \in Key
      BY <1>0, <2>3 DEF Keyed
    <3> QED BY <1>0, <1>3, <2>3, <3>1 DEF AnswerInv, Mismatch
  <2> QED BY <1>2, <1>3, <2>1, <2>2, <2>3
<1>4. AnswersMatch'
  BY <1>1, <1>3 DEF AnswersMatch, key, pay
<1>5. \A q \in Request :
        named'[q] # Nobody => pc'[q] # "new" /\ pc'[named'[q]] # "new"
  BY <1>1, <1>3
<1>6. ASSUME NEW k \in Key, saved'[k] # Nobody
      PROVE  key(saved[k])' = k /\ pc'[saved'[k]] # "new"
  BY <1>0, <1>1, <1>6, NamedAndSaved DEF AnswerInv, key
<1> QED BY <1>4, <1>5, <1>6 DEF AnswerInv, key

LEMMA AnswerInvariant == Spec => []AnswerInv
<1>1. Init => AnswerInv
  BY DEF Init, AnswerInv, AnswersMatch
<1>2. TypeInv /\ AnswerInv /\ [Next]_vars => AnswerInv'
  <2> SUFFICES ASSUME TypeInv, AnswerInv, [Next]_vars PROVE AnswerInv'
    OBVIOUS
  <2>1. CASE \E r \in Request : RequestStep(r)
    BY <2>1, AnswerInvRequest
  <2>2. CASE UNCHANGED <<pc, call, named, saved>>
    BY <2>2 DEF AnswerInv, AnswersMatch, key, pay
  <2> QED BY <2>1, <2>2 DEF Next, Expire, vars, ingestVars, keyVars
<1> QED BY <1>1, <1>2, TypeInvariant, PTL DEF Spec

(* Whoever is answered gets the answer to the key and the payload sent.    *)
THEOREM IngestAnswersMatch == Spec => []AnswersMatch
<1>1. AnswerInv => AnswersMatch
  BY DEF AnswerInv
<1> QED BY <1>1, AnswerInvariant, PTL
-----------------------------------------------------------------------------
(* Keys left IN_FLIGHT.  A request that stops working on its key settles   *)
(* it, or leaves it unsettled.                                             *)
LEMMA KeySettled ==
  ASSUME TypeInv, NEW r \in Request, RequestStep(r), pc[r] \in Working,
         NEW k \in Key, key(r) = k
  PROVE  \/ pc'[r] \in Working /\ call'[r] = call[r]
         \/ idem'[k] # "IN_FLIGHT"
         \/ k \in unsettled'
<1>0. /\ pc \in [Request -> Step]
      /\ idem \in [Key -> {"ABSENT", "IN_FLIGHT", "COMPLETED"}]
      /\ k # NoKey
  BY IngestAssumption DEF TypeInv, TypeOK
<1>1. CASE Save(r)
  BY <1>0, <1>1 DEF Save, Goes, Leave
<1>2. CASE Clear(r)
  BY <1>0, <1>2 DEF Clear, Goes, Working, keyVars
<1>3. CASE Delete(r)
  BY <1>0, <1>3 DEF Delete, Goes
<1>4. CASE NotCleared(r) \/ Crash(r)
  BY <1>0, <1>4 DEF NotCleared, Crash, Goes, Leave
<1>5. CASE \/ Check(r) \/ Lock(r) \/ Record(r) \/ Commit(r)
           \/ CommitAborted(r) \/ Fail(r) \/ Buffer(r)
  BY <1>0, <1>5 DEF Check, Lock, Record, Commit, CommitAborted, Fail, Buffer,
     Goes, Rejected, Working
<1> QED BY <1>1, <1>2, <1>3, <1>4, <1>5
        DEF RequestStep, Arrive, Lookup, Working

LEMMA KeyTaken ==
  ASSUME TypeInv, NEW r \in Request, RequestStep(r), NEW k \in Key,
         idem'[k] = "IN_FLIGHT"
  PROVE  idem[k] = "IN_FLIGHT" \/ (key(r)' = k /\ pc'[r] \in Working)
<1>0. /\ pc \in [Request -> Step]
      /\ call \in [Request -> Call]
      /\ idem \in [Key -> {"ABSENT", "IN_FLIGHT", "COMPLETED"}]
  BY DEF TypeInv, TypeOK
<1>1. ASSUME NEW c \in Call, Arrive(r, c), idem[k] # "IN_FLIGHT"
      PROVE  key(r)' = k /\ pc'[r] \in Working
  <2>1. key(r)' = c.key
    BY <1>0, <1>1 DEF Arrive, key
  <2>2. c.key = k /\ pc'[r] = "check"
    BY <1>0, <1>1 DEF Arrive, Goes
  <2> QED BY <2>1, <2>2 DEF Working
<1>2. CASE Save(r) \/ Delete(r)
  BY <1>0, <1>2 DEF Save, Delete, keyVars
<1> QED BY <1>1, <1>2
        DEF RequestStep, Lookup, Check, Lock, Record, Commit, CommitAborted,
            Fail, Buffer, Clear, NotCleared, Crash, keyVars

LEMMA UnsettledGrows ==
  ASSUME NEW r \in Request, RequestStep(r)
  PROVE  unsettled \subseteq unsettled'
BY DEF RequestStep, Arrive, Lookup, Check, Lock, Record, Commit, CommitAborted,
       Fail, Buffer, Save, Clear, Delete, NotCleared, Crash, faultVars, Leave

(* A key is IN_FLIGHT only for a request at work or one that was stopped.  *)
THEOREM IngestNoLockout == Spec => []NoLockout
<1>1. Init => NoLockout
  BY DEF Init, NoLockout
<1>2. TypeInv /\ NoLockout /\ [Next]_vars => NoLockout'
  <2> SUFFICES ASSUME TypeInv, NoLockout, [Next]_vars,
                      NEW k \in Key, idem'[k] = "IN_FLIGHT"
               PROVE  \/ k \in unsettled'
                      \/ \E q \in Request : key(q)' = k /\ pc'[q] \in Working
    BY DEF NoLockout, key
  <2>1. ASSUME NEW r \in Request, RequestStep(r)
        PROVE  \/ k \in unsettled'
               \/ \E q \in Request : key(q)' = k /\ pc'[q] \in Working
    <3>1. CASE idem[k] # "IN_FLIGHT"
      BY <2>1, <3>1, KeyTaken
    <3>2. CASE k \in unsettled
      BY <2>1, <3>2, UnsettledGrows
    <3>3. ASSUME NEW q \in Request, key(q) = k, pc[q] \in Working
          PROVE  \/ k \in unsettled'
                 \/ key(q)' = k /\ pc'[q] \in Working
      <4>1. CASE q = r
        BY <2>1, <3>3, <4>1, KeySettled DEF key
      <4>2. CASE q # r
        BY <2>1, <3>3, <4>2, OnlyOwn DEF key
      <4> QED BY <4>1, <4>2
    <3> QED BY <3>1, <3>2, <3>3 DEF NoLockout
  <2>2. ASSUME NEW j \in Key, Expire(j)
        PROVE  \/ k \in unsettled'
               \/ \E q \in Request : key(q)' = k /\ pc'[q] \in Working
    <3>1. idem[k] = "IN_FLIGHT"
      BY <2>2 DEF Expire, TypeInv, TypeOK
    <3> QED BY <2>2, <3>1 DEF Expire, NoLockout, key
  <2>3. CASE UNCHANGED ingestVars
    BY <2>3 DEF NoLockout, key, ingestVars, keyVars, faultVars
  <2> QED BY <2>1, <2>2, <2>3 DEF Next, vars
<1> QED BY <1>1, <1>2, TypeInvariant, PTL DEF Spec
-----------------------------------------------------------------------------
(* The aggregation.  What a request that is about to commit has decided    *)
(* was decided on every row that will be before its own: whoever else      *)
(* sends from the same account waits for its row.                          *)
Amounts(calls) == [q \in Request |-> calls[q].pay.amount]

Earlier(r) ==
  {q \in Range(rows) : /\ pay(q).cash
                       /\ pay(q).from = pay(r).from
                       /\ InDay(q, r)}

Due(r, S) ==
  pay(r).cash /\ Total(S) + pay(r).amount >= Threshold => "CTR" \in filed[r]

ReportInv ==
  /\ \A r \in Request : pc[r] = "commit" => Due(r, Earlier(r))
  /\ AggregateReported

LEMMA Payments ==
  \A c \in Call : c.pay.amount \in Nat /\ c.pay.from \in {c.pay.from, c.pay.to}
BY IngestAssumption

Called == call \in [Request -> Call]

Summed ==
  \A S \in SUBSET Request :
    IsFiniteSet(S) => Total(S) = SumOver(Amounts(call), S)

LEMMA TotalSums == Called => Summed
<1> SUFFICES ASSUME Called, NEW S \in SUBSET Request, IsFiniteSet(S)
             PROVE  Total(S) = SumOver(Amounts(call), S)
  BY DEF Summed
<1> DEFINE w == Amounts(call)
           iter == CHOOSE F : Sums(F, S, w)
           plain(F) == F = [s \in SUBSET S |->
             IF s = {} THEN 0
             ELSE LET x == CHOOSE x \in s : TRUE IN pay(x).amount + F[s \ {x}]]
<1>1. ASSUME NEW F
      PROVE  plain(F) <=> Sums(F, S, w)
  <2>1. \A x \in S : w[x] = pay(x).amount
    BY DEF Amounts, pay
  <2>2. \A s \in SUBSET S : s # {} => (CHOOSE x \in s : TRUE) \in S
    OBVIOUS
  <2> HIDE DEF w
  <2> QED BY <2>1, <2>2 DEF Sums
<1>2. Total(S) = (CHOOSE F : plain(F))[S]
  BY DEF Total, MapThenSumSet, MapThenFoldSet
<1>3. (CHOOSE F : plain(F)) = iter
  <2> HIDE DEF plain, w
  <2> QED BY <1>1, Zenon
<1> QED BY <1>2, <1>3 DEF SumOver

LEMMA TotalSumsNext == Called' => Summed'
BY TotalSums, PTL

LEMMA RowsFinite ==
  ASSUME TypeInv
  PROVE  Range(rows) \subseteq Request /\ IsFiniteSet(Range(rows))
<1>1. DOMAIN rows = 1 .. Len(rows) /\ Len(rows) \in Nat /\ Range(rows) \subseteq Request
  BY DEF TypeInv, TypeOK, Range
<1>2. rows \in Surjection(1 .. Len(rows), Range(rows))
  BY <1>1 DEF TypeInv, TypeOK, Range, Surjection
<1> QED BY <1>1, <1>2, FS_Interval, FS_Surjection

(* Requests that have been sent keep their payloads, and so their sums.    *)
LEMMA TotalStays ==
  ASSUME TypeInv, TypeInv', NEW S \in SUBSET Request, IsFiniteSet(S),
         \A q \in S : call'[q] = call[q]
  PROVE  Total(S)' = Total(S) /\ Total(S) \in Nat
<1>1. Total(S) = SumOver(Amounts(call), S)
  BY TotalSums DEF TypeInv, TypeOK, Called, Summed
<1>2. Total(S)' = SumOver(Amounts(call'), S)
  BY TotalSumsNext DEF TypeInv, TypeOK, Called, Summed
<1>3. \A q \in S : /\ Amounts(call)[q] \in Nat
                   /\ Amounts(call')[q] = Amounts(call)[q]
  BY Payments DEF Amounts, TypeInv, TypeOK
<1>4. SumOver(Amounts(call), S) = SumOver(Amounts(call'), S)
  BY <1>3, SumSame
<1>5. SumOver(Amounts(call), S) \in Nat
  BY <1>3, SumParts
<1> QED BY <1>1, <1>2, <1>4, <1>5

LEMMA EarlierRows ==
  ASSUME TypeInv, NEW q \in Request
  PROVE  /\ Earlier(q) \subseteq Range(rows)
         /\ Earlier(q) \in SUBSET Request /\ IsFiniteSet(Earlier(q))
<1>1. Earlier(q) \subseteq Range(rows)
  BY DEF Earlier
<1> QED BY <1>1, RowsFinite, FS_Subset

LEMMA DueStays ==
  ASSUME TypeInv, TypeInv', NEW q \in Request, NEW S \in SUBSET Request,
         IsFiniteSet(S), \A p \in S \cup {q} : call'[p] = call[p],
         filed'[q] = filed[q], Due(q, S)
  PROVE  Due(q, S)'
BY TotalStays DEF Due, pay

LEMMA BeforeRows ==
  ASSUME TypeInv, NEW i \in 1 .. Len(rows)
  PROVE  /\ Before(i) \subseteq Range(rows) /\ rows[i] \in Range(rows)
         /\ Before(i) \in SUBSET Request /\ IsFiniteSet(Before(i))
<1>1. rows \in Seq(Request) /\ DOMAIN rows = 1 .. Len(rows)
  BY DEF TypeInv, TypeOK
<1>2. Before(i) \subseteq Range(rows) /\ rows[i] \in Range(rows)
  BY <1>1 DEF Before, Range
<1> QED BY <1>2, RowsFinite, FS_Subset

(* Requests at work and requests in the table were sent: they keep what    *)
(* they were sent with.                                                    *)
LEMMA SentStay ==
  ASSUME TypeInv, KeyInv, NEW r \in Request, RequestStep(r)
  PROVE  /\ \A q \in Request : pc[q] # "new" => call'[q] = call[q]
         /\ \A q \in Range(rows) : q \in Request /\ pc[q] \in Past /\ call'[q] = call[q]
<1>1. \A q \in Request : pc[q] # "new" => call'[q] = call[q]
  BY OnlyOwn
<1>2. \A q \in Range(rows) : q \in Request /\ pc[q] \in Past
  BY RowsFinite DEF KeyInv, Recorded
<1> QED BY <1>1, <1>2 DEF Past

(* The cash the aggregation finds includes that of the account itself.     *)
LEMMA RecordDecides ==
  ASSUME TypeInv, TypeInv', KeyInv, NEW r \in Request, Record(r), pc'[r] = "commit"
  PROVE  Due(r, Earlier(r))'
<1>1. filed'[r] = Filings(r) /\ call' = call /\ rows' = rows
  BY DEF Record, Goes, TypeInv, TypeOK
<1>2. Earlier(r)' = Earlier(r)
  BY <1>1 DEF Earlier, InDay, pay
<1>3. Earlier(r) \subseteq Rolling(r) /\ Rolling(r) \in SUBSET Request /\ IsFiniteSet(Rolling(r))
  BY RowsFinite, FS_Subset DEF Earlier, Rolling, SameCustomer
<1>4. PICK R \in SUBSET Request : R = Rolling(r) /\ IsFiniteSet(R)
  BY <1>3
<1>5. PICK S \in SUBSET Request : S = Earlier(r) /\ IsFiniteSet(S) /\ S \subseteq R
  BY <1>3, <1>4, FS_Subset
<1>6. \A q \in R : Amounts(call)[q] \in Nat
  BY Payments DEF Amounts, TypeInv, TypeOK
<1>7. /\ SumOver(Amounts(call), S) <= SumOver(Amounts(call), R)
      /\ SumOver(Amounts(call), S) \in Nat /\ SumOver(Amounts(call), R) \in Nat
  BY <1>4, <1>5, <1>6, SumMonotone, SumParts
<1>8. Total(S) = SumOver(Amounts(call), S) /\ Total(R) = SumOver(Amounts(call), R)
  BY <1>4, <1>5, TotalSums DEF Called, Summed, TypeInv, TypeOK
<1>9. Total(S)' = Total(S)
  BY <1>1, <1>5, TotalStays
<1>10. pay(r).amount \in Nat
  BY Payments DEF pay, TypeInv, TypeOK
<1>11. ASSUME pay(r).cash, Total(Earlier(r)) + pay(r).amount >= Threshold
       PROVE  "CTR" \in Filings(r)
  <2>1. Total(Rolling(r)) + pay(r).amount >= Threshold
    BY <1>4, <1>5, <1>7, <1>8, <1>10, <1>11 DEF Threshold
  <2> QED BY <1>11, <2>1 DEF Filings
<1> QED BY <1>1, <1>2, <1>5, <1>11, <1>9 DEF Due, pay

LEMMA ReportInvCommit ==
  ASSUME TypeInv, TypeInv', KeyInv, LockInv, ReportInv, NEW r \in Request, Commit(r)
  PROVE  ReportInv'
<1>0. /\ rows \in Seq(Request) /\ rows' = Append(rows, r) /\ call' = call /\ filed' = filed
      /\ pc[r] = "commit" /\ pc'[r] # "commit"
      /\ \A q \in Request : q # r => pc'[q] = pc[q]
  BY DEF Commit, Goes, Rejected, TypeInv, TypeOK
<1>1. Range(rows') = Range(rows) \cup {r}
  BY <1>0, RangeAppend
<1>2. \A q : pay(q)' = pay(q)
  BY <1>0 DEF pay
<1>3. ASSUME NEW q \in Request, pc'[q] = "commit"
      PROVE  Due(q, Earlier(q))'
  <2>1. q # r /\ pc[q] = "commit"
    BY <1>0, <1>3
  <2>2. pay(q).from \in Account /\ pay(r).from \in Account
        /\ pay(q).from \in Accounts(q) /\ pay(r).from \in Accounts(r)
    BY AccountsOfCalls DEF Accounts
  <2>3. holder[pay(q).from] = q /\ holder[pay(r).from] = r
    BY <1>0, <2>1, <2>2 DEF LockInv, Secured
  <2>4. Earlier(q)' = Earlier(q)
    BY <1>1, <1>2, <2>1, <2>3 DEF Earlier, InDay
  <2>5. PICK S \in SUBSET Request : S = Earlier(q) /\ IsFiniteSet(S)
    BY EarlierRows
  <2>6. Due(q, S)
    BY <2>1, <2>5 DEF ReportInv
  <2>7. Due(q, S)'
    BY <1>0, <2>5, <2>6, DueStays
  <2> QED BY <2>4, <2>5, <2>7
<1>4. /\ Len(rows') = Len(rows) + 1 /\ Len(rows) \in Nat
      /\ \A i \in 1 .. Len(rows) : rows'[i] = rows[i]
      /\ rows'[Len(rows) + 1] = r
  BY <1>0
<1>5. ASSUME NEW i \in 1 .. Len(rows')
      PROVE  Due(rows[i], Before(i))'
  <2>1. CASE i \in 1 .. Len(rows)
    <3>1. Before(i)' = Before(i) /\ rows'[i] = rows[i]
      <4>1. \A j \in 1 .. i - 1 : j \in 1 .. Len(rows) /\ rows'[j] = rows[j]
        BY <1>4, <2>1
      <4>2. rows'[i] = rows[i]
        BY <1>4, <2>1
      <4> QED
        BY <1>2, <4>1, <4>2 DEF Before, InDay
    <3>2. PICK S \in SUBSET Request : S = Before(i) /\ IsFiniteSet(S)
      BY <2>1, BeforeRows
    <3>3. PICK q \in Request : q = rows[i]
      BY <1>0, <2>1
    <3>4. Due(q, S)
      BY <2>1, <3>2, <3>3 DEF ReportInv, AggregateReported, Due
    <3>5. Due(q, S)'
      BY <1>0, <3>2, <3>4, DueStays
    <3> QED BY <3>1, <3>2, <3>3, <3>5
  <2>2. CASE i = Len(rows) + 1
    <3>1. Before(i)' = Earlier(r) /\ rows'[i] = r
      <4>1. DOMAIN rows = 1 .. Len(rows)
        BY <1>0
      <4> QED BY <1>2, <1>4, <2>2, <4>1 DEF Before, Earlier, InDay, Range
    <3>2. PICK S \in SUBSET Request : S = Earlier(r) /\ IsFiniteSet(S)
      BY EarlierRows
    <3>3. Due(r, S)
      BY <1>0, <3>2 DEF ReportInv
    <3>4. Due(r, S)'
      BY <1>0, <3>2, <3>3, DueStays
    <3> QED BY <3>1, <3>2, <3>4
  <2> QED BY <1>4, <2>1, <2>2
<1>6. AggregateReported'
  BY <1>5 DEF AggregateReported, Due
<1> QED BY <1>3, <1>6 DEF ReportInv

LEMMA ReportInvOther ==
  ASSUME TypeInv, TypeInv', KeyInv, ReportInv, NEW r \in Request, RequestStep(r),
         rows' = rows, filed' = filed \/ Record(r)
  PROVE  ReportInv'
<1>0. /\ \A q \in Request : pc[q] # "new" => call'[q] = call[q]
      /\ \A q \in Range(rows) : q \in Request /\ pc[q] \in Past /\ call'[q] = call[q]
  BY SentStay
<1>1. ASSUME NEW q \in Request, pc'[q] = "commit", ~(q = r /\ Record(r))
      PROVE  pc[q] = "commit" /\ filed'[q] = filed[q]
  <2>1. CASE q # r
    BY <1>1, <2>1, OnlyOwn DEF Record, TypeInv, TypeOK
  <2>2. CASE q = r
    BY <1>1, <2>2
       DEF RequestStep, Arrive, Lookup, Check, Lock, Commit, CommitAborted, Fail, Buffer,
           Save, Clear, Delete, NotCleared, Crash, Goes, Rejected, TypeInv, TypeOK
  <2> QED BY <2>1, <2>2
<1>2. ASSUME NEW q \in Request, pc'[q] = "commit"
      PROVE  Due(q, Earlier(q))'
  <2>1. CASE q = r /\ Record(r)
    BY <1>2, <2>1, RecordDecides
  <2>2. CASE ~(q = r /\ Record(r))
    <3>1. pc[q] = "commit" /\ filed'[q] = filed[q] /\ call'[q] = call[q]
      BY <1>0, <1>1, <1>2, <2>2
    <3>2. Earlier(q)' = Earlier(q)
      BY <1>0, <3>1 DEF Earlier, InDay, pay
    <3>3. PICK S \in SUBSET Request : S = Earlier(q) /\ IsFiniteSet(S) /\ S \subseteq Range(rows)
      BY EarlierRows
    <3>4. Due(q, S)
      BY <3>1, <3>3 DEF ReportInv
    <3>5. Due(q, S)'
      BY <1>0, <3>1, <3>3, <3>4, DueStays
    <3> QED BY <3>2, <3>3, <3>5
  <2> QED BY <2>1, <2>2
<1>3. ASSUME NEW i \in 1 .. Len(rows)
      PROVE  Due(rows[i], Before(i))'
  <2>1. PICK q \in Range(rows) : q = rows[i]
    BY BeforeRows
  <2>2. PICK S \in SUBSET Request : S = Before(i) /\ IsFiniteSet(S) /\ S \subseteq Range(rows)
    BY BeforeRows
  <2>3. filed'[q] = filed[q]
    <3>1. q \in Request /\ pc[q] # "record"
      BY <1>0, <2>1 DEF Past
    <3>2. Record(r) => filed' = filed \/ (q # r /\ filed' = [filed EXCEPT ![r] = Filings(r)])
      BY <3>1 DEF Record
    <3> QED
      BY <3>1, <3>2 DEF TypeInv, TypeOK
  <2>4. Due(q, S)
    BY <2>1, <2>2 DEF ReportInv, AggregateReported, Due
  <2>5. Due(q, S)'
    BY <1>0, <2>1, <2>2, <2>3, <2>4, DueStays
  <2>6. Before(i)' = Before(i)
    <3>1. \A j \in 1 .. Len(rows) : pay(rows[j])' = pay(rows[j])
      BY <1>0, BeforeRows DEF pay
    <3>2. 1 .. i - 1 \subseteq 1 .. Len(rows)
      BY DEF TypeInv, TypeOK
    <3> QED BY <3>1, <3>2 DEF Before, InDay
  <2> QED BY <2>1, <2>2, <2>5, <2>6
<1>4. AggregateReported'
  BY <1>3 DEF AggregateReported, Due
<1> QED BY <1>2, <1>4 DEF ReportInv

LEMMA ReportInvariant == Spec => []ReportInv
<1>1. Init => ReportInv
  BY DEF Init, ReportInv, AggregateReported
<1>2. TypeInv /\ TypeInv' /\ KeyInv /\ LockInv /\ ReportInv /\ [Next]_vars => ReportInv'
  <2> SUFFICES ASSUME TypeInv, TypeInv', KeyInv, LockInv, ReportInv, [Next]_vars
               PROVE  ReportInv'
    OBVIOUS
  <2>1. ASSUME NEW r \in Request, RequestStep(r)
        PROVE  ReportInv'
    <3>1. CASE Commit(r)
      BY <3>1, ReportInvCommit
    <3>2. CASE ~Commit(r)
      <4>1. rows' = rows
        BY <2>1, <3>2, RowsChange
      <4>2. filed' = filed \/ Record(r)
        BY <2>1, <3>2 DEF RequestStep, Arrive, Lookup, Check, Lock, CommitAborted, Fail,
             Buffer, Save, Clear, Delete, NotCleared, Crash, txVars
      <4> QED BY <2>1, <4>1, <4>2, ReportInvOther
    <3> QED BY <3>1, <3>2
  <2>2. CASE UNCHANGED <<pc, call, filed, rows>>
    <3>1. ASSUME NEW q \in Request, pc'[q] = "commit"
          PROVE  Due(q, Earlier(q))'
      <4>1. Earlier(q)' = Earlier(q)
        BY <2>2 DEF Earlier, InDay, pay
      <4>2. PICK S \in SUBSET Request : S = Earlier(q) /\ IsFiniteSet(S)
        BY EarlierRows
      <4>3. Due(q, S)
        BY <2>2, <3>1, <4>2 DEF ReportInv
      <4> QED BY <2>2, <4>1, <4>2, <4>3, DueStays
    <3>2. ASSUME NEW i \in 1 .. Len(rows)
          PROVE  Due(rows[i], Before(i))'
      <4>1. Before(i)' = Before(i)
        BY <2>2 DEF Before, InDay, pay
      <4>2. PICK S \in SUBSET Request : S = Before(i) /\ IsFiniteSet(S)
        BY BeforeRows
      <4>3. PICK q \in Request : q = rows[i]
        BY BeforeRows, RowsFinite
      <4>4. Due(q, S)
        BY <4>2, <4>3 DEF ReportInv, AggregateReported, Due
      <4>5. Due(q, S)'
        BY <2>2, <4>2, <4>4, DueStays
      <4> QED BY <2>2, <4>1, <4>2, <4>3, <4>5
    <3>3. AggregateReported'
      BY <2>2, <3>2 DEF AggregateReported, Due
    <3> QED BY <3>1, <3>3 DEF ReportInv
  <2> QED BY <2>1, <2>2 DEF Next, Expire, vars, ingestVars, txVars
<1> QED BY <1>1, <1>2, TypeInvariant, LockInvariant, KeyInvariant, PTL DEF Spec

(* Every cash transaction whose sum with the earlier ones of its account   *)
(* within 24 hours reaches the threshold has a CTR.                        *)
THEOREM IngestAggregateReported == Spec => []AggregateReported
<1>1. ReportInv => AggregateReported
  BY DEF ReportInv
<1> QED BY <1>1, ReportInvariant, PTL
=============================================================================
