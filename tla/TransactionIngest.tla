------------------------- MODULE TransactionIngest --------------------------
(***************************************************************************)
(* Ingesting transactions: routers/transactions.py with the idempotency    *)
(* keys of services/idempotency.py, against accounts that officers freeze  *)
(* and restrict meanwhile.  A request names its transaction: the id of the *)
(* transaction that request r makes is r.  Every Redis command, and every  *)
(* database statement other requests can come between, is a step.          *)
(***************************************************************************)
EXTENDS AccountStatus, Sequences, FiniteSetsExt

CONSTANTS
  Request,    \* requests clients send; a retry is another request
  Key,        \* idempotency keys clients choose
  Call,       \* what clients may send, and by which route
  Customer,   \* Customer[a]: customer_id of an account, or Nobody
  MaxFaults   \* bound: Redis commands that fail, answers to a COMMIT that
              \* are lost, processes that die and keys that expire

NoKey == "none"

ASSUME IngestAssumption ==
  /\ Nobody \notin Request
  /\ NoKey \notin Key
  /\ Call \subseteq [route : {"sync", "async"}, key : Key \cup {NoKey},
                     pay : [from : Account, to : Account, amount : Nat,
                            cash : BOOLEAN, at : Nat]]
  /\ Call # {}
  /\ MaxFaults \in Nat

VARIABLES
  pc,        \* pc[r]: the step request r is at, or how it ended
  call,      \* call[r]: the route, key and payload of r
  filed,     \* filed[r]: the filings that r has decided on: CTR, structuring
  named,     \* named[r]: the transaction the 201 or 202 answer to r names
  rows,      \* the transactions table, in the order of the commits
  buffered,  \* transactions with a TRANSACTION_BUFFER event in the outbox
  idem,      \* idem[k]: the state of the Redis key
  saved,     \* saved[k]: the transaction of the answer stored under k
  lapsed,    \* keys that did not hold off a second request: Redis failed, the
             \* key expired or went, or the answer to a COMMIT was lost
  unsettled, \* keys that a request left behind: it died, or Redis failed
  faults     \* faults so far

txVars == <<filed, rows, buffered>>
keyVars == <<idem, saved>>
faultVars == <<lapsed, unsettled, faults>>
ingestVars == <<pc, call, named, txVars, keyVars, faultVars>>
vars == <<accountVars, ingestVars>>

(* Amounts are in units of $500: a CTR is due from $10,000 on; from $9,000 *)
(* on an amount below that is near the threshold; $9,500 is suspicious for *)
(* the sum.  at counts half days, and Day reaches back 24 hours.           *)
Threshold == 20
NearThreshold == 18
Suspicious == 19
Day == 2

pay(r) == call[r].pay
key(r) == call[r].key
Accounts(r) == {pay(r).from, pay(r).to}
Release(r) == holder' = [a \in Account |-> IF holder[a] = r THEN Nobody
                                           ELSE holder[a]]
Goes(r, step) == pc' = [pc EXCEPT ![r] = step]
Rejected(r) == IF key(r) = NoKey THEN "rejected" ELSE "clear"
Lapse(r) == lapsed' = lapsed \cup ({key(r)} \ {NoKey})
Fault == faults < MaxFaults /\ faults' = faults + 1
Leave(r) == unsettled' = unsettled \cup ({key(r)} \ {NoKey})
UnchangedAccounts == UNCHANGED <<status, replica, frozen_at, edd, acts>>
Total(S) == MapThenSumSet(LAMBDA q : pay(q).amount, S)
-----------------------------------------------------------------------------
(* Reserving the key.                                                      *)

(* Variant of Arrive: the key is set whether or not it exists.             *)
ArrivePlainSet(r, c) ==
  /\ pc[r] = "new"
  /\ call' = [call EXCEPT ![r] = c]
  /\ Goes(r, "check")
  /\ idem' = IF c.key = NoKey THEN idem
             ELSE [idem EXCEPT ![c.key] = "IN_FLIGHT"]
  /\ UNCHANGED <<named, txVars, saved, faultVars, accountVars>>

(* SET NX, unless no key was sent or Redis does not answer.                *)
Arrive(r, c) ==
  /\ pc[r] = "new"
  /\ call' = [call EXCEPT ![r] = c]
  /\ \/ /\ c.key = NoKey
        /\ Goes(r, "check")
        /\ UNCHANGED <<idem, lapsed, faults>>
     \/ /\ c.key # NoKey
        /\ idem[c.key] = "ABSENT"
        /\ idem' = [idem EXCEPT ![c.key] = "IN_FLIGHT"]
        /\ Goes(r, "check")
        /\ UNCHANGED <<lapsed, faults>>
     \/ /\ c.key # NoKey
        /\ idem[c.key] # "ABSENT"
        /\ Goes(r, "lookup")
        /\ UNCHANGED <<idem, lapsed, faults>>
     \/ /\ c.key # NoKey
        /\ Fault
        /\ lapsed' = lapsed \cup {c.key}
        /\ Goes(r, "check")
        /\ UNCHANGED idem
  /\ UNCHANGED <<named, txVars, saved, unsettled, accountVars>>

(* Variant of Mismatch: the hashes are not compared.                       *)
MismatchIgnored(r) == FALSE

(* The answer under k was stored by a request with another payload.  The   *)
(* asynchronous route neither stores nor compares a hash.                  *)
Mismatch(r) ==
  LET q == saved[key(r)]
  IN /\ call[r].route = "sync"
     /\ call[q].route = "sync"
     /\ pay(q) # pay(r)

(* GET.  A key that has gone in the meantime, and a command that fails,    *)
(* let the request through.                                                *)
Lookup(r) ==
  /\ pc[r] = "lookup"
  /\ \/ /\ \/ idem[key(r)] = "ABSENT" /\ UNCHANGED faults
           \/ Fault
        /\ Goes(r, "check")
        /\ Lapse(r)
        /\ UNCHANGED named
     \/ /\ idem[key(r)] = "IN_FLIGHT"
        /\ Goes(r, "conflict")
        /\ UNCHANGED <<named, lapsed, faults>>
     \/ /\ idem[key(r)] = "COMPLETED"
        /\ IF Mismatch(r)
           THEN Goes(r, "mismatch") /\ UNCHANGED named
           ELSE /\ Goes(r, "answered")
                /\ named' = [named EXCEPT ![r] = saved[key(r)]]
        /\ UNCHANGED <<lapsed, faults>>
  /\ UNCHANGED <<call, txVars, keyVars, unsettled, accountVars>>
-----------------------------------------------------------------------------
(* The synchronous route.                                                  *)

(* Variant of Check: only frozen accounts are turned away.                 *)
CheckFrozenOnly(r) ==
  /\ pc[r] = "check"
  /\ call[r].route = "sync"
  /\ Goes(r, IF \E a \in Accounts(r) : replica[a] = "FROZEN"
             THEN Rejected(r) ELSE "lock")
  /\ UNCHANGED <<call, named, txVars, keyVars, faultVars, accountVars>>

(* Reads the accounts from the replica.                                    *)
Check(r) ==
  /\ pc[r] = "check"
  /\ call[r].route = "sync"
  /\ Goes(r, IF \E a \in Accounts(r) : replica[a] \in {"FROZEN", "CIP_PENDING"}
             THEN Rejected(r) ELSE "lock")
  /\ UNCHANGED <<call, named, txVars, keyVars, faultVars, accountVars>>

(* Variant of Lock: the accounts are read without FOR UPDATE.              *)
LockPlainRead(r) ==
  /\ pc[r] = "lock"
  /\ Goes(r, IF \E a \in Accounts(r) : status[a] = "FROZEN" THEN Rejected(r)
             ELSE "record")
  /\ UNCHANGED <<call, named, txVars, keyVars, faultVars, accountVars>>

(* SELECT ... FOR UPDATE of both accounts, once nobody else has them.      *)
Lock(r) ==
  /\ pc[r] = "lock"
  /\ \A a \in Accounts(r) : holder[a] = Nobody
  /\ IF \E a \in Accounts(r) : status[a] = "FROZEN"
     THEN Goes(r, Rejected(r)) /\ UNCHANGED holder
     ELSE /\ Goes(r, "record")
          /\ holder' = [a \in Account |-> IF a \in Accounts(r) THEN r
                                          ELSE holder[a]]
  /\ UnchangedAccounts
  /\ UNCHANGED <<call, named, txVars, keyVars, faultVars>>

SameCustomer(a, b) ==
  IF Customer[a] = Nobody THEN a = b ELSE Customer[a] = Customer[b]
InDay(q, r) == pay(q).at \in pay(r).at - Day .. pay(r).at
(* The cash transactions that the 24-hour aggregation of r finds.          *)
Rolling(r) ==
  {q \in Range(rows) : /\ pay(q).cash
                       /\ SameCustomer(pay(r).from, pay(q).from)
                       /\ InDay(q, r)}

Filings(r) ==
  LET prior == Rolling(r)
      total == Total(prior) + pay(r).amount
      amount == pay(r).amount
  IN {f \in {"CTR", "STRUCTURING"} :
        /\ pay(r).cash
        /\ \/ f = "CTR" /\ (amount >= Threshold \/ total >= Threshold)
           \/ /\ f = "STRUCTURING"
              /\ prior # {}
              /\ \/ amount \in NearThreshold .. Threshold - 1
                 \/ total >= Suspicious}

(* The INSERTs of the transaction and its alert, the aggregation, the      *)
(* INSERTs it asks for, and the outbox event.  A statement that fails      *)
(* aborts the transaction; the errors of the aggregation and of the        *)
(* outbox event are logged and the pipeline goes on.                       *)
Record(r) ==
  /\ pc[r] = "record"
  /\ \/ /\ filed' = [filed EXCEPT ![r] = Filings(r)]
        /\ Goes(r, "commit")
     \/ Goes(r, "aborted") /\ UNCHANGED filed
  /\ UNCHANGED <<call, named, rows, buffered, keyVars, faultVars, accountVars>>

Commit(r) ==
  /\ pc[r] = "commit"
  /\ rows' = Append(rows, r)
  /\ Release(r)
  /\ \/ Goes(r, "save") /\ UNCHANGED <<lapsed, faults>>
     \/ Goes(r, Rejected(r)) /\ Lapse(r) /\ Fault     \* the answer is lost
  /\ UnchangedAccounts
  /\ UNCHANGED <<call, named, filed, buffered, keyVars, unsettled>>

(* COMMIT of an aborted transaction rolls back and raises nothing.         *)
CommitAborted(r) ==
  /\ pc[r] = "aborted"
  /\ Goes(r, "save")
  /\ Release(r)
  /\ UnchangedAccounts
  /\ UNCHANGED <<call, named, txVars, keyVars, faultVars>>

(* Variant of Fail: the key is cleared after a 4xx only.                   *)
FailKeepsKey(r) ==
  /\ pc[r] \in {"check", "lock", "record", "commit", "aborted"}
  /\ call[r].route = "sync"
  /\ Goes(r, "rejected")
  /\ Release(r)
  /\ UnchangedAccounts
  /\ UNCHANGED <<call, named, txVars, keyVars, faultVars>>

(* Any exception before the commit: roll back and answer 404 or 500.       *)
Fail(r) ==
  /\ pc[r] \in {"check", "lock", "record", "commit", "aborted"}
  /\ call[r].route = "sync"
  /\ Goes(r, Rejected(r))
  /\ Release(r)
  /\ UnchangedAccounts
  /\ UNCHANGED <<call, named, txVars, keyVars, faultVars>>
-----------------------------------------------------------------------------
(* The asynchronous route; an outbox event that cannot be written is       *)
(* logged and the request accepted.                                        *)
Buffer(r) ==
  /\ pc[r] = "check"
  /\ call[r].route = "async"
  /\ buffered' \in {buffered, buffered \cup {r}}
  /\ Goes(r, "save")
  /\ UNCHANGED <<call, named, filed, rows, keyVars, faultVars, accountVars>>
-----------------------------------------------------------------------------
(* Settling the key.                                                       *)

(* SET of the answer; a failure is logged.                                 *)
Save(r) ==
  /\ pc[r] = "save"
  /\ Goes(r, "answered")
  /\ named' = [named EXCEPT ![r] = r]
  /\ \/ /\ key(r) # NoKey
        /\ idem' = [idem EXCEPT ![key(r)] = "COMPLETED"]
        /\ saved' = [saved EXCEPT ![key(r)] = r]
        /\ UNCHANGED <<unsettled, faults>>
     \/ /\ key(r) # NoKey
        /\ Fault
        /\ Leave(r)
        /\ UNCHANGED keyVars
     \/ /\ key(r) = NoKey
        /\ UNCHANGED <<keyVars, unsettled, faults>>
  /\ UNCHANGED <<call, txVars, lapsed, accountVars>>

(* GET, then DEL of a key that was IN_FLIGHT; failures are logged.         *)
Clear(r) ==
  /\ pc[r] = "clear"
  /\ Goes(r, IF idem[key(r)] = "IN_FLIGHT" THEN "delete" ELSE "rejected")
  /\ UNCHANGED <<call, named, txVars, keyVars, faultVars, accountVars>>

Delete(r) ==
  /\ pc[r] = "delete"
  /\ Goes(r, "rejected")
  /\ idem' = [idem EXCEPT ![key(r)] = "ABSENT"]
  /\ UNCHANGED <<call, named, txVars, saved, faultVars, accountVars>>

NotCleared(r) ==
  /\ pc[r] \in {"clear", "delete"}
  /\ Fault
  /\ Goes(r, "rejected")
  /\ Leave(r)
  /\ UNCHANGED <<call, named, txVars, keyVars, lapsed, accountVars>>

(* The process of r dies: its transaction is rolled back, its key stays.   *)
Crash(r) ==
  /\ pc[r] \in {"lookup", "check", "lock", "record", "commit", "aborted",
                "save", "clear", "delete"}
  /\ Fault
  /\ Goes(r, "gone")
  /\ Release(r)
  /\ Leave(r)
  /\ UnchangedAccounts
  /\ UNCHANGED <<call, named, txVars, keyVars, lapsed>>

Expire(k) ==
  /\ idem[k] # "ABSENT"
  /\ Fault
  /\ idem' = [idem EXCEPT ![k] = "ABSENT"]
  /\ lapsed' = lapsed \cup {k}
  /\ UNCHANGED <<pc, call, named, txVars, saved, unsettled, accountVars>>
-----------------------------------------------------------------------------
Init ==
  /\ AccountInit
  /\ pc = [r \in Request |-> "new"]
  /\ call = [r \in Request |-> CHOOSE c \in Call : TRUE]
  /\ filed = [r \in Request |-> {}]
  /\ named = [r \in Request |-> Nobody]
  /\ rows = << >>
  /\ buffered = {}
  /\ idem = [k \in Key |-> "ABSENT"]
  /\ saved = [k \in Key |-> Nobody]
  /\ lapsed = {}
  /\ unsettled = {}
  /\ faults = 0

RequestStep(r) ==
  \/ \E c \in Call : Arrive(r, c)
  \/ Lookup(r)
  \/ Check(r)
  \/ Lock(r)
  \/ Record(r)
  \/ Commit(r)
  \/ CommitAborted(r)
  \/ Fail(r)
  \/ Buffer(r)
  \/ Save(r)
  \/ Clear(r)
  \/ Delete(r)
  \/ NotCleared(r)
  \/ Crash(r)

Next ==
  \/ \E r \in Request : RequestStep(r)
  \/ \E k \in Key : Expire(k)
  \/ \E a \in Account : AccountStep(a) /\ UNCHANGED ingestVars

Spec == Init /\ [][Next]_vars
-----------------------------------------------------------------------------
Working == {"check", "lock", "record", "commit", "aborted", "save", "clear",
            "delete"}
Step == Working \cup {"new", "lookup", "conflict", "mismatch", "rejected",
                      "answered", "gone"}

TypeOK ==
  /\ status \in [Account -> AccountStatuses]
  /\ replica \in [Account -> AccountStatuses]
  /\ frozen_at \subseteq Account
  /\ edd \in [Account -> {"NONE", "PENDING", "RESOLVED"}]
  /\ holder \in [Account -> Request \cup {Nobody}]
  /\ acts \in 0 .. MaxActs
  /\ pc \in [Request -> Step]
  /\ call \in [Request -> Call]
  /\ filed \in [Request -> SUBSET {"CTR", "STRUCTURING"}]
  /\ named \in [Request -> Request \cup {Nobody}]
  /\ rows \in Seq(Request)
  /\ buffered \subseteq Request
  /\ idem \in [Key -> {"ABSENT", "IN_FLIGHT", "COMPLETED"}]
  /\ saved \in [Key -> Request \cup {Nobody}]
  /\ lapsed \subseteq Key
  /\ unsettled \subseteq Key
  /\ faults \in 0 .. MaxFaults

Recorded == Range(rows) \cup buffered

(* One key makes at most one transaction, by either route, as long as the  *)
(* key itself did not fail.                                                *)
OncePerKey ==
  \A q, r \in Recorded :
    q # r /\ key(q) = key(r) => key(q) \in lapsed \cup {NoKey}

(* Whoever is answered gets the answer to the key and, between requests of *)
(* the synchronous route, to the payload that it sent.                     *)
AnswersMatch ==
  \A r \in Request : named[r] # Nobody =>
    LET q == named[r]
    IN /\ key(q) = key(r)
       /\ call[q].route = "sync" /\ call[r].route = "sync" => pay(q) = pay(r)

(* A key is IN_FLIGHT only while a request that carries it is at work, or  *)
(* after one was left unsettled: nobody else is answered 409 for a day.    *)
NoLockout ==
  \A k \in Key : idem[k] = "IN_FLIGHT" =>
    k \in unsettled \/ \E r \in Request : key(r) = k /\ pc[r] \in Working

(* The row locks serialise the transactions of an account: each cash       *)
(* transaction whose sum with the earlier ones of the same account within  *)
(* 24 hours reaches the threshold has a CTR.                               *)
Before(i) ==
  {rows[j] : j \in {j \in 1 .. i - 1 : /\ pay(rows[j]).cash
                                       /\ pay(rows[j]).from = pay(rows[i]).from
                                       /\ InDay(rows[j], rows[i])}}
AggregateReported ==
  \A i \in 1 .. Len(rows) :
    /\ pay(rows[i]).cash
    /\ Total(Before(i)) + pay(rows[i]).amount >= Threshold
    => "CTR" \in filed[rows[i]]

(* No transaction commits while one of its accounts is frozen or waits for *)
(* customer identification, although both were read from a replica.        *)
OpenAccounts ==
  [][\A r \in Request : r \in Range(rows') \ Range(rows) =>
       \A a \in Accounts(r) : status[a] \notin {"FROZEN", "CIP_PENDING"}]_vars

(* The answer to a freeze says that all transactions are blocked: none     *)
(* commits on an account between its freeze and its unfreeze.              *)
FreezeStands ==
  [][\A r \in Request : r \in Range(rows') \ Range(rows) =>
       Accounts(r) \cap frozen_at = {}]_vars
=============================================================================
