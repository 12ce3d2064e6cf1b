--------------------------- MODULE AccountStatus ----------------------------
(***************************************************************************)
(* The status of accounts: routers/accounts.py and the rescreening of      *)
(* services/watchlist_sync.py.  Each handler reads the account without a   *)
(* lock, only to answer 404 and to fill the audit entry, then writes the   *)
(* status whatever it was; its UPDATE waits for the lock of the row and    *)
(* is one step here.  The replica follows the primary, account by account. *)
(***************************************************************************)
EXTENDS Naturals

CONSTANTS
  Account,
  Imported,   \* accounts that start with a history: created by an import
              \* before their customer was identified, or under review
  MaxActs     \* bound: requests that write a status

ASSUME AccountAssumption == Imported \subseteq Account /\ MaxActs \in Nat

VARIABLES
  status,     \* status[a]: accounts.status on the primary
  replica,    \* replica[a]: the same column as the read replica shows it
  frozen_at,  \* accounts whose frozen_at is set
  edd,        \* edd[a]: status of the latest edd_requests row for a
  holder,     \* holder[a]: the transaction that holds the lock of the row
  acts        \* status-writing requests so far

accountVars == <<status, replica, frozen_at, edd, holder, acts>>

Nobody == "NULL"
AccountStatuses == {"ACTIVE", "FROZEN", "CIP_PENDING", "EDD_REQUIRED",
                    "HELD_FOR_REVIEW", "CLOSED"}

(* Onboarding opens an account ACTIVE.                                     *)
AccountInit ==
  /\ \E history \in [Imported -> {"CIP_PENDING", "EDD_REQUIRED"}] :
       /\ status = [a \in Account |-> IF a \in Imported THEN history[a]
                                     ELSE "ACTIVE"]
       /\ edd = [a \in Account |-> IF status[a] = "EDD_REQUIRED" THEN "PENDING"
                                  ELSE "NONE"]
  /\ replica = status
  /\ frozen_at = {}
  /\ holder = [a \in Account |-> Nobody]
  /\ acts = 0

(* UPDATE accounts SET status = s: waits for the lock, looks at nothing.   *)
SetStatus(a, s) ==
  /\ holder[a] = Nobody
  /\ acts < MaxActs
  /\ acts' = acts + 1
  /\ status' = [status EXCEPT ![a] = s]
  /\ UNCHANGED <<replica, holder>>

VerifyCip(a) ==
  /\ SetStatus(a, "ACTIVE")
  /\ UNCHANGED <<frozen_at, edd>>

Freeze(a) ==
  /\ SetStatus(a, "FROZEN")
  /\ frozen_at' = frozen_at \cup {a}
  /\ UNCHANGED edd

Unfreeze(a) ==
  /\ SetStatus(a, "ACTIVE")
  /\ frozen_at' = frozen_at \ {a}
  /\ UNCHANGED edd

RequestEdd(a) ==
  /\ SetStatus(a, "EDD_REQUIRED")
  /\ edd' = [edd EXCEPT ![a] = "PENDING"]
  /\ UNCHANGED frozen_at

(* No handler asks whether the request is still PENDING.                   *)
DecideEdd(a, decision) ==
  /\ edd[a] # "NONE"
  /\ SetStatus(a, IF decision = "APPROVED" THEN "ACTIVE"
                  ELSE IF decision = "EXIT_RELATIONSHIP" THEN "CLOSED"
                  ELSE "HELD_FOR_REVIEW")
  /\ edd' = [edd EXCEPT ![a] = "RESOLVED"]
  /\ UNCHANGED frozen_at

(* A rescreening that finds the owner on a watchlist.                      *)
Rescreen(a) ==
  /\ SetStatus(a, "EDD_REQUIRED")
  /\ UNCHANGED <<frozen_at, edd>>

Replicate(a) ==
  /\ replica[a] # status[a]
  /\ replica' = [replica EXCEPT ![a] = status[a]]
  /\ UNCHANGED <<status, frozen_at, edd, holder, acts>>

AccountStep(a) ==
  \/ VerifyCip(a)
  \/ Freeze(a)
  \/ Unfreeze(a)
  \/ RequestEdd(a)
  \/ \E d \in {"APPROVED", "EXIT_RELATIONSHIP", "RESTRICTED"} : DecideEdd(a, d)
  \/ Rescreen(a)
  \/ Replicate(a)
=============================================================================
