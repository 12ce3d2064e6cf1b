------------------------------- MODULE Lockout ------------------------------
(***************************************************************************)
(* The lockout of one user name: check_account_lockout,                    *)
(* record_failed_login and reset_failed_logins of services/auth.py around  *)
(* the password check of routers/auth.py.  A counter and a lock in Redis,  *)
(* each with a lifetime.                                                   *)
(***************************************************************************)
EXTENDS Naturals, FiniteSets

CONSTANTS
  Login,     \* logins that overlap
  Threshold, \* LOCKOUT_THRESHOLD
  Duration,  \* LOCKOUT_WINDOW_SECONDS and LOCKOUT_DURATION_SECONDS
  MaxMinute, \* bound: time
  MaxKilled  \* bound: logins lost to a kill or a Redis error

ASSUME LockoutAssumption ==
  /\ IsFiniteSet(Login)
  /\ Threshold \in Nat \ {0, 1} /\ Duration \in Nat \ {0}
  /\ MaxMinute \in Nat /\ MaxKilled \in Nat

VARIABLES
  minute,
  attempts, attemptsEnd, \* failed_logins: the counter and its expiry
  lockEnd,               \* failed_logins:lockout: its expiry
  login,                 \* login[l]: what it is about to do
  killed                 \* logins lost (history)

lockoutVars == <<minute, attempts, attemptsEnd, lockEnd, login, killed>>
Never == 0

LockoutInit ==
  /\ minute = 0 /\ attempts = 0 /\ attemptsEnd = Never /\ lockEnd = Never
  /\ login = [l \in Login |-> "idle"] /\ killed = 0

Step(l, from, to) == login[l] = from /\ login' = [login EXCEPT ![l] = to]

check_account_lockout(l) ==
  /\ Step(l, "idle", "verify") /\ lockEnd = Never
  /\ UNCHANGED <<minute, attempts, attemptsEnd, lockEnd, killed>>

(* INCR, then EXPIRE for the first failure, then the lock.                 *)
record_failed_login(l) ==
  /\ attempts' = attempts + 1
  /\ Step(l, "verify", IF attempts = 0 THEN "expire"
                       ELSE IF attempts + 1 >= Threshold THEN "lock"
                       ELSE "idle")
  /\ UNCHANGED <<minute, attemptsEnd, lockEnd, killed>>

(* Variant of CounterEnd: the counter is left without an expiry.           *)
CounterEndless == Never

CounterEnd == IF attempts = 0 THEN Never ELSE minute + Duration

SetExpiry(l) ==
  /\ Step(l, "expire", "idle")
  /\ attemptsEnd' = CounterEnd
  /\ UNCHANGED <<minute, attempts, lockEnd, killed>>

SetLock(l) ==
  /\ Step(l, "lock", "idle")
  /\ lockEnd' = minute + Duration
  /\ UNCHANGED <<minute, attempts, attemptsEnd, killed>>

(* Both keys are deleted, whether this login began before the lock or not. *)
reset_failed_logins(l) ==
  /\ Step(l, "verify", "idle")
  /\ attempts' = 0 /\ attemptsEnd' = Never /\ lockEnd' = Never
  /\ UNCHANGED <<minute, killed>>

(* The process is killed or Redis raises, which is logged and passed over. *)
LoginLost(l) ==
  /\ killed < MaxKilled /\ killed' = killed + 1
  /\ login[l] # "idle" /\ login' = [login EXCEPT ![l] = "idle"]
  /\ UNCHANGED <<minute, attempts, attemptsEnd, lockEnd>>

(* A password check may take its time; a Redis command is cut off after a  *)
(* second, so the unit of time does not end between INCR and EXPIRE.       *)
Minute ==
  /\ minute < MaxMinute /\ minute' = minute + 1
  /\ \A l \in Login : login[l] \in {"idle", "verify"}
  /\ attempts' = IF attemptsEnd = minute' THEN 0 ELSE attempts
  /\ attemptsEnd' = IF attemptsEnd = minute' THEN Never ELSE attemptsEnd
  /\ lockEnd' = IF lockEnd = minute' THEN Never ELSE lockEnd
  /\ UNCHANGED <<login, killed>>

LockoutNext ==
  \/ Minute
  \/ \E l \in Login :
       check_account_lockout(l) \/ record_failed_login(l) \/ SetExpiry(l)
       \/ SetLock(l) \/ reset_failed_logins(l) \/ LoginLost(l)

LockoutTypeOK ==
  /\ attempts \in Nat /\ attemptsEnd \in Nat /\ lockEnd \in Nat
  /\ login \in [Login -> {"idle", "verify", "expire", "lock"}]

(* The counter never gets further than the threshold plus the logins that  *)
(* were past the check when the lock was set, also after a lock has ended: *)
(* it never outlives the lock, so that no single slip locks an account     *)
(* again - unless a kill came between INCR and EXPIRE (auth.py:44).        *)
AttemptsBounded ==
  killed = 0 => attempts < Threshold + Cardinality(Login)
=============================================================================
