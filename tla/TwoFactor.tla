------------------------------ MODULE TwoFactor -----------------------------
(***************************************************************************)
(* The second factor of one user: the /mfa endpoints of routers/auth.py    *)
(* over services/mfa.py.  A setup waits in Redis until a code confirms it; *)
(* an authenticator code is remembered for 90 seconds once used; recovery  *)
(* codes are read from the row, compared, and the rest written back.  Time *)
(* counts in steps of 30 seconds.                                          *)
(***************************************************************************)
EXTENDS Naturals, FiniteSets

CONSTANTS
  Verifier,   \* requests that overlap
  Recovery,   \* recovery codes of one setup
  MaxSetups,  \* bound: setups begun
  MaxTime     \* bound: time steps

ASSUME FactorAssumption == MaxSetups \in Nat /\ MaxTime \in Nat

VARIABLES
  time,
  setups,     \* setups begun: they are numbered
  pending,    \* mfa:pending: the setup that waits, 0 when none does
  secret,     \* the row: the setup mfa_secret comes from, 0 when it is NULL
  codes,      \* the row: recovery_codes, each <<setup, code>>
  consumed,   \* mfa:totp_consumed: <<code, expiry>>
  verify,     \* what each request has read
  used,       \* authenticator codes accepted (history)
  repeated,   \* one of them twice (history)
  spent,      \* recovery codes accepted (history)
  raced       \* requests wrote while another one was under way (history)

factorVars == <<time, setups, pending, secret, codes, consumed, verify, used,
                repeated, spent, raced>>
usage == <<used, repeated, spent>>

Tries(step, s, list, c) == [at |-> step, setup |-> s, codes |-> list, code |-> c]
Resting == Tries("idle", 0, {}, 0)

(* The code an authenticator shows for a secret at a step; a code is good  *)
(* one step early and one step late.                                       *)
AuthCode == (1..MaxSetups) \X (0..MaxTime + 1)
verify_totp_code(s, c) == c[1] = s /\ c[2] \in (IF time = 0 THEN 0 ELSE time - 1)..time + 1

FactorInit ==
  /\ time = 0 /\ setups = 0 /\ pending = 0 /\ secret = 0 /\ codes = {}
  /\ consumed = {} /\ verify = [v \in Verifier |-> Resting]
  /\ used = {} /\ repeated = FALSE /\ spent = {} /\ raced = FALSE

Overlaps(v) == raced' = (raced \/ \E w \in Verifier \ {v} : verify[w].at # "idle")
Notes(v, try) == verify' = [verify EXCEPT ![v] = try]
Rests(v) == Notes(v, Resting)

(* A later setup replaces the one that waits.                              *)
Setup ==
  /\ setups < MaxSetups
  /\ setups' = setups + 1 /\ pending' = setups + 1
  /\ UNCHANGED <<time, secret, codes, consumed, verify, usage, raced>>

EnableRead(v) ==
  /\ verify[v].at = "idle" /\ pending # 0
  /\ \E c \in AuthCode :
       /\ verify_totp_code(pending, c)
       /\ Notes(v, Tries("enable", pending, {}, 0))
  /\ UNCHANGED <<time, setups, pending, secret, codes, consumed, usage, raced>>

EnableWrite(v) ==
  /\ verify[v].at = "enable"
  /\ secret' = verify[v].setup /\ codes' = {secret'} \X Recovery
  /\ Notes(v, Tries("enabled", verify[v].setup, {}, 0))
  /\ Overlaps(v)
  /\ UNCHANGED <<time, setups, pending, consumed, usage>>

(* Whichever setup waits by now is forgotten; ten minutes do the same.     *)
EnableForget(v) ==
  /\ verify[v].at = "enabled"
  /\ pending' = 0 /\ Rests(v)
  /\ UNCHANGED <<time, setups, secret, codes, consumed, usage, raced>>

PendingExpires ==
  /\ pending # 0 /\ pending' = 0
  /\ UNCHANGED <<time, setups, secret, codes, consumed, verify, usage, raced>>

(* The row is read, then Redis is asked for a code of six digits; one that *)
(* does not verify is answered 401 and changes nothing.                    *)
VerifyCode(v) ==
  /\ verify[v].at = "idle" /\ secret # 0
  /\ \E c \in AuthCode :
       /\ verify_totp_code(secret, c) /\ \A e \in consumed : e[1] # c
       /\ Notes(v, Tries("code", secret, {}, c[2]))
  /\ UNCHANGED <<time, setups, pending, secret, codes, consumed, usage, raced>>

(* Variant of Remembered: for one minute.                                  *)
RememberedShort == 2

Remembered == 3

AcceptCode(v) ==
  LET c == <<verify[v].setup, verify[v].code>> IN
  /\ verify[v].at = "code"
  /\ consumed' = {e \in consumed : e[1] # c} \cup {<<c, time + Remembered>>}
  /\ used' = used \cup {c} /\ repeated' = (repeated \/ c \in used)
  /\ Rests(v) /\ Overlaps(v)
  /\ UNCHANGED <<time, setups, pending, secret, codes, spent>>

(* A recovery code is looked for in the list that was read ...             *)
VerifyRecovery(v) ==
  /\ verify[v].at = "idle" /\ secret # 0
  /\ \E r \in Recovery : <<secret, r>> \in codes /\
       Notes(v, Tries("recovery", secret, codes, r))
  /\ UNCHANGED <<time, setups, pending, secret, codes, consumed, usage, raced>>

(* ... and the rest of that list is written.                               *)
ConsumeRecovery(v) ==
  LET r == <<verify[v].setup, verify[v].code>> IN
  /\ verify[v].at = "recovery"
  /\ codes' = verify[v].codes \ {r} /\ spent' = spent \cup {r}
  /\ Rests(v) /\ Overlaps(v)
  /\ UNCHANGED <<time, setups, pending, secret, consumed, used, repeated>>

Disable ==
  /\ secret # 0
  /\ secret' = 0 /\ codes' = {}
  /\ raced' = (raced \/ \E v \in Verifier : verify[v].at # "idle")
  /\ UNCHANGED <<time, setups, pending, consumed, verify, usage>>

Tick ==
  /\ time < MaxTime /\ time' = time + 1
  /\ consumed' = {e \in consumed : e[2] > time'}
  /\ UNCHANGED <<setups, pending, secret, codes, verify, usage, raced>>

FactorNext ==
  \/ \E v \in Verifier :
       \/ EnableRead(v) \/ EnableWrite(v) \/ EnableForget(v)
       \/ VerifyCode(v) \/ AcceptCode(v) \/ VerifyRecovery(v) \/ ConsumeRecovery(v)
  \/ Setup \/ PendingExpires \/ Disable \/ Tick

FactorTypeOK ==
  /\ secret \in 0..MaxSetups /\ codes \subseteq (1..MaxSetups) \X Recovery
  /\ pending \in 0..setups

(* Unless requests overlap, an authenticator code is accepted once - the   *)
(* 90 seconds outlive the three steps it is good for - a recovery code     *)
(* that was accepted is never in the row again, and the codes in the row   *)
(* are those handed out with the secret in it (routers/auth.py:1103).      *)
UsedOnce ==
  ~raced => /\ ~repeated
            /\ spent \cap codes = {}
            /\ codes \subseteq {secret} \X Recovery
=============================================================================
