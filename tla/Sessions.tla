------------------------------ MODULE Sessions ------------------------------
(***************************************************************************)
(* Login sessions of one local user: routers/auth.py and services/auth.py. *)
(* Access tokens are stateless and carry a role and a token version; they  *)
(* are refused when Redis answers and knows a higher version.  Refresh     *)
(* tokens are rotated within a family.  Revoking a user's sessions raises  *)
(* the version in Postgres first and in Redis afterwards.  Redis runs with *)
(* a memory limit and may drop any key (allkeys-lru).  The Supabase branch *)
(* of every handler is configured off.                                     *)
(***************************************************************************)
EXTENDS Naturals, Sequences, FiniteSets

CONSTANTS
  Call,        \* requests that overlap
  Role,        \* roles an administrator may assign
  MaxVersion,  \* bound: users.token_version
  MaxTokens,   \* bound: refresh tokens issued
  MaxLost      \* bound: failing Postgres or Redis writes, dropped keys

ASSUME SessionAssumption ==
  /\ Role # {} /\ MaxVersion \in Nat \ {0} /\ MaxTokens \in Nat
  /\ MaxLost \in Nat /\ IsFiniteSet(Call)

VARIABLES
  role, version, mfaOn,  \* the row of users: role, token_version, mfa_enabled
  cached,    \* user:token_version in Redis, 0 when there is none
  access,    \* access tokens issued
  tokens,    \* refresh tokens issued: a sequence
  revoked,   \* token:revoked
  deadFamily,\* token:family_revoked
  tickets,   \* mfa:ticket
  call,      \* what each request is about to do
  answered,  \* the highest version a revocation answered with (history)
  contested, \* families of which a token was exchanged twice at once, or
             \* of whose revoked tokens Redis dropped one (history)
  muddled,   \* two revocations overlapped (history)
  evicted,   \* Redis dropped user:token_version, no revocation wrote it since (history)
  lost       \* failed writes, "db" or "redis", and dropped keys, "memory" (history)

sessionVars == <<role, version, mfaOn, cached, access, tokens, revoked,
                 deadFamily, tickets, call, answered, contested, muddled, evicted,
                 lost>>
userVars  == <<role, version, mfaOn>>
tokenVars == <<access, tokens, revoked, deadFamily, tickets>>
history   == <<answered, contested, muddled, evicted, lost>>

Idle == [at |-> "idle", role |-> "NULL", ver |-> 0, tok |-> 0]
NoFamily == 0

(* A request with the role and the version it has read, or the refresh     *)
(* token or ticket it was given.                                           *)
Goes(c, at, r, v, t) ==
  call' = [call EXCEPT ![c] = [at |-> at, role |-> r, ver |-> v, tok |-> t]]
Next1(c, at) == Goes(c, at, call[c].role, call[c].ver, call[c].tok)
Ends(c) == call' = [call EXCEPT ![c] = Idle]
At(c, at) == call[c].at = at

Lost(where) == Len(lost) < MaxLost /\ lost' = Append(lost, where)

(* A new user, who has never logged in.                                    *)
SignedOut ==
  /\ version = 1 /\ mfaOn \in BOOLEAN
  /\ cached = 0 /\ access = {} /\ tokens = <<>> /\ revoked = {}
  /\ deadFamily = {} /\ tickets = {}
  /\ call = [c \in Call |-> Idle]
  /\ answered = 0 /\ contested = {} /\ muddled = FALSE
  /\ evicted = FALSE /\ lost = <<>>

SessionInit == role \in Role /\ SignedOut

(* A request with an access token is let in: whenever Redis does not       *)
(* answer, or has no version, or one that is not above the token's.        *)
Accepted(a, answers) == answers => cached <= a.ver

(* Variant of IssuedVersion: the version the row has by now.               *)
IssuedVersionNow(c) == version

(* Tokens of a login by password carry the version the login has read.     *)
IssuedVersion(c) == call[c].ver

(* A pair of tokens for a role; without an explicit version claim both     *)
(* carry version 1.                                                        *)
Issue(r, v, family) ==
  /\ Len(tokens) < MaxTokens
  /\ access' = access \cup {[role |-> r, ver |-> v]}
  /\ tokens' = Append(tokens, [family |-> family, role |-> r])

-----------------------------------------------------------------------------
(* Login with a password.                                                  *)
LoginRead(c) ==
  /\ At(c, "idle")
  /\ Goes(c, "login", role, version, IF mfaOn THEN 1 ELSE 0)
  /\ UNCHANGED <<userVars, cached, tokenVars, history>>

(* Tokens of the version that was read, the refresh token opening a family *)
(* of its own; or a ticket with the role, good for five minutes.           *)
LoginIssue(c) ==
  /\ At(c, "login")
  /\ IF call[c].tok = 1
     THEN tickets' = tickets \cup {call[c].role} /\ UNCHANGED <<access, tokens>>
     ELSE Issue(call[c].role, IssuedVersion(c), Len(tokens) + 1) /\ UNCHANGED tickets
  /\ Ends(c)
  /\ UNCHANGED <<userVars, cached, revoked, deadFamily, history>>

(* The second factor: the ticket is read, the code checked (module         *)
(* TwoFactor), the ticket deleted; the tokens have no version and no       *)
(* family.                                                                 *)
VerifyRead(c) ==
  /\ At(c, "idle")
  /\ \E r \in tickets : Goes(c, "verify", r, 1, 0)
  /\ UNCHANGED <<userVars, cached, tokenVars, history>>

VerifyIssue(c) ==
  /\ At(c, "verify")
  /\ tickets' = tickets \ {call[c].role}
  /\ Issue(call[c].role, 1, NoFamily)
  /\ Ends(c)
  /\ UNCHANGED <<userVars, cached, revoked, deadFamily, history>>

TicketExpires ==
  /\ \E r \in tickets : tickets' = tickets \ {r}
  /\ UNCHANGED <<userVars, cached, access, tokens, revoked, deadFamily, call,
                 history>>

-----------------------------------------------------------------------------
(* The exchange of a refresh token.                                        *)
Family(t) == tokens[t].family

ExchangeFamily(c, t) ==
  /\ At(c, "idle") /\ t \in DOMAIN tokens /\ Family(t) \notin deadFamily
  /\ Goes(c, "exchange", tokens[t].role, 1, t)
  /\ UNCHANGED <<userVars, cached, tokenVars, history>>

(* A token that was used before betrays its family; without a family the   *)
(* request is only refused.                                                *)
ExchangeToken(c) ==
  LET t == call[c].tok
      f == Family(t) IN
  /\ At(c, "exchange")
  /\ IF t \notin revoked THEN Next1(c, "rotate")
     ELSE IF f # NoFamily THEN Next1(c, "compromise")
     ELSE Ends(c)
  /\ contested' = IF \E d \in Call \ {c} : At(d, "rotate") /\ call[d].tok = t
                  THEN contested \cup {f} ELSE contested
  /\ UNCHANGED <<userVars, cached, tokenVars, answered, muddled, evicted, lost>>

(* Variant of Used: the old token is not revoked.                          *)
UsedKept(t) == revoked

Used(t) == revoked \cup {t}

(* Redis refusing the write answers 500 and issues nothing.                *)
Rotate(c) ==
  /\ At(c, "rotate")
  /\ \/ /\ revoked' = Used(call[c].tok)
        /\ Issue(call[c].role, 1, Family(call[c].tok))
        /\ UNCHANGED lost
     \/ Lost("redis") /\ UNCHANGED <<access, tokens, revoked>>
  /\ Ends(c)
  /\ UNCHANGED <<userVars, cached, deadFamily, tickets, answered, contested,
                 muddled, evicted>>

CompromiseFamily(c) ==
  /\ At(c, "compromise")
  /\ deadFamily' = deadFamily \cup {Family(call[c].tok)}
  /\ Next1(c, "increment")
  /\ UNCHANGED <<userVars, cached, access, tokens, revoked, tickets, history>>

(* INCR makes a missing version 1, whatever the row says.                  *)
CompromiseCache(c) ==
  /\ At(c, "increment") /\ cached < MaxVersion
  /\ cached' = cached + 1
  /\ Next1(c, "bump")
  /\ UNCHANGED <<userVars, tokenVars, history>>

(* Variant of Bumped: the row keeps its version.                           *)
BumpedNot == version

Bumped == version + 1

CompromiseRow(c) ==
  /\ At(c, "bump")
  /\ \/ version < MaxVersion /\ version' = Bumped /\ UNCHANGED lost
     \/ Lost("db") /\ UNCHANGED version
  /\ Ends(c)
  /\ UNCHANGED <<role, mfaOn, cached, tokenVars, answered, contested, muddled,
                 evicted>>

(* An error of Redis is logged and the answer the same.                    *)
Logout(t) ==
  /\ t \in DOMAIN tokens \ revoked
  /\ \/ revoked' = revoked \cup {t} /\ UNCHANGED lost
     \/ Lost("redis") /\ UNCHANGED revoked
  /\ UNCHANGED <<userVars, cached, access, tokens, deadFamily, tickets, call,
                 answered, contested, muddled, evicted>>

(* At its memory limit Redis drops the key that was used least recently.   *)
Evict ==
  /\ \/ /\ cached # 0 /\ cached' = 0 /\ evicted' = TRUE
        /\ UNCHANGED <<revoked, deadFamily, contested>>
     \/ /\ \E t \in revoked : /\ revoked' = revoked \ {t}
                             /\ contested' = contested \cup {Family(t)}
        /\ UNCHANGED <<cached, deadFamily, evicted>>
     \/ /\ \E f \in deadFamily : deadFamily' = deadFamily \ {f}
        /\ UNCHANGED <<cached, revoked, contested, evicted>>
  /\ Lost("memory")
  /\ UNCHANGED <<userVars, access, tokens, tickets, call, answered, muddled>>

-----------------------------------------------------------------------------
(* An administrator assigns a role and then revokes the sessions; or the   *)
(* user or an administrator only revokes them.                             *)
ChangeRole(c) ==
  /\ At(c, "idle")
  /\ \E r \in Role : role' = r /\ Goes(c, "revoke", r, 0, 1)
  /\ UNCHANGED <<version, mfaOn, cached, tokenVars, history>>

RevokeStart(c) ==
  /\ At(c, "idle")
  /\ Goes(c, "revoke", "NULL", 0, 0)
  /\ UNCHANGED <<userVars, cached, tokenVars, history>>

(* revoke_user_sessions.  When the UPDATE fails the version is taken to    *)
(* be 1.                                                                   *)
RevokeRow(c) ==
  /\ At(c, "revoke")
  /\ \/ /\ version < MaxVersion /\ version' = version + 1 /\ UNCHANGED lost
        /\ Goes(c, "publish", call[c].role, version + 1, call[c].tok)
     \/ /\ Lost("db") /\ UNCHANGED version
        /\ Goes(c, "publish", call[c].role, 1, call[c].tok)
  /\ muddled' = (muddled \/ \E d \in Call : At(d, "publish"))
  /\ UNCHANGED <<role, mfaOn, cached, tokenVars, answered, contested, evicted>>

(* Variant of Published: INCR, as the compromise handler does.             *)
PublishedIncrement(c) == cached + 1

Published(c) == call[c].ver

RevokeCache(c) ==
  /\ At(c, "publish")
  /\ \/ cached' = Published(c) /\ evicted' = FALSE /\ UNCHANGED lost
     \/ Lost("redis") /\ UNCHANGED <<cached, evicted>>
  /\ answered' = IF call[c].ver > answered THEN call[c].ver ELSE answered
  /\ Ends(c)
  /\ UNCHANGED <<userVars, tokenVars, contested, muddled>>

SessionNext ==
  \/ \E c \in Call :
       \/ LoginRead(c) \/ LoginIssue(c) \/ VerifyRead(c) \/ VerifyIssue(c)
       \/ ExchangeToken(c) \/ Rotate(c)
       \/ CompromiseFamily(c) \/ CompromiseCache(c) \/ CompromiseRow(c)
       \/ ChangeRole(c) \/ RevokeStart(c) \/ RevokeRow(c) \/ RevokeCache(c)
       \/ \E t \in DOMAIN tokens : ExchangeFamily(c, t)
  \/ \E t \in DOMAIN tokens : Logout(t)
  \/ TicketExpires \/ Evict

SessionSpec == SessionInit /\ [][SessionNext]_sessionVars

-----------------------------------------------------------------------------
SessionTypeOK ==
  /\ role \in Role /\ version \in 1..MaxVersion /\ cached \in 0..MaxVersion
  /\ access \subseteq [role : Role, ver : 1..MaxVersion]
  /\ tokens \in Seq([family : 0..MaxTokens, role : Role])
  /\ revoked \subseteq DOMAIN tokens /\ deadFamily \subseteq 1..MaxTokens
  /\ tickets \subseteq Role /\ answered \in 0..MaxVersion

(* No write failed and no two revocations overlapped.                      *)
Unfailing == \A i \in DOMAIN lost : lost[i] = "memory"
Clean == Unfailing /\ ~muddled

(* Redis has the version of the last revocation, not one lost since.       *)
VersionKept == Clean /\ ~evicted

(* "immediately revoking all outstanding sessions": once a revocation has  *)
(* answered, an access token of an older version is let in only by a check *)
(* that Redis did not answer, whatever logins, exchanges and compromise    *)
(* handlers run around it, as long as no write failed, no two revocations  *)
(* overlapped and Redis still has the version (services/auth.py:336).      *)
RevocationStands ==
  VersionKept => /\ cached >= answered
          /\ \A a \in access, answers \in BOOLEAN :
               a.ver < answered /\ Accepted(a, answers) => ~answers

(* No access token that Redis is asked about is accepted with a role the   *)
(* user no longer has, unless the change is still under way: not one whose *)
(* login read the old row, not one from a ticket or a refresh token that   *)
(* remembers the old role (routers/auth.py:670).                           *)
RoleStands ==
  VersionKept /\ (\A c \in Call : ~(call[c].at \in {"revoke", "publish"} /\ call[c].tok = 1))
    => \A a \in access, answers \in BOOLEAN :
         Accepted(a, answers) => a.role = role \/ ~answers

(* The cached version outruns the row only by compromise handlers between  *)
(* their two writes or by those whose second one failed: otherwise the     *)
(* tokens of the user's next login by password alone, which are of the     *)
(* row's version, are let in (routers/auth.py:294).  Nothing is said of a  *)
(* second factor and of exchanges, whose tokens are of version 1.          *)
FreshLoginAccepted ==
  cached <= version + Cardinality({c \in Call : At(c, "bump")})
                    + Cardinality({i \in DOMAIN lost : lost[i] = "db"})

(* A version in force admits the tokens of logins by password that read it *)
(* and, while Redis answers and has it, none from before an answered       *)
(* revocation (services/auth.py:336).                                      *)
TokensFollowVersion == RevocationStands /\ FreshLoginAccepted

(* Unless one token was exchanged twice at once or Redis dropped a revoked *)
(* one, a family has a single refresh token that still works: the last one *)
(* (routers/auth.py:778).                                                  *)
SoleSuccessor ==
  \A f \in 1..MaxTokens \ contested :
    \A t, u \in DOMAIN tokens \ revoked :
      Family(t) = f /\ Family(u) = f => t = u
=============================================================================
