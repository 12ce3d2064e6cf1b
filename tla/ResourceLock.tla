---------------------------- MODULE ResourceLock ----------------------------
(***************************************************************************)
(* The pessimistic lease on one alert or case (services/locking.py behind  *)
(* routers/locks.py): a Redis key as the first tier, one row of            *)
(* resource_locks as the second.  A handler is a sequence of steps, one    *)
(* per Redis command or SQL statement; the handlers of all sessions        *)
(* interleave.  A session is one open tab of a user and has one request at *)
(* a time.  Time is kept as the number of ticks each lease has left, so    *)
(* that no clock is needed; requests are short against the 30 s minimum    *)
(* TTL, so time passes only between requests.  Each acquire and refresh    *)
(* names its own TTL (30 to 1800 s).  A lock_token is named by the tab     *)
(* whose acquire drew it: refresh takes the token as an option, so a tab   *)
(* that presents an older token of its own is refused where one that sends *)
(* none is served, and both are behaviours of this model.                  *)
(***************************************************************************)
EXTENDS Naturals, FiniteSets

CONSTANTS
  Session,      \* the tabs that use the lock API
  User,         \* the users
  UserOf,       \* UserOf[s]: the user logged in on s
  Breaker,      \* the users whose role may break a lock (MLRO, ADMIN)
  MaxTTL,       \* ticks of the longest lease a request may ask for
  BypassesRLS,  \* does the database role ignore row level security?
  Faults        \* what may fail: "lost" (Redis drops its keys), "redis",
                \* "db" (a statement raises), "crash" (a handler is cut short)

NoUser == "nobody"
NoTab == 0

ASSUME LockAssumption ==
  /\ UserOf \in [Session -> User]
  /\ Breaker \subseteq User
  /\ NoUser \notin User
  /\ MaxTTL \in Nat \ {0}
  /\ NoTab \notin Session
  /\ BypassesRLS \in BOOLEAN
  /\ Faults \subseteq {"lost", "redis", "db", "crash"}

VARIABLES
  redis,   \* the key aml:lock:...: holder, token, ticks to its expiry
  db,      \* the row of resource_locks
  req,     \* req[s]: the request of s in progress, its next step, and the
           \* lock_token its GET returned; ttl: the lease it asks for
  lease,   \* lease[s]: for how many ticks the last 200 s got still promises
           \* the lock (0: never given, expired, released or broken)
  causes   \* history: what has undermined the Redis tier so far

vars == <<redis, db, req, lease, causes>>

Tab == Session \cup {NoTab}

NoKey == [by |-> NoUser, token |-> NoTab, left |-> 0]
Request(op, at, ttl) == [op |-> op, at |-> at, seen |-> NoTab, ttl |-> ttl]
NoReq == Request("none", "-", 0)

Key == [by : User \cup {NoUser}, token : Tab, left : 0..MaxTTL]
Row == [by : User \cup {NoUser}, token : Tab, left : 0..MaxTTL,
        released : {"yes", "no"}]
Op == {"none", "acquire", "refresh", "release", "force"}
Step == {"-", "set", "get", "own", "persist", "select", "upsert", "expiry",
         "db", "delete"}
Req == [op : Op, at : Step, seen : Tab, ttl : 0..MaxTTL]

At(s, op, at) == req[s].op = op /\ req[s].at = at
Goto(s, at) == req' = [req EXCEPT ![s].at = at]
Done(s) == req' = [req EXCEPT ![s] = NoReq]

Mine(s) == redis.by = UserOf[s]
OwnKey(s, token) == [by |-> UserOf[s], token |-> token, left |-> req[s].ttl]
OwnRow(s) ==
  [by |-> UserOf[s], token |-> s, left |-> req[s].ttl, released |-> "no"]

(* expires_at > NOW() AND released_at IS NULL                              *)
RowLive == db.by # NoUser /\ db.left > 0 /\ db.released = "no"

(* The 200 that ends an acquire or a refresh.                              *)
Grant(s) == lease' = [lease EXCEPT ![s] = req[s].ttl]

(* The lock is given up on behalf of these sessions.                       *)
End(S) == lease' = [s \in Session |-> IF s \in S THEN 0 ELSE lease[s]]
Tabs(u) == {s \in Session : UserOf[s] = u}

Cause(c) == causes' = causes \cup {c}

(* A handler has set the key for its user and not answered yet.            *)
HasSet(s) ==
  \/ req[s].op = "acquire" /\ req[s].at \in {"select", "upsert", "persist"}
  \/ At(s, "refresh", "expiry")

(* Another tab of the user has, or is about to be given, a lease that      *)
(* outlasts the key this request writes.                                   *)
Shortens(s) ==
  \E q \in Tabs(UserOf[s]) \ {s} :
    lease[q] > req[s].ttl \/ (HasSet(q) /\ req[q].ttl > req[s].ttl)

(* The unconditional SET by which a user renews the key; by now it may be  *)
(* another user's.  A tab that asks for less than it had gives up the rest.*)
SetKey(s, token) ==
  /\ redis' = OwnKey(s, token)
  /\ lease' = [lease EXCEPT ![s] = IF @ > req[s].ttl THEN req[s].ttl ELSE @]
  /\ causes' = causes
       \cup {c \in {"raced"} : redis.by \notin {NoUser, UserOf[s]}}
       \cup {c \in {"shortened"} : Shortens(s)}

Init ==
  /\ redis = NoKey
  /\ db = [by |-> NoUser, token |-> NoTab, left |-> 0, released |-> "no"]
  /\ req = [s \in Session |-> NoReq]
  /\ lease = [s \in Session |-> 0]
  /\ causes = {}

-----------------------------------------------------------------------------
(* acquire_resource_lock                                                   *)

AcquireStart(s) ==
  /\ req[s].op = "none"
  /\ \E ttl \in 1..MaxTTL : req' = [req EXCEPT ![s] = Request("acquire", "set", ttl)]
  /\ UNCHANGED <<redis, db, lease, causes>>

(* Variant of AcquireSetNX: SET without NX.                                *)
AcquireSetPlain(s) ==
  /\ At(s, "acquire", "set")
  /\ redis' = OwnKey(s, s)
  /\ Goto(s, "select")
  /\ UNCHANGED <<db, lease, causes>>

(* SET key payload NX EX ttl                                               *)
AcquireSetNX(s) ==
  /\ At(s, "acquire", "set")
  /\ IF redis.by = NoUser
     THEN redis' = OwnKey(s, s) /\ Goto(s, "select")
     ELSE redis' = redis /\ Goto(s, "get")
  /\ UNCHANGED <<db, lease, causes>>

(* Variant of AcquireGet: the caller's own key is not recognised.          *)
AcquireGetNotReentrant(s) ==
  /\ At(s, "acquire", "get")
  /\ IF redis.by = NoUser THEN Goto(s, "select") /\ Cause("fallback")
                          ELSE Done(s) /\ UNCHANGED causes
  /\ UNCHANGED <<redis, db, lease>>

(* GET key: the caller's own key is renewed, another user's is a 409, and  *)
(* a key that has gone meanwhile leaves the decision to the table.         *)
AcquireGet(s) ==
  /\ At(s, "acquire", "get")
  /\ \/ redis.by = NoUser /\ Goto(s, "select") /\ Cause("fallback")
     \/ Mine(s) /\ Goto(s, "own") /\ UNCHANGED causes
     \/ ~Mine(s) /\ redis.by # NoUser /\ Done(s) /\ UNCHANGED causes
  /\ UNCHANGED <<redis, db, lease>>

AcquireSetOwn(s) ==
  /\ At(s, "acquire", "own")
  /\ SetKey(s, s)
  /\ Goto(s, "persist")
  /\ UNCHANGED db

(* _persist_lock_to_db overwrites the row whoever holds it, and swallows   *)
(* its exceptions.                                                         *)
AcquirePersist(s) ==
  /\ At(s, "acquire", "persist")
  /\ \/ db' = OwnRow(s)
     \/ "db" \in Faults /\ db' = db
  /\ Grant(s) /\ Done(s)
  /\ UNCHANGED <<redis, causes>>

(* The SELECT of _persist_and_validate_db_lock.  A 409 leaves the key this *)
(* request may have set; an exception is logged and the lock granted.      *)
AcquireSelect(s) ==
  /\ At(s, "acquire", "select")
  /\ \/ RowLive /\ db.by # UserOf[s] /\ Done(s) /\ UNCHANGED lease
     \/ ~(RowLive /\ db.by # UserOf[s]) /\ Goto(s, "upsert") /\ UNCHANGED lease
     \/ "db" \in Faults /\ Grant(s) /\ Done(s)
  /\ UNCHANGED <<redis, db, causes>>

(* INSERT ... ON CONFLICT DO UPDATE, a later statement at READ COMMITTED.  *)
AcquireUpsert(s) ==
  /\ At(s, "acquire", "upsert")
  /\ \/ db' = OwnRow(s)
     \/ "db" \in Faults /\ db' = db
  /\ Grant(s) /\ Done(s)
  /\ UNCHANGED <<redis, causes>>

(* A Redis command of an acquire raises, with or without having taken      *)
(* effect: the table decides.                                              *)
AcquireRedisError(s) ==
  /\ "redis" \in Faults
  /\ req[s].op = "acquire" /\ req[s].at \in {"set", "get", "own"}
  /\ \/ redis' = redis
     \/ /\ req[s].at = "own" \/ (req[s].at = "set" /\ redis.by = NoUser)
        /\ redis' = OwnKey(s, s)
  /\ Goto(s, "select")
  /\ Cause("fallback")
  /\ UNCHANGED <<db, lease>>

-----------------------------------------------------------------------------
(* refresh_resource_lock: lock_token is optional in the request            *)

RefreshStart(s) ==
  /\ req[s].op = "none"
  /\ \E ttl \in 1..MaxTTL : req' = [req EXCEPT ![s] = Request("refresh", "get", ttl)]
  /\ UNCHANGED <<redis, db, lease, causes>>

(* A request with a token fails against a lock another tab acquired; one   *)
(* without a token never fails.                                            *)
TokenFails(s, stored) == stored # s

RefreshGet(s) ==
  /\ At(s, "refresh", "get")
  /\ \/ redis.by = NoUser /\ Goto(s, "db")
     \/ "redis" \in Faults /\ Goto(s, "db")
     \/ redis.by # NoUser /\ (~Mine(s) \/ TokenFails(s, redis.token)) /\ Done(s)
     \/ /\ Mine(s)
        /\ req' = [req EXCEPT ![s].at = "set", ![s].seen = redis.token]
  /\ UNCHANGED <<redis, db, lease, causes>>

(* Writes back what the GET read, whatever the key holds now.              *)
RefreshSet(s) ==
  /\ At(s, "refresh", "set")
  /\ SetKey(s, req[s].seen)
  /\ Goto(s, "expiry")
  /\ UNCHANGED db

(* The SET of a refresh raises, with or without having taken effect, and   *)
(* the table decides.                                                      *)
RefreshRedisError(s) ==
  /\ "redis" \in Faults
  /\ At(s, "refresh", "set")
  /\ \/ SetKey(s, req[s].seen)
     \/ UNCHANGED <<redis, lease, causes>>
  /\ Goto(s, "db")
  /\ UNCHANGED db

(* _update_db_expiry sets no tenant: no row under row level security, any  *)
(* holder's row without it.                                                *)
RefreshExpiry(s) ==
  /\ At(s, "refresh", "expiry")
  /\ IF BypassesRLS /\ db.by # NoUser THEN \/ db' = [db EXCEPT !.left = req[s].ttl]
                                           \/ "db" \in Faults /\ db' = db
                                      ELSE db' = db
  /\ Grant(s) /\ Done(s)
  /\ UNCHANGED <<redis, causes>>

(* _refresh_db_lease: the UPDATE comes before the token check, and matches *)
(* a row that is released but not expired, or expired but not released.    *)
RefreshDb(s) ==
  /\ At(s, "refresh", "db")
  /\ \/ /\ BypassesRLS /\ db.by = UserOf[s] /\ (db.released = "no" \/ db.left > 0)
        /\ db' = [db EXCEPT !.left = req[s].ttl]
        /\ \/ TokenFails(s, db.token) /\ UNCHANGED <<lease, causes>>
           \/ Grant(s) /\ Cause("fallback")
     \/ /\ \/ ~(BypassesRLS /\ db.by = UserOf[s] /\ (db.released = "no" \/ db.left > 0))
           \/ "db" \in Faults
        /\ UNCHANGED <<db, lease, causes>>
  /\ Done(s)
  /\ UNCHANGED redis

-----------------------------------------------------------------------------
(* release_resource_lock                                                   *)

ReleaseStart(s) ==
  /\ req[s].op = "none"
  /\ \E op \in {"release", "force"} :
       /\ op = "force" => UserOf[s] \in Breaker
       /\ req' = [req EXCEPT ![s] = Request(op, "get", 0)]
  /\ UNCHANGED <<redis, db, lease, causes>>

Releasing(s, at) == req[s].op \in {"release", "force"} /\ req[s].at = at

(* A GET that raises goes on with the table, as one that finds no key.     *)
ReleaseGet(s) ==
  /\ Releasing(s, "get")
  /\ \/ (redis.by = NoUser \/ "redis" \in Faults) /\ Goto(s, "db")
     \/ redis.by # NoUser /\ (Mine(s) \/ req[s].op = "force") /\ Goto(s, "delete")
     \/ redis.by # NoUser /\ ~Mine(s) /\ req[s].op = "release" /\ Done(s)
  /\ UNCHANGED <<redis, db, lease, causes>>

(* DELETE takes the key whose-ever it is by now.  It pulls the lock from   *)
(* under a user who has just been given it, or is about to be.             *)
ReleaseDelete(s) ==
  /\ Releasing(s, "delete")
  /\ \/ redis' = NoKey
     \/ "redis" \in Faults /\ redis' = redis
  /\ End(IF req[s].op = "force" THEN Session ELSE Tabs(UserOf[s]))
  /\ IF \/ req[s].op = "release" /\ redis.by \notin {NoUser, UserOf[s]}
        \/ \E q \in Session : HasSet(q) /\ redis.by = UserOf[q]
     THEN Cause("raced") ELSE UNCHANGED causes
  /\ Goto(s, "db")
  /\ UNCHANGED db

(* The UPDATE sets no tenant either.  A force names no holder: it marks    *)
(* whatever row is there.                                                  *)
ReleaseDb(s) ==
  /\ Releasing(s, "db")
  /\ \/ /\ BypassesRLS /\ db.by # NoUser
        /\ req[s].op = "force" \/ db.by = UserOf[s]
        /\ db' = [db EXCEPT !.released = "yes"]
     \/ /\ \/ ~BypassesRLS \/ db.by = NoUser \/ "db" \in Faults
           \/ req[s].op = "release" /\ db.by # UserOf[s]
        /\ db' = db
  /\ End({s}) /\ Done(s)
  /\ UNCHANGED <<redis, causes>>

-----------------------------------------------------------------------------
(* The pod dies, or the client goes away, between two steps.               *)
Crash(s) ==
  /\ "crash" \in Faults
  /\ req[s].op # "none"
  /\ Done(s)
  /\ UNCHANGED <<redis, db, lease, causes>>

(* Redis restarts empty, or evicts the key.                                *)
RedisLoss ==
  /\ "lost" \in Faults
  /\ redis # NoKey
  /\ redis' = NoKey
  /\ Cause("lost")
  /\ UNCHANGED <<db, req, lease>>

Less(n) == IF n = 0 THEN 0 ELSE n - 1

Tick ==
  /\ \A s \in Session : req[s].op = "none"
  /\ redis' = IF redis.left <= 1 THEN NoKey ELSE [redis EXCEPT !.left = @ - 1]
  /\ db' = [db EXCEPT !.left = Less(@)]
  /\ lease' = [s \in Session |-> Less(lease[s])]
  /\ UNCHANGED <<req, causes>>

Acquire(s) ==
  \/ AcquireStart(s) \/ AcquireSetNX(s) \/ AcquireGet(s) \/ AcquireSetOwn(s)
  \/ AcquirePersist(s) \/ AcquireSelect(s) \/ AcquireUpsert(s)
  \/ AcquireRedisError(s)
Refresh(s) ==
  \/ RefreshStart(s) \/ RefreshGet(s) \/ RefreshSet(s) \/ RefreshRedisError(s)
  \/ RefreshExpiry(s) \/ RefreshDb(s)
Release(s) ==
  \/ ReleaseStart(s) \/ ReleaseGet(s) \/ ReleaseDelete(s) \/ ReleaseDb(s)

Next ==
  \/ \E s \in Session : Acquire(s) \/ Refresh(s) \/ Release(s) \/ Crash(s)
  \/ RedisLoss
  \/ Tick

Spec == Init /\ [][Next]_vars
-----------------------------------------------------------------------------
(* get_resource_lock_status: the key first, then the row, which a query    *)
(* without tenant sees only if it bypasses row level security.             *)
ReportedHolder ==
  IF redis.by # NoUser THEN redis.by
  ELSE IF BypassesRLS /\ RowLive THEN db.by ELSE NoUser

Holds(s) == lease[s] > 0

(* Every variable has its type.                                            *)
TypeOK ==
  /\ redis \in Key
  /\ db \in Row
  /\ req \in [Session -> Req]
  /\ lease \in [Session -> 0..MaxTTL]
  /\ causes \subseteq {"lost", "fallback", "raced", "shortened"}

NoTwoHolders ==
  \A s, q \in Session : Holds(s) /\ Holds(q) => UserOf[s] = UserOf[q]

(* The SET NX of acquire_resource_lock is the only gate: two users hold    *)
(* the lock together only after Redis lost its keys, after the table       *)
(* decided instead of Redis, after an unconditional SET or DELETE hit a    *)
(* key that had changed hands since it was read, or after another tab of   *)
(* the holder cut the key under a longer lease.                            *)
Exclusive == causes = {} => NoTwoHolders

(* Under the same conditions the status endpoint names the user who was    *)
(* given the lock, for as long as that answer promised it.                 *)
HolderIsReported ==
  causes = {} => \A s \in Session : Holds(s) => ReportedHolder = UserOf[s]

(* Why Exclusive holds: a lock that is held, and one about to be granted,  *)
(* is backed by the key of the same user for at least as long.             *)
Backed ==
  causes = {} =>
    /\ \A s \in Session : Holds(s) => Mine(s) /\ redis.left >= lease[s]
    /\ \A s \in Session : HasSet(s) => Mine(s) /\ redis.left >= req[s].ttl

(* A 409 of an acquire: the request ends and no lease is given.            *)
Refused(s) ==
  /\ AcquireGet(s) \/ AcquireSelect(s)
  /\ req'[s].op = "none"
  /\ lease' = lease

(* The lock is re-entrant for its holder, under the conditions of          *)
(* Exclusive (locking.py:54-75): Redis refuses no tab of a user who holds  *)
(* the lock on any tab, and the table no tab that holds it itself.  (Of    *)
(* two tabs the table may refuse the one whose SET NX took the key, while  *)
(* the other is given the lock by that key: the row of the holder before   *)
(* may still be live.)                                                     *)
HolderNotRefused ==
  [][\A s \in Session :
       Refused(s) /\ causes = {} =>
         /\ ~Holds(s)
         /\ AcquireGet(s) => \A q \in Tabs(UserOf[s]) : ~Holds(q)]_vars
=============================================================================
