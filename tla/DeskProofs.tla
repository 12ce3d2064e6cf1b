---------------------------- MODULE DeskProofs ------------------------------
(***************************************************************************)
(* What tlapm proves of the things several desks share: the lock on an     *)
(* alert or case (for any sessions, users and TTLs, with every fault       *)
(* allowed), the live feed, and the batches of reports that publish on it  *)
(* (for any number of processes, clients, messages, batches and requests). *)
(***************************************************************************)
EXTENDS ResourceLock, StrBatch, FiniteSetTheorems, SequenceTheorems, TLAPS

-----------------------------------------------------------------------------
(* The lock.                                                               *)

(* Every variable of the lock keeps its type.                              *)
THEOREM LockTypeOK == Spec => []TypeOK
<1>1. Init => TypeOK
  BY LockAssumption DEF Init, TypeOK, Key, Row, Req, NoKey, NoReq, Request,
     Tab, Op, Step
<1>2. TypeOK /\ [Next]_vars => TypeOK'
  <2> SUFFICES ASSUME TypeOK, [Next]_vars PROVE TypeOK'
    OBVIOUS
  <2> USE LockAssumption DEF TypeOK, Key, Row, Req, Tab, Op, Step, At
  <2>1. ASSUME NEW s \in Session, Acquire(s) PROVE TypeOK'
    <3> USE DEF Goto, Done, Grant, Cause, OwnKey, OwnRow, Request, NoReq
    <3>1. CASE AcquireStart(s)
      BY <3>1 DEF AcquireStart
    <3>2. CASE AcquireSetNX(s)
      BY <3>2 DEF AcquireSetNX
    <3>3. CASE AcquireGet(s)
      BY <3>3 DEF AcquireGet
    <3>4. CASE AcquireSetOwn(s)
      BY <3>4 DEF AcquireSetOwn, SetKey
    <3>5. CASE AcquirePersist(s)
      BY <3>5 DEF AcquirePersist
    <3>6. CASE AcquireSelect(s)
      BY <3>6 DEF AcquireSelect
    <3>7. CASE AcquireUpsert(s)
      BY <3>7 DEF AcquireUpsert
    <3>8. CASE AcquireRedisError(s)
      BY <3>8 DEF AcquireRedisError
    <3> QED
      BY <2>1, <3>1, <3>2, <3>3, <3>4, <3>5, <3>6, <3>7, <3>8 DEF Acquire
  <2>2. ASSUME NEW s \in Session, Refresh(s) PROVE TypeOK'
    <3> USE DEF Goto, Done, Grant, Cause, OwnKey, Request, NoReq
    <3>1. CASE RefreshStart(s)
      BY <3>1 DEF RefreshStart
    <3>2. CASE RefreshGet(s)
      BY <3>2 DEF RefreshGet
    <3>3. CASE RefreshSet(s)
      BY <3>3 DEF RefreshSet, SetKey
    <3>4. CASE RefreshExpiry(s)
      BY <3>4 DEF RefreshExpiry
    <3>5. CASE RefreshDb(s)
      BY <3>5 DEF RefreshDb
    <3>6. CASE RefreshRedisError(s)
      BY <3>6 DEF RefreshRedisError, SetKey
    <3> QED
      BY <2>2, <3>1, <3>2, <3>3, <3>4, <3>5, <3>6 DEF Refresh
  <2>3. ASSUME NEW s \in Session, Release(s) PROVE TypeOK'
    <3> USE DEF Goto, Done, End, Cause, Request, NoReq, NoKey, Releasing
    <3>1. CASE ReleaseStart(s)
      BY <3>1 DEF ReleaseStart
    <3>2. CASE ReleaseGet(s)
      BY <3>2 DEF ReleaseGet
    <3>3. CASE ReleaseDelete(s)
      BY <3>3 DEF ReleaseDelete
    <3>4. CASE ReleaseDb(s)
      BY <3>4 DEF ReleaseDb
    <3> QED
      BY <2>3, <3>1, <3>2, <3>3, <3>4 DEF Release
  <2>4. ASSUME NEW s \in Session, Crash(s) PROVE TypeOK'
    BY <2>4 DEF Crash, Done, NoReq, Request
  <2>5. CASE RedisLoss
    BY <2>5 DEF RedisLoss, NoKey, Cause
  <2>6. CASE Tick
    BY <2>6 DEF Tick, NoKey, Less
  <2>7. CASE UNCHANGED vars
    BY <2>7 DEF vars
  <2> QED
    BY <2>1, <2>2, <2>3, <2>4, <2>5, <2>6, <2>7 DEF Next
<1> QED
  BY <1>1, <1>2, PTL DEF Spec

(* Renewing the key, without a cause, leaves every lease of its user backed.*)
LEMMA RenewedBacked ==
  ASSUME TypeOK, Backed, NEW s \in Session, NEW token \in Tab, NEW next \in Step,
         SetKey(s, token), Goto(s, next), causes' = {}
  PROVE  Backed'
<1> USE LockAssumption DEF TypeOK, Key, Req
<1>1. causes = {} /\ redis.by \in {NoUser, UserOf[s]} /\ ~Shortens(s)
  BY DEF SetKey
<1>2. redis'.by = UserOf[s] /\ redis'.left = req[s].ttl
  BY DEF SetKey, OwnKey
<1>3. ASSUME NEW q \in Session
      PROVE  /\ req'[q].ttl = req[q].ttl /\ req'[q].op = req[q].op
             /\ q # s => req'[q] = req[q] /\ lease'[q] = lease[q]
  BY DEF Goto, SetKey
<1>4. lease'[s] \in Nat /\ lease'[s] <= req[s].ttl
  BY DEF SetKey
<1>5. ASSUME NEW q \in Session, q # s, lease[q] > 0 \/ HasSet(q)
      PROVE  q \in Tabs(UserOf[s]) \ {s}
  BY <1>1, <1>5 DEF Backed, Holds, Mine, Tabs
<1>6. ASSUME NEW q \in Session, Holds(q)'
      PROVE  Mine(q)' /\ redis'.left >= lease'[q]
  <2>1. CASE q = s
    BY <1>2, <1>4, <2>1 DEF Mine
  <2>2. CASE q # s
    <3>1. lease[q] > 0 /\ lease'[q] = lease[q]
      BY <1>3, <1>6, <2>2 DEF Holds
    <3>2. q \in Tabs(UserOf[s]) \ {s}
      BY <1>5, <2>2, <3>1
    <3>3. lease[q] <= req[s].ttl
      BY <1>1, <3>2 DEF Shortens
    <3> QED
      BY <1>2, <3>1, <3>2, <3>3 DEF Mine, Tabs
  <2> QED
    BY <2>1, <2>2
<1>7. ASSUME NEW q \in Session, HasSet(q)'
      PROVE  Mine(q)' /\ redis'.left >= req'[q].ttl
  <2>1. CASE q = s
    BY <1>2, <1>3, <2>1 DEF Mine
  <2>2. CASE q # s
    <3>1. HasSet(q)
      BY <1>3, <1>7, <2>2 DEF HasSet, At
    <3>2. q \in Tabs(UserOf[s]) \ {s}
      BY <1>5, <2>2, <3>1
    <3>3. req[q].ttl <= req[s].ttl
      BY <1>1, <3>1, <3>2 DEF Shortens
    <3> QED
      BY <1>2, <1>3, <3>2, <3>3 DEF Mine, Tabs
  <2> QED
    BY <2>1, <2>2
<1> QED
  BY <1>6, <1>7 DEF Backed

(* A lease is never granted, and a key never changed, so that a promised   *)
(* lock loses its key, unless one of the recorded causes occurred.         *)
LEMMA BackedStep == TypeOK /\ Backed /\ [Next]_vars => Backed'
<1> SUFFICES ASSUME TypeOK, Backed, [Next]_vars, causes' = {} PROVE Backed'
  BY DEF Backed
<1> USE LockAssumption DEF TypeOK, Key, Req, Holds, HasSet, Mine, At
<1>1. ASSUME NEW s \in Session, Acquire(s) PROVE Backed'
  <2> USE DEF Backed, Goto, Done, Grant, Cause, OwnKey, Request, NoReq
  <2>1. CASE AcquireStart(s)
    BY <2>1 DEF AcquireStart
  <2>2. CASE AcquireSetNX(s)
    BY <2>2 DEF AcquireSetNX
  <2>3. CASE AcquireGet(s)
    BY <2>3 DEF AcquireGet
  <2>4. CASE AcquireSetOwn(s)
    <3>1. s \in Tab /\ "persist" \in Step /\ SetKey(s, s) /\ Goto(s, "persist")
      BY <2>4 DEF AcquireSetOwn, Tab, Step
    <3> QED
      BY <3>1, RenewedBacked
  <2>5. CASE AcquirePersist(s)
    BY <2>5 DEF AcquirePersist
  <2>6. CASE AcquireSelect(s)
    BY <2>6 DEF AcquireSelect
  <2>7. CASE AcquireUpsert(s)
    BY <2>7 DEF AcquireUpsert
  <2>8. CASE AcquireRedisError(s)
    BY <2>8 DEF AcquireRedisError
  <2> QED
    BY <1>1, <2>1, <2>2, <2>3, <2>4, <2>5, <2>6, <2>7, <2>8 DEF Acquire
<1>2. ASSUME NEW s \in Session, Refresh(s) PROVE Backed'
  <2> USE DEF Backed, Goto, Done, Grant, Cause, OwnKey, Request, NoReq
  <2>1. CASE RefreshStart(s)
    BY <2>1 DEF RefreshStart
  <2>2. CASE RefreshGet(s)
    BY <2>2 DEF RefreshGet
  <2>3. CASE RefreshSet(s)
    <3>1. /\ req[s].seen \in Tab /\ "expiry" \in Step
          /\ SetKey(s, req[s].seen) /\ Goto(s, "expiry")
      BY <2>3 DEF RefreshSet, Step
    <3> QED
      BY <3>1, RenewedBacked
  <2>4. CASE RefreshExpiry(s)
    BY <2>4 DEF RefreshExpiry
  <2>5. CASE RefreshDb(s)
    BY <2>5 DEF RefreshDb
  <2>6. CASE RefreshRedisError(s)
    <3>1. req[s].seen \in Tab /\ "db" \in Step /\ Goto(s, "db")
      BY <2>6 DEF RefreshRedisError, Step
    <3>2. CASE SetKey(s, req[s].seen)
      BY <3>1, <3>2, RenewedBacked
    <3>3. CASE UNCHANGED <<redis, lease, causes>>
      BY <3>1, <3>3
    <3> QED
      BY <2>6, <3>2, <3>3 DEF RefreshRedisError
  <2> QED
    BY <1>2, <2>1, <2>2, <2>3, <2>4, <2>5, <2>6 DEF Refresh
<1>3. ASSUME NEW s \in Session, Release(s) PROVE Backed'
  <2> USE DEF Backed, Goto, Done, End, Cause, Request, NoReq, NoKey, Releasing
  <2>1. CASE ReleaseStart(s)
    BY <2>1 DEF ReleaseStart
  <2>2. CASE ReleaseGet(s)
    BY <2>2 DEF ReleaseGet
  <2>3. CASE ReleaseDelete(s)
    BY <2>3 DEF ReleaseDelete, Tabs
  <2>4. CASE ReleaseDb(s)
    BY <2>4 DEF ReleaseDb
  <2> QED
    BY <1>3, <2>1, <2>2, <2>3, <2>4 DEF Release
<1>4. ASSUME NEW s \in Session, Crash(s) PROVE Backed'
  BY <1>4 DEF Crash, Done, NoReq, Request, Backed
<1>5. CASE RedisLoss
  BY <1>5 DEF RedisLoss, Cause
<1>6. CASE Tick
  BY <1>6 DEF Tick, NoKey, Less, Backed
<1>7. CASE UNCHANGED vars
  BY <1>7 DEF vars, Backed
<1> QED
  BY <1>1, <1>2, <1>3, <1>4, <1>5, <1>6, <1>7 DEF Next

LEMMA BackedAlways == Spec => []Backed
<1>1. Init => Backed
  BY DEF Init, Backed, Holds, HasSet, At, NoReq, Request
<1> QED
  BY <1>1, BackedStep, LockTypeOK, PTL DEF Spec

(* Two users hold the lock together only if Redis lost it, the table       *)
(* decided instead of Redis, a handler overwrote a key it had not read, or *)
(* another tab of the holder asked for a shorter lease.                    *)
THEOREM LockExclusive == Spec => []Exclusive
<1>1. Backed => Exclusive
  BY DEF Backed, Exclusive, NoTwoHolders, Mine
<1> QED
  BY <1>1, BackedAlways, PTL

(* As long as none of these happened, the status endpoint names the holder.*)
THEOREM LockHolderIsReported == Spec => []HolderIsReported
<1>1. Backed => HolderIsReported
  BY LockAssumption DEF Backed, HolderIsReported, ReportedHolder, Mine
<1> QED
  BY <1>1, BackedAlways, PTL

(* A tab whose SET NX took the key and that now asks the table holds no    *)
(* lock yet: the key was free, and only its own request gives it one.      *)
Asking ==
  causes = {} => \A s \in Session : At(s, "acquire", "select") => ~Holds(s)

LEMMA AskingStep == TypeOK /\ Backed /\ Asking /\ [Next]_vars => Asking'
<1> SUFFICES ASSUME TypeOK, Backed, Asking, [Next]_vars, causes' = {},
                    NEW q \in Session, At(q, "acquire", "select")'
             PROVE  ~Holds(q)'
  BY DEF Asking
<1>1. causes = {}
  BY DEF Next, Acquire, Refresh, Release, Crash, RedisLoss, Tick, vars, Cause, AcquireStart,
     AcquireSetNX, AcquireGet, AcquireSetOwn, AcquirePersist, AcquireSelect, AcquireUpsert,
     AcquireRedisError, RefreshStart, RefreshGet, RefreshSet, RefreshRedisError, RefreshExpiry,
     RefreshDb, SetKey, ReleaseStart, ReleaseGet, ReleaseDelete, ReleaseDb
<1> USE LockAssumption DEF TypeOK, Req, Holds, At
<1>2. CASE At(q, "acquire", "select") /\ lease'[q] \in 0 .. lease[q]
  BY <1>1, <1>2 DEF Asking
<1>3. ASSUME NEW s \in Session, AcquireSetNX(s) PROVE ~Holds(q)'
  <2>1. CASE q = s
    BY <1>1, <1>3, <2>1 DEF AcquireSetNX, Goto, Backed, Mine
  <2>2. CASE q # s
    BY <1>2, <1>3, <2>2 DEF AcquireSetNX, Goto
  <2> QED
    BY <2>1, <2>2
<1>4. ASSUME NEW s \in Session, Acquire(s), ~AcquireSetNX(s) PROVE ~Holds(q)'
  BY <1>1, <1>2, <1>4 DEF Acquire, AcquireStart, AcquireGet, AcquireSetOwn, AcquirePersist,
     AcquireSelect, AcquireUpsert, AcquireRedisError, SetKey, Goto, Done, Grant, Cause, Request,
     NoReq
<1>5. ASSUME NEW s \in Session, Refresh(s) PROVE ~Holds(q)'
  BY <1>2, <1>5 DEF Refresh, RefreshStart, RefreshGet, RefreshSet, RefreshRedisError, SetKey,
     RefreshExpiry, RefreshDb, Goto, Done, Grant, Request, NoReq
<1>6. ASSUME NEW s \in Session, Release(s) PROVE ~Holds(q)'
  BY <1>2, <1>6 DEF Release, ReleaseStart, ReleaseGet, ReleaseDelete, ReleaseDb, Releasing,
     Goto, Done, End, Request, NoReq
<1>7. ASSUME NEW s \in Session, Crash(s) PROVE ~Holds(q)'
  BY <1>2, <1>7 DEF Crash, Done, NoReq, Request
<1>8. CASE RedisLoss \/ Tick \/ UNCHANGED vars
  BY <1>2, <1>8 DEF RedisLoss, Tick, vars, Less
<1> QED
  BY <1>3, <1>4, <1>5, <1>6, <1>7, <1>8 DEF Next

LEMMA AskingAlways == Spec => []Asking
<1>1. Init => Asking
  BY DEF Init, Asking, At, NoReq, Request
<1> QED
  BY <1>1, AskingStep, BackedAlways, LockTypeOK, PTL DEF Spec

(* Which of a user's tabs holds the lock when an acquire is refused.       *)
LEMMA RefusedStep ==
  ASSUME TypeOK, Backed, Asking, causes = {}, NEW s \in Session, Refused(s)
  PROVE  /\ ~Holds(s)
         /\ AcquireGet(s) => \A q \in Tabs(UserOf[s]) : ~Holds(q)
<1> USE LockAssumption DEF TypeOK, Req, At
<1>1. CASE AcquireGet(s)
  <2>1. ~Mine(s)
    BY <1>1 DEF Refused, AcquireGet, Goto, Done
  <2>2. \A q \in Tabs(UserOf[s]) : ~Holds(q)
    BY <2>1 DEF Backed, Mine, Tabs
  <2>3. s \in Tabs(UserOf[s])
    BY DEF Tabs
  <2> QED
    BY <2>2, <2>3
<1>2. CASE ~AcquireGet(s)
  BY <1>2 DEF Refused, AcquireSelect, Asking
<1> QED
  BY <1>1, <1>2

(* However many tabs a user has open, the one that holds the lock is not   *)
(* refused it, and none is refused by Redis while one holds it: the table  *)
(* is asked only by a tab that found the key free.                         *)
THEOREM LockHolderNotRefused == Spec => HolderNotRefused
<1>1. TypeOK /\ Backed /\ Asking /\ [Next]_vars
      => [\A s \in Session :
            Refused(s) /\ causes = {} =>
              /\ ~Holds(s)
              /\ AcquireGet(s) => \A q \in Tabs(UserOf[s]) : ~Holds(q)]_vars
  BY RefusedStep
<1> QED
  BY <1>1, LockTypeOK, BackedAlways, AskingAlways, PTL DEF Spec, HolderNotRefused
-----------------------------------------------------------------------------
(* The live feed.                                                          *)

(* A step of the live feed, and the calls of broadcast the batches make.   *)
FeedMove == FeedStep \/ \E m \in Message, p \in Process : BroadcastStart(m, p)

(* On the way to the listener of p, or waiting for it.                     *)
Coming(m, p) == \E i \in DOMAIN mail[p] : mail[p][i].message = m

Envelope == [message : Message, pid : PidNumber]

(* A table of two indices.                                                *)
Tabled(table) == table = [m \in Message |-> [p \in Process |-> table[m][p]]]

(* Types of all the feed's variables the invariants read.                  *)
PidsTyped == pid \in [Process -> PidNumber]
SocketsTyped == at \in [Client -> Process \cup {New, Gone}]
CallsTyped ==
  /\ telling \in [Message -> [at : {"no", "local", "returned", "raised"}, in : Process \cup {Gone}]]
  /\ \A m \in Message : telling[m].at = "no" \/ telling[m].in \in Process
MailTyped == mail \in [Process -> Seq(Envelope)]
LoopsTyped ==
  /\ Tabled(loop)
  /\ \A m \in Message, p \in Process :
       loop[m][p].first \cup loop[m][p].done \cup loop[m][p].failed \subseteq Client
CountsTyped == got \in [Client -> [Message -> Nat]]
HistoryTyped == audience \in [Message -> SUBSET Client] /\ churned \cup unheard \subseteq Message
FeedTyped ==
  /\ PidsTyped /\ SocketsTyped /\ CallsTyped
  /\ MailTyped /\ LoopsTyped /\ CountsTyped /\ HistoryTyped

(* Whatever the batches do is a step of the live feed, or leaves it alone. *)
LEMMA StrFeeds == StrNext => FeedMove \/ UNCHANGED feedVars
  BY DEF StrNext, FeedMove, CloseSar, GenerateRead, GenerateSeal, TransmitRead, TransmitSubmit, TransmitUpdate, TransmitEnd

(* The numbers of the processes stay.                                      *)
LEMMA PidsStay == [FeedMove]_feedVars => UNCHANGED pid
  BY DEF FeedMove, FeedStep, feedVars, SendOne, SendEnd, SendBreaks, PassOn, Listen, Connect,
     Disconnect, BroadcastStart

(* One iteration changes its own entry only.                               *)
LEMMA PutInTable ==
  ASSUME NEW table, NEW table1, NEW m \in Message, NEW p \in Process, NEW value,
         Tabled(table), table1 = Put(table, m, p, value)
  PROVE  /\ Tabled(table1) /\ table1[m][p] = value
         /\ \A n \in Message, q \in Process : n # m \/ q # p => table1[n][q] = table[n][q]
  <1>1. DOMAIN table = Message /\ DOMAIN table[m] = Process
    BY DEF Tabled
  <1>2. table1[m] = [table[m] EXCEPT ![p] = value]
    BY <1>1 DEF Put
  <1>3. \A n \in Message \ {m} : table1[n] = table[n]
    BY <1>1 DEF Put
  <1>4. table1[m][p] = value /\ \A q \in Process \ {p} : table1[m][q] = table[m][q]
    BY <1>1, <1>2
  <1>5. table1 = [n \in Message |-> [table EXCEPT ![m] = [table[m] EXCEPT ![p] = value]][n]]
    BY <1>1 DEF Put
  <1>6. table1[m] = [q \in Process |-> table1[m][q]]
    BY <1>1, <1>2
  <1>7. \A n \in Message : table1[n] = [q \in Process |-> table1[n][q]]
    BY <1>3, <1>6 DEF Tabled
  <1>8. Tabled(table1)
    BY <1>5, <1>7 DEF Tabled, Put
  <1> QED
    BY <1>3, <1>4, <1>8

(* One client is sent the message: the iteration remembers it, and it has  *)
(* got the message once more or counts as lost.                            *)
LEMMA SentOne ==
  ASSUME LoopsTyped, CountsTyped, SocketsTyped, HistoryTyped,
         NEW m \in Message, NEW p \in Process, SendOne(m, p)
  PROVE  \E c \in Here(p) \ loop[m][p].done :
           /\ at' = at /\ Tabled(loop')
           /\ \A n \in Message, q \in Process : n # m \/ q # p => loop'[n][q] = loop[n][q]
           /\ loop'[m][p].on /\ loop'[m][p].first = loop[m][p].first
           /\ loop'[m][p].done = loop[m][p].done \cup {c}
           /\ loop'[m][p].failed \subseteq loop[m][p].failed \cup {c}
           /\ got' \in [Client -> [Message -> Nat]]
           /\ \A d \in Client, n \in Message : d # c \/ n # m => got'[d][n] = got[d][n]
           /\ audience' \in [Message -> SUBSET Client]
           /\ \A n \in Message : audience'[n] \subseteq audience[n]
           /\ \/ got'[c][m] = got[c][m] + 1
              \/ got'[c][m] = got[c][m] /\ c \notin audience'[m]
  <1>1. PICK c \in Here(p) \ loop[m][p].done, ok \in BOOLEAN :
       /\ got' = IF ok THEN Put(got, c, m, got[c][m] + 1) ELSE got
       /\ at' = IF ok THEN at ELSE AfterFailure(c)
       /\ loop' = Put(loop, m, p, Loop(TRUE, loop[m][p].first, loop[m][p].done \cup {c},
                       IF ok THEN loop[m][p].failed ELSE loop[m][p].failed \cup {c}))
       /\ audience' = IF ok THEN audience ELSE [audience EXCEPT ![m] = @ \ {c}]
    BY DEF SendOne
  <1>2. c \in Client
    BY DEF Here
  <1>3. at' = at
    BY <1>1 DEF AfterFailure
  <1>4. PICK next : /\ loop' = Put(loop, m, p, next)
                    /\ next = Loop(TRUE, loop[m][p].first, loop[m][p].done \cup {c},
                          IF ok THEN loop[m][p].failed ELSE loop[m][p].failed \cup {c})
    BY <1>1
  <1>5. next.on /\ next.first = loop[m][p].first /\ next.done = loop[m][p].done \cup {c}
    BY <1>4 DEF Loop
  <1>6. next.failed \subseteq loop[m][p].failed \cup {c}
    BY <1>4 DEF Loop
  <1>10. loop' = Put(loop, m, p, next)
    BY <1>4
  <1>11. /\ Tabled(loop') /\ loop'[m][p] = next
         /\ \A n \in Message, q \in Process : n # m \/ q # p => loop'[n][q] = loop[n][q]
    BY <1>10, PutInTable DEF LoopsTyped
  <1>7. /\ got' \in [Client -> [Message -> Nat]]
        /\ \A d \in Client, n \in Message : d # c \/ n # m => got'[d][n] = got[d][n]
    BY <1>1, <1>2 DEF CountsTyped, Put
  <1>8. /\ audience' \in [Message -> SUBSET Client]
        /\ \A n \in Message : audience'[n] \subseteq audience[n]
    BY <1>1 DEF HistoryTyped
  <1>9. \/ got'[c][m] = got[c][m] + 1
        \/ got'[c][m] = got[c][m] /\ c \notin audience'[m]
    BY <1>1, <1>2 DEF CountsTyped, HistoryTyped, Put
  <1> QED
    BY <1>2, <1>3, <1>5, <1>6, <1>7, <1>8, <1>9, <1>11

(* What a listener takes from its mail is the head, and what is sent to it *)
(* comes last.                                                             *)
LEMMA Taken ==
  ASSUME MailTyped, NEW p \in Process, Listen(p)
  PROVE  LET envelope == Head(mail[p]) IN
         /\ mail[p] # <<>> /\ envelope \in Envelope /\ envelope = mail[p][1] /\ 1 \in DOMAIN mail[p]
         /\ mail' \in [Process -> Seq(Envelope)]
         /\ \A q \in Process \ {p} : mail'[q] = mail[q]
         /\ Len(mail'[p]) = Len(mail[p]) - 1
         /\ DOMAIN mail[p] = 1..Len(mail[p]) /\ DOMAIN mail'[p] = 1..(Len(mail[p]) - 1)
         /\ \A i \in 1..(Len(mail[p]) - 1) : mail'[p][i] = mail[p][i + 1]
  <1>1. mail[p] \in Seq(Envelope) /\ mail[p] # <<>> /\ mail' = [mail EXCEPT ![p] = Tail(@)]
    BY DEF Listen, MailTyped
  <1>2. mail'[p] = Tail(mail[p]) /\ \A q \in Process \ {p} : mail'[q] = mail[q]
    BY <1>1 DEF MailTyped
  <1>3. Len(mail[p]) \in Nat \ {0}
    BY <1>1, EmptySeq
  <1>4. Head(mail[p]) \in Envelope /\ Tail(mail[p]) \in Seq(Envelope)
    BY <1>1, HeadTailProperties
  <1>5. mail' \in [Process -> Seq(Envelope)]
    BY <1>1, <1>4 DEF MailTyped
  <1> QED
    BY <1>1, <1>2, <1>3, <1>4, <1>5, HeadTailProperties

(* What is published comes last in every mailbox.                          *)
LEMMA Posted ==
  ASSUME MailTyped, NEW e \in Envelope,
         mail' = [p \in Process |-> Append(mail[p], e)]
  PROVE  /\ mail' \in [Process -> Seq(Envelope)]
         /\ \A p \in Process :
              /\ Len(mail[p]) \in Nat
              /\ DOMAIN mail[p] = 1..Len(mail[p]) /\ DOMAIN mail'[p] = 1..(Len(mail[p]) + 1)
              /\ \A i \in 1..Len(mail[p]) : mail'[p][i] = mail[p][i]
              /\ mail'[p][Len(mail[p]) + 1] = e
  <1>1. \A p \in Process : mail[p] \in Seq(Envelope) /\ mail'[p] = Append(mail[p], e)
    BY DEF MailTyped
  <1>2. \A p \in Process : Append(mail[p], e) \in Seq(Envelope)
    BY <1>1
  <1>3. mail' \in [Process -> Seq(Envelope)]
    BY <1>2
  <1> QED
    BY <1>1, <1>3

(* The types hold at first.                                                *)
LEMMA FeedStarts == FeedInit => FeedTyped
  <1> SUFFICES ASSUME FeedInit PROVE FeedTyped
    OBVIOUS
  <1>1. PidsTyped /\ SocketsTyped /\ CallsTyped
    BY DEF FeedInit, PidsTyped, SocketsTyped, CallsTyped, NoCall, Said
  <1>2. MailTyped
    BY DEF FeedInit, MailTyped
  <1>3. LoopsTyped
    BY DEF FeedInit, LoopsTyped, Tabled, NoLoop, Loop
  <1>4. CountsTyped /\ HistoryTyped
    BY DEF FeedInit, CountsTyped, HistoryTyped
  <1> QED
    BY <1>1, <1>2, <1>3, <1>4 DEF FeedTyped

(* The types step by step.                                                 *)
LEMMA FeedKeepsTypes == FeedTyped /\ [FeedMove]_feedVars => FeedTyped'
  <1> SUFFICES ASSUME FeedTyped, [FeedMove]_feedVars PROVE FeedTyped'
    OBVIOUS
  <1>p. PidsTyped'
    BY PidsStay DEF FeedTyped, PidsTyped
  <1> USE DEF FeedTyped
  <1>a. UNCHANGED at => SocketsTyped'
    BY DEF SocketsTyped
  <1>b. UNCHANGED telling => CallsTyped'
    BY DEF CallsTyped
  <1>c. UNCHANGED mail => MailTyped'
    BY DEF MailTyped
  <1>d. UNCHANGED loop => LoopsTyped'
    BY DEF LoopsTyped
  <1>e. UNCHANGED got => CountsTyped'
    BY DEF CountsTyped
  <1>f. UNCHANGED <<audience, churned, unheard>> => HistoryTyped'
    BY DEF HistoryTyped
  <1>g. ASSUME NEW m \in Message, NEW p \in Process, 
               loop' = Started(m, p) \/ loop' = Put(loop, m, p, NoLoop)
        PROVE  LoopsTyped'
    <2>1. PICK value \in {Loop(Here(p) # {}, Here(p), {}, {}), NoLoop} : loop' = Put(loop, m, p, value)
      BY <1>g DEF Started
    <2>2. /\ Tabled(loop') /\ loop'[m][p] = value
          /\ \A n \in Message, q \in Process : n # m \/ q # p => loop'[n][q] = loop[n][q]
      BY <2>1, PutInTable DEF LoopsTyped
    <2>3. value.first \cup value.done \cup value.failed \subseteq Client
      BY <2>1 DEF NoLoop, Loop, Here
    <2>4. loop'[m][p].first \cup loop'[m][p].done \cup loop'[m][p].failed \subseteq Client
      BY <2>2, <2>3
    <2> QED
      BY <2>2, <2>4 DEF LoopsTyped
  <1>1. CASE UNCHANGED feedVars
    BY <1>1, <1>p, <1>a, <1>b, <1>c, <1>d, <1>e, <1>f DEF feedVars
  <1>2. ASSUME NEW m \in Message, NEW p \in Process, SendOne(m, p) PROVE FeedTyped'
    <2>1. UNCHANGED <<telling, mail, churned, unheard>>
      BY <1>2 DEF SendOne
    <2>2. PICK c \in Here(p) \ loop[m][p].done :
           /\ at' = at /\ Tabled(loop')
           /\ \A n \in Message, q \in Process : n # m \/ q # p => loop'[n][q] = loop[n][q]
           /\ loop'[m][p].first = loop[m][p].first
           /\ loop'[m][p].done = loop[m][p].done \cup {c}
           /\ loop'[m][p].failed \subseteq loop[m][p].failed \cup {c}
           /\ got' \in [Client -> [Message -> Nat]]
           /\ audience' \in [Message -> SUBSET Client]
      BY <1>2, SentOne
    <2>3. c \in Client
      BY DEF Here
    <2>4. LoopsTyped'
      BY <2>2, <2>3 DEF LoopsTyped
    <2>5. CountsTyped' /\ HistoryTyped'
      BY <2>1, <2>2 DEF CountsTyped, HistoryTyped
    <2> QED
      BY <1>p, <1>a, <1>b, <1>c, <2>1, <2>2, <2>4, <2>5
  <1>3. ASSUME NEW m \in Message, NEW p \in Process, SendEnd(m, p) PROVE FeedTyped'
    <2>1. UNCHANGED <<telling, mail, got, unheard>> /\ LoopsTyped'
      BY <1>3, <1>g DEF SendEnd
    <2>2. SocketsTyped'
      BY <1>3 DEF SendEnd, SocketsTyped
    <2>3. Disturbed(p, m) \subseteq Message
      BY DEF Disturbed
    <2>4. HistoryTyped'
      BY <1>3, <2>1, <2>3 DEF SendEnd, HistoryTyped
    <2> QED
      BY <1>p, <1>b, <1>c, <1>e, <2>1, <2>2, <2>4
  <1>4. ASSUME NEW m \in Message, NEW p \in Process, SendBreaks(m, p) PROVE FeedTyped'
    <2>1. UNCHANGED <<at, mail, got, audience, churned, unheard>> /\ LoopsTyped'
      BY <1>4, <1>g DEF SendBreaks
    <2>2. CallsTyped'
      BY <1>4 DEF SendBreaks, CallsTyped, Said
    <2> QED
      BY <1>p, <1>a, <1>c, <1>e, <1>f, <2>1, <2>2
  <1>5. ASSUME NEW m \in Message, PassOn(m) PROVE FeedTyped'
    <2>1. UNCHANGED <<at, loop, got, audience, churned>>
      BY <1>5 DEF PassOn
    <2>2. CallsTyped'
      BY <1>5 DEF PassOn, CallsTyped, Said
    <2>3. telling[m].in \in Process
      BY <1>5 DEF PassOn, CallsTyped
    <2>4. [message |-> m, pid |-> pid[telling[m].in]] \in Envelope
      BY <2>3 DEF Envelope, PidsTyped
    <2>5. MailTyped'
      BY <1>5, <2>4, Posted, <1>c DEF PassOn, MailTyped
    <2>6. HistoryTyped'
      BY <1>5, <2>1 DEF PassOn, HistoryTyped
    <2> QED
      BY <1>p, <1>a, <1>d, <1>e, <2>1, <2>2, <2>5, <2>6
  <1>6. ASSUME NEW p \in Process, Listen(p) PROVE FeedTyped'
    <2>1. UNCHANGED <<at, telling, got, audience, churned, unheard>>
      BY <1>6 DEF Listen
    <2>2. MailTyped' /\ Head(mail[p]) \in Envelope
      BY <1>6, Taken DEF MailTyped
    <2>3. Head(mail[p]).message \in Message
      BY <2>2 DEF Envelope
    <2>4. UNCHANGED loop \/ loop' = Started(Head(mail[p]).message, p)
      BY <1>6 DEF Listen
    <2>5. LoopsTyped'
      BY <1>d, <1>g, <2>3, <2>4
    <2> QED
      BY <1>p, <1>a, <1>b, <1>e, <1>f, <2>1, <2>2, <2>5
  <1>7. ASSUME NEW c \in Client, Connect(c) \/ Disconnect(c) PROVE FeedTyped'
    <2>1. UNCHANGED <<telling, mail, loop, got, unheard>>
      BY <1>7 DEF Connect, Disconnect
    <2>2. SocketsTyped'
      BY <1>7 DEF Connect, Disconnect, SocketsTyped
    <2>3. \A p : Disturbed(p, Quiet) \subseteq Message
      BY DEF Disturbed
    <2>4. HistoryTyped'
      BY <1>7, <2>1, <2>3 DEF Connect, Disconnect, HistoryTyped
    <2> QED
      BY <1>p, <1>b, <1>c, <1>d, <1>e, <2>1, <2>2, <2>4
  <1>8. ASSUME NEW m \in Message, NEW p \in Process, BroadcastStart(m, p) PROVE FeedTyped'
    <2>1. UNCHANGED <<at, mail, got, churned, unheard>> /\ LoopsTyped'
      BY <1>8, <1>g DEF BroadcastStart
    <2>2. CallsTyped'
      BY <1>8 DEF BroadcastStart, CallsTyped, Said
    <2>3. HistoryTyped'
      BY <1>8, <2>1 DEF BroadcastStart, HistoryTyped
    <2> QED
      BY <1>p, <1>a, <1>c, <1>e, <2>1, <2>2, <2>3
  <1> QED
    BY <1>1, <1>2, <1>3, <1>4, <1>5, <1>6, <1>7, <1>8 DEF FeedMove, FeedStep

(* A message is on its way to a process once, after the broadcast has      *)
(* returned, under the process id of the one that broadcasts it.           *)
OnceOnTheWay ==
  \A p \in Process :
    /\ \A i, j \in DOMAIN mail[p] : mail[p][i].message = mail[p][j].message => i = j
    /\ \A i \in DOMAIN mail[p] :
         LET m == mail[p][i].message IN
         telling[m].at = "returned" /\ mail[p][i].pid = pid[telling[m].in]

(* A process sends to its clients what it broadcasts before it passes it   *)
(* on, and what it has heard from another, of another number, after it has *)
(* heard it.                                                               *)
SendersKnown ==
  \A m \in Message, p \in Process : Sending(m, p) =>
    \/ telling[m].at = "local" /\ telling[m].in = p
    \/ /\ telling[m].at = "returned" /\ telling[m].in # p /\ pid[telling[m].in] # pid[p]
       /\ ~Coming(m, p)

(* A client that an iteration has met is still there, or gone.             *)
DoneStand ==
  \A m \in Message, p \in Process : Sending(m, p) =>
    /\ loop[m][p].failed \subseteq loop[m][p].done
    /\ \A c \in loop[m][p].done : at[c] \in {p, Gone}

(* Whoever received a message will not meet another iteration of it.       *)
GotOnce ==
  \A c \in Client, m \in Message :
    /\ got[c][m] <= 1
    /\ got[c][m] = 1 =>
         /\ at[c] # New /\ telling[m].at # "no"
         /\ \A p \in Process : at[c] = p =>
              \/ Sending(m, p) /\ c \in loop[m][p].done
              \/ ~Sending(m, p) /\ telling[m].in = p
              \/ ~Sending(m, p) /\ telling[m].at = "returned" /\ ~Coming(m, p)

(* The size of the dictionary differs only after comings and goings, and   *)
(* only that makes a broadcast fail.                                       *)
SizesTell ==
  \A m \in Message :
    /\ telling[m].at = "raised" => m \in churned
    /\ \A p \in Process : Sending(m, p) /\ m \notin churned =>
         \A c \in Client : c \in loop[m][p].first <=> at[c] = p

(* Where the message still has to reach a client of the audience, unless a *)
(* namesake of the sender is there.                                        *)
StillComing ==
  \A m \in Message : \A c \in audience[m] :
    /\ telling[m].at # "no"
    /\ m \notin churned \cup unheard =>
         \E p \in Process : 
           /\ at[c] = p
           /\ \/ got[c][m] = 1
              \/ Sending(m, p) /\ c \in loop[m][p].first \ loop[m][p].done
              \/ telling[m].at = "local" /\ telling[m].in # p
              \/ telling[m].at = "returned" /\ telling[m].in # p /\ Coming(m, p)
              \/ Namesake(m, p)

(* The clients of a namesake of the sender do not receive its message.     *)
NamesakesDeaf ==
  \A m \in Message, p \in Process : telling[m].at # "no" /\ Namesake(m, p) =>
    \A c \in Client : at[c] = p => got[c][m] = 0

(* All other iterations go on as they were.                                *)
OthersGoOn(m, p) ==
  \A n \in Message, q \in Process : n # m \/ q # p => loop'[n][q] = loop[n][q]

(* The iteration of m in p, if any, begins.                                *)
Begins(m, p) ==
  /\ OthersGoOn(m, p)
  /\ loop'[m][p].first = Here(p) /\ loop'[m][p].done = {} /\ loop'[m][p].failed = {}
  /\ (Here(p) = {} /\ ~loop'[m][p].on) \/ (Here(p) # {} /\ loop'[m][p].on)

(* An iteration begins with the clients that are there, if there are any.  *)
LEMMA StartBegins ==
  ASSUME LoopsTyped, NEW m \in Message, NEW p \in Process, loop' = Started(m, p)
  PROVE  Begins(m, p)
  <1>1. PICK next : /\ loop' = Put(loop, m, p, next)
                    /\ next = Loop(Here(p) # {}, Here(p), {}, {})
    BY DEF Started
  <1>2. next.first = Here(p) /\ next.done = {} /\ next.failed = {}
    BY <1>1 DEF Loop
  <1>3. next.on = (Here(p) # {})
    BY <1>1, Zenon DEF Loop
  <1>4. loop' = Put(loop, m, p, next)
    BY <1>1
  <1>5. loop'[m][p] = next /\ OthersGoOn(m, p)
    BY <1>4, PutInTable DEF LoopsTyped, OthersGoOn
  <1>6. loop'[m][p].on = (Here(p) # {})
    BY <1>3, <1>5, Zenon
  <1>7. (Here(p) = {} /\ ~loop'[m][p].on) \/ (Here(p) # {} /\ loop'[m][p].on)
    BY <1>6, Zenon
  <1> QED
    BY <1>2, <1>5, <1>7 DEF Begins

(* An iteration that is over leaves the others alone.                      *)
LEMMA StopEnds ==
  ASSUME LoopsTyped, NEW m \in Message, NEW p \in Process, loop' = Put(loop, m, p, NoLoop)
  PROVE  OthersGoOn(m, p) /\ ~loop'[m][p].on
  <1>1. loop'[m][p] = NoLoop /\ OthersGoOn(m, p)
    BY PutInTable DEF LoopsTyped, OthersGoOn
  <1>2. ~NoLoop.on
    BY DEF NoLoop, Loop
  <1>3. ~loop'[m][p].on
    BY <1>1, <1>2, Zenon
  <1> QED
    BY <1>1, <1>3

(* Whatever is on its way is an envelope.                                  *)
LEMMA Enveloped ==
  ASSUME MailTyped, NEW p \in Process, NEW i \in DOMAIN mail[p]
  PROVE  mail[p][i] \in Envelope /\ mail[p][i].message \in Message
  <1>1. mail[p] \in Seq(Envelope)
    BY DEF MailTyped
  <1>2. mail[p][i] \in Envelope
    BY <1>1, ElementOfSeq
  <1> QED
    BY <1>2 DEF Envelope

(* What the listener takes from its mail was there once.                   *)
LEMMA TakenOnce ==
  ASSUME MailTyped, OnceOnTheWay, NEW p \in Process, Listen(p)
  PROVE  /\ Head(mail[p]).message \in Message
         /\ telling[Head(mail[p]).message].at = "returned"
         /\ Head(mail[p]).pid = pid[telling[Head(mail[p]).message].in]
         /\ Coming(Head(mail[p]).message, p)
         /\ \A n \in Message, q \in Process :
              Coming(n, q)' <=> Coming(n, q) /\ ~(n = Head(mail[p]).message /\ q = p)
  <1>1. /\ mail[p] # <<>> /\ Head(mail[p]) \in Envelope
        /\ Head(mail[p]) = mail[p][1] /\ 1 \in DOMAIN mail[p]
        /\ \A q \in Process \ {p} : mail'[q] = mail[q]
        /\ Len(mail'[p]) = Len(mail[p]) - 1
        /\ DOMAIN mail[p] = 1..Len(mail[p]) /\ DOMAIN mail'[p] = 1..(Len(mail[p]) - 1)
        /\ \A i \in 1..(Len(mail[p]) - 1) : mail'[p][i] = mail[p][i + 1]
    BY Taken
  <1>2. Head(mail[p]).message \in Message
    BY <1>1 DEF Envelope
  <1>3. /\ telling[Head(mail[p]).message].at = "returned"
        /\ Head(mail[p]).pid = pid[telling[Head(mail[p]).message].in]
        /\ Coming(Head(mail[p]).message, p)
    BY <1>1 DEF OnceOnTheWay, Coming
  <1>4. Len(mail[p]) \in Nat \ {0}
    BY <1>1, EmptySeq DEF MailTyped
  <1>5. ASSUME NEW n \in Message, NEW q \in Process \ {p} PROVE Coming(n, q)' <=> Coming(n, q)
    BY <1>1 DEF Coming
  <1>6. ASSUME NEW n \in Message, Coming(n, p)'
        PROVE  Coming(n, p) /\ n # Head(mail[p]).message
    <2>1. PICK i \in 1..(Len(mail[p]) - 1) : mail[p][i + 1].message = n
      BY <1>1, <1>6 DEF Coming
    <2>2. i + 1 \in DOMAIN mail[p] /\ i + 1 # 1
      BY <1>1, <1>4
    <2> QED
      BY <1>1, <2>1, <2>2 DEF Coming, OnceOnTheWay
  <1>7. ASSUME NEW n \in Message, Coming(n, p), n # Head(mail[p]).message
        PROVE  Coming(n, p)'
    <2>1. PICK i \in DOMAIN mail[p] : mail[p][i].message = n
      BY <1>7 DEF Coming
    <2>2. i # 1
      BY <1>1, <1>7, <2>1
    <2>3. i - 1 \in 1..(Len(mail[p]) - 1) /\ (i - 1) + 1 = i
      BY <1>1, <1>4, <2>2
    <2>4. mail'[p][i - 1] = mail[p][i]
      BY <1>1, <2>3
    <2> QED
      BY <1>1, <2>1, <2>3, <2>4 DEF Coming
  <1> QED
    BY <1>2, <1>3, <1>5, <1>6, <1>7

(* What is published is on its way to everyone.                            *)
LEMMA PostedOnce ==
  ASSUME MailTyped, NEW m \in Message, NEW e \in Envelope, e.message = m,
         mail' = [p \in Process |-> Append(mail[p], e)]
  PROVE  \A n \in Message, q \in Process : Coming(n, q)' <=> Coming(n, q) \/ n = m
  <1> SUFFICES ASSUME NEW n \in Message, NEW q \in Process
               PROVE  Coming(n, q)' <=> Coming(n, q) \/ n = m
    OBVIOUS
  <1>1. /\ Len(mail[q]) \in Nat
        /\ DOMAIN mail[q] = 1..Len(mail[q]) /\ DOMAIN mail'[q] = 1..(Len(mail[q]) + 1)
        /\ \A i \in 1..Len(mail[q]) : mail'[q][i] = mail[q][i]
        /\ mail'[q][Len(mail[q]) + 1] = e
    BY Posted
  <1> QED
    BY <1>1 DEF Coming

(* The mail step by step.                                                  *)
LEMMA MailOnce ==
  ASSUME FeedTyped, OnceOnTheWay, SendersKnown, [FeedMove]_feedVars
  PROVE  OnceOnTheWay'
  <1>p. UNCHANGED pid
    BY PidsStay
  <1> USE DEF FeedTyped
  <1>0. ASSUME UNCHANGED mail,
               \A m \in Message : telling[m].at = "returned" =>
                 telling'[m].at = "returned" /\ telling'[m].in = telling[m].in
        PROVE  OnceOnTheWay'
    <2>1. ASSUME NEW p \in Process, NEW i \in DOMAIN mail[p] PROVE mail[p][i].message \in Message
      BY Enveloped
    <2> QED
      BY <1>p, <1>0, <2>1 DEF OnceOnTheWay
  <1>1. ASSUME NEW m \in Message, NEW p \in Process, SendBreaks(m, p) PROVE OnceOnTheWay'
    <2>1. UNCHANGED mail
      BY <1>1 DEF SendBreaks
    <2>2. ASSUME NEW n \in Message, telling[n].at = "returned"
          PROVE  telling'[n] = telling[n]
      BY <1>1, <2>2 DEF SendBreaks, CallsTyped, Said
    <2> QED
      BY <1>0, <2>1, <2>2
  <1>2. ASSUME NEW m \in Message, PassOn(m) PROVE OnceOnTheWay'
    <2>1. /\ telling[m].at = "local" /\ telling'[m].at = "returned" /\ telling'[m].in = telling[m].in
          /\ \A n \in Message \ {m} : telling'[n] = telling[n]
          /\ telling[m].in \in Process
      BY <1>2 DEF PassOn, CallsTyped, Said
    <2>2. CASE UNCHANGED mail
      BY <1>0, <2>1, <2>2
    <2>3. CASE ~ UNCHANGED mail
      <3> DEFINE e == [message |-> m, pid |-> pid[telling[m].in]]
      <3>1. e \in Envelope /\ e.message = m /\ e.pid = pid'[telling'[m].in]
        BY <1>p, <2>1 DEF Envelope, PidsTyped
      <3>2. mail' = [p \in Process |-> Append(mail[p], e)]
        BY <1>2, <2>3 DEF PassOn
      <3> HIDE DEF e
      <3> SUFFICES ASSUME NEW p \in Process
                   PROVE  /\ \A i, j \in DOMAIN mail'[p] : mail'[p][i].message = mail'[p][j].message => i = j
                          /\ \A i \in DOMAIN mail'[p] :
                               LET n == mail'[p][i].message IN
                               telling'[n].at = "returned" /\ mail'[p][i].pid = pid'[telling'[n].in]
        BY DEF OnceOnTheWay
      <3>3. /\ Len(mail[p]) \in Nat
            /\ DOMAIN mail[p] = 1..Len(mail[p]) /\ DOMAIN mail'[p] = 1..(Len(mail[p]) + 1)
            /\ \A i \in 1..Len(mail[p]) : mail'[p][i] = mail[p][i]
            /\ mail'[p][Len(mail[p]) + 1] = e
        BY <3>1, <3>2, Posted
      <3>4. ASSUME NEW i \in DOMAIN mail[p]
            PROVE  mail[p][i].message \in Message /\ mail[p][i].message # m
        BY <2>1, Enveloped DEF OnceOnTheWay
      <3>5. ASSUME NEW i \in DOMAIN mail'[p], NEW j \in DOMAIN mail'[p],
                   mail'[p][i].message = mail'[p][j].message
            PROVE  i = j
        <4>1. \A k \in DOMAIN mail'[p] : k \in DOMAIN mail[p] \/ k = Len(mail[p]) + 1
          BY <3>3
        <4>2. \A k \in DOMAIN mail[p] : mail'[p][k] = mail[p][k] /\ mail'[p][k].message # m
          BY <3>3, <3>4
        <4>3. CASE i \in DOMAIN mail[p] /\ j \in DOMAIN mail[p]
          BY <3>5, <4>2, <4>3 DEF OnceOnTheWay
        <4>4. CASE ~(i \in DOMAIN mail[p] /\ j \in DOMAIN mail[p])
          BY <3>1, <3>3, <3>5, <4>1, <4>2, <4>4
        <4> QED
          BY <4>3, <4>4
      <3>6. ASSUME NEW i \in DOMAIN mail'[p]
            PROVE  LET n == mail'[p][i].message IN
                   telling'[n].at = "returned" /\ mail'[p][i].pid = pid'[telling'[n].in]
        <4>1. CASE i = Len(mail[p]) + 1
          BY <2>1, <3>1, <3>3, <4>1
        <4>2. CASE i \in DOMAIN mail[p]
          BY <1>p, <2>1, <3>3, <3>4, <4>2 DEF OnceOnTheWay
        <4> QED
          BY <3>3, <4>1, <4>2
      <3> QED
        BY <3>5, <3>6
    <2> QED
      BY <2>2, <2>3
  <1>3. ASSUME NEW p \in Process, Listen(p) PROVE OnceOnTheWay'
    <2>1. UNCHANGED telling
      BY <1>3 DEF Listen
    <2>2. /\ \A q \in Process \ {p} : mail'[q] = mail[q]
          /\ DOMAIN mail[p] = 1..Len(mail[p]) /\ DOMAIN mail'[p] = 1..(Len(mail[p]) - 1)
          /\ \A i \in 1..(Len(mail[p]) - 1) : mail'[p][i] = mail[p][i + 1]
      BY <1>3, Taken
    <2>3. Len(mail[p]) \in Nat
      BY DEF MailTyped
    <2>4. \A i \in DOMAIN mail'[p] : i + 1 \in DOMAIN mail[p] /\ mail'[p][i] = mail[p][i + 1]
      BY <2>2, <2>3
    <2>5. \A i, j \in DOMAIN mail'[p] : mail'[p][i].message = mail'[p][j].message => i = j
      <3> SUFFICES ASSUME NEW i \in DOMAIN mail'[p], NEW j \in DOMAIN mail'[p],
                          mail'[p][i].message = mail'[p][j].message
                   PROVE  i = j
        OBVIOUS
      <3>1. \A k, l \in DOMAIN mail[p] : mail[p][k].message = mail[p][l].message => k = l
        BY DEF OnceOnTheWay
      <3>2. mail[p][i + 1].message = mail[p][j + 1].message
        BY <2>4
      <3>3. i + 1 = j + 1
        BY <2>4, <3>1, <3>2
      <3>4. i \in Int /\ j \in Int
        BY <2>2, <2>3
      <3> QED
        BY <3>3, <3>4
    <2>6. \A i \in DOMAIN mail'[p] :
            LET n == mail'[p][i].message IN
            telling'[n].at = "returned" /\ mail'[p][i].pid = pid'[telling'[n].in]
      BY <1>p, <2>1, <2>4 DEF OnceOnTheWay
    <2>7. ASSUME NEW q \in Process \ {p}
          PROVE  /\ \A i, j \in DOMAIN mail'[q] : mail'[q][i].message = mail'[q][j].message => i = j
                 /\ \A i \in DOMAIN mail'[q] :
                      LET n == mail'[q][i].message IN
                      telling'[n].at = "returned" /\ mail'[q][i].pid = pid'[telling'[n].in]
      BY <1>p, <2>1, <2>2 DEF OnceOnTheWay
    <2> QED
      BY <2>5, <2>6, <2>7 DEF OnceOnTheWay
  <1>4. ASSUME NEW m \in Message, NEW p \in Process, BroadcastStart(m, p) PROVE OnceOnTheWay'
    <2>1. UNCHANGED mail
      BY <1>4 DEF BroadcastStart
    <2>2. ASSUME NEW n \in Message, telling[n].at = "returned"
          PROVE  telling'[n] = telling[n]
      BY <1>4, <2>2 DEF BroadcastStart, CallsTyped, NoCall, Said
    <2> QED
      BY <1>0, <2>1, <2>2
  <1>5. CASE UNCHANGED <<mail, telling>>
    BY <1>0, <1>5
  <1>6. ASSUME NEW m \in Message, NEW p \in Process, SendOne(m, p) \/ SendEnd(m, p) PROVE UNCHANGED <<mail, telling>>
    BY <1>6 DEF SendOne, SendEnd
  <1>7. ASSUME NEW c \in Client, Connect(c) \/ Disconnect(c) PROVE UNCHANGED <<mail, telling>>
    BY <1>7 DEF Connect, Disconnect
  <1>8. UNCHANGED feedVars => UNCHANGED <<mail, telling>>
    BY DEF feedVars
  <1> QED
    BY <1>1, <1>2, <1>3, <1>4, <1>5, <1>6, <1>7, <1>8 DEF FeedMove, FeedStep

(* What is on its way stays so while no mailbox changes.                   *)
LEMMA ComingStays ==
  ASSUME UNCHANGED mail PROVE \A n \in Message, q \in Process : Coming(n, q)' <=> Coming(n, q)
  BY DEF Coming

(* What each step does, entry by entry.                                    *)
LEMMA SentOut ==
  ASSUME FeedTyped, NEW m \in Message, NEW p \in Process, SendEnd(m, p)
  PROVE  /\ Sending(m, p) /\ OthersGoOn(m, p) /\ ~loop'[m][p].on
         /\ \A c \in Client : IF c \in loop[m][p].failed THEN at'[c] = Gone ELSE at'[c] = at[c]
         /\ \A c \in Client : at[c] = p /\ c \in loop[m][p].first => c \in loop[m][p].done
         /\ \A n \in Message : audience'[n] = audience[n] \ loop[m][p].failed
         /\ churned \subseteq churned'
         /\ at' = at \/ Disturbed(p, m) \subseteq churned'
         /\ UNCHANGED <<telling, mail, got, unheard>>
  <1>1. OthersGoOn(m, p) /\ ~loop'[m][p].on
    BY StopEnds DEF SendEnd, FeedTyped
  <1>2. \A c \in Client : at[c] = p /\ c \in loop[m][p].first => c \in loop[m][p].done
    BY DEF SendEnd, Here
  <1>3. \A c \in Client : IF c \in loop[m][p].failed THEN at'[c] = Gone ELSE at'[c] = at[c]
    BY DEF SendEnd
  <1>4. \A n \in Message : audience'[n] = audience[n] \ loop[m][p].failed
    BY DEF SendEnd
  <1>5. churned \subseteq churned' /\ (at' = at \/ Disturbed(p, m) \subseteq churned')
    BY DEF SendEnd
  <1> QED
    BY <1>1, <1>2, <1>3, <1>4, <1>5 DEF SendEnd

(* The iteration ends early: the dictionary has other clients than it      *)
(* began with, and the caller gets the error if it still sends.            *)
LEMMA Broken ==
  ASSUME FeedTyped, NEW m \in Message, NEW p \in Process, SendBreaks(m, p)
  PROVE  /\ Sending(m, p) /\ OthersGoOn(m, p) /\ ~loop'[m][p].on
         /\ Here(p) # loop[m][p].first
         /\ \A n \in Message \ {m} : telling'[n] = telling[n]
         /\ IF telling[m].at = "local" /\ telling[m].in = p
            THEN telling'[m].at = "raised" /\ telling'[m].in = p ELSE telling'[m] = telling[m]
         /\ UNCHANGED <<at, mail, got, audience, churned, unheard>>
  <1>1. OthersGoOn(m, p) /\ ~loop'[m][p].on
    BY StopEnds DEF SendBreaks, FeedTyped
  <1>2. Here(p) # loop[m][p].first
    BY DEF SendBreaks, Changed
  <1>3. telling[m] = Said("local", p) <=> (telling[m].at = "local" /\ telling[m].in = p)
    BY DEF FeedTyped, CallsTyped, Said
  <1>4. /\ \A n \in Message \ {m} : telling'[n] = telling[n]
        /\ IF telling[m].at = "local" /\ telling[m].in = p
           THEN telling'[m].at = "raised" /\ telling'[m].in = p ELSE telling'[m] = telling[m]
    BY <1>3 DEF SendBreaks, FeedTyped, CallsTyped, Said
  <1> QED
    BY <1>1, <1>2, <1>4 DEF SendBreaks

(* The broadcast returns: its message is on its way to everyone, or        *)
(* unheard.                                                                *)
LEMMA Passed ==
  ASSUME FeedTyped, NEW m \in Message, PassOn(m)
  PROVE  /\ telling[m].at = "local" /\ telling[m].in \in Process /\ ~Sending(m, telling[m].in)
         /\ telling'[m].at = "returned" /\ telling'[m].in = telling[m].in
         /\ \A n \in Message \ {m} : telling'[n] = telling[n]
         /\ \/ UNCHANGED mail /\ unheard' = unheard \cup {m}
            \/ /\ UNCHANGED unheard
               /\ \A n \in Message, q \in Process : Coming(n, q)' <=> Coming(n, q) \/ n = m
         /\ UNCHANGED <<at, loop, got, audience, churned>>
  <1>1. /\ telling[m].at = "local" /\ telling[m].in \in Process /\ ~Sending(m, telling[m].in)
        /\ telling'[m].at = "returned" /\ telling'[m].in = telling[m].in
        /\ \A n \in Message \ {m} : telling'[n] = telling[n]
    BY DEF PassOn, FeedTyped, CallsTyped, Said
  <1>2. ASSUME mail' = [q \in Process |-> Append(mail[q], [message |-> m, pid |-> pid[telling[m].in]])]
        PROVE  \A n \in Message, q \in Process : Coming(n, q)' <=> Coming(n, q) \/ n = m
    <2>1. [message |-> m, pid |-> pid[telling[m].in]] \in Envelope
      BY <1>1 DEF Envelope, FeedTyped, PidsTyped
    <2> QED
      BY <1>2, <2>1, PostedOnce DEF FeedTyped
  <1> QED
    BY <1>1, <1>2 DEF PassOn

(* The listener takes a message: its own process has sent it already, or   *)
(* it begins to send.                                                      *)
LEMMA Heard ==
  ASSUME FeedTyped, OnceOnTheWay, NEW p \in Process, Listen(p)
  PROVE  \E m \in Message :
           /\ telling[m].at = "returned" /\ Coming(m, p)
           /\ \A n \in Message, q \in Process : Coming(n, q)' <=> Coming(n, q) /\ ~(n = m /\ q = p)
           /\ \/ UNCHANGED loop /\ pid[telling[m].in] = pid[p]
              \/ Begins(m, p) /\ telling[m].in # p /\ pid[telling[m].in] # pid[p]
           /\ UNCHANGED <<at, telling, got, audience, churned, unheard>>
  <1> DEFINE m == Head(mail[p]).message
  <1>1. /\ m \in Message /\ telling[m].at = "returned" /\ Coming(m, p)
        /\ Head(mail[p]).pid = pid[telling[m].in]
        /\ \A n \in Message, q \in Process : Coming(n, q)' <=> Coming(n, q) /\ ~(n = m /\ q = p)
    BY TakenOnce DEF FeedTyped
  <1>2. \/ UNCHANGED loop /\ pid[telling[m].in] = pid[p]
        \/ loop' = Started(m, p) /\ pid[telling[m].in] # pid[p]
    BY <1>1 DEF Listen, Own
  <1>3. loop' = Started(m, p) => Begins(m, p)
    BY <1>1, StartBegins DEF FeedTyped
  <1> QED
    BY <1>1, <1>2, <1>3 DEF Listen

(* A broadcast begins in its own process, for everyone connected.          *)
LEMMA Called ==
  ASSUME FeedTyped, NEW m \in Message, NEW p \in Process, BroadcastStart(m, p)
  PROVE  /\ telling[m].at = "no" /\ telling'[m].at = "local" /\ telling'[m].in = p
         /\ \A n \in Message \ {m} : telling'[n] = telling[n] /\ audience'[n] = audience[n]
         /\ audience'[m] = {c \in Client : at[c] \in Process}
         /\ Begins(m, p)
         /\ UNCHANGED <<at, mail, got, churned, unheard>>
  <1>1. /\ telling[m].at = "no" /\ telling'[m].at = "local" /\ telling'[m].in = p
        /\ \A n \in Message \ {m} : telling'[n] = telling[n] /\ audience'[n] = audience[n]
        /\ audience'[m] = {c \in Client : at[c] \in Process}
    BY DEF BroadcastStart, FeedTyped, CallsTyped, HistoryTyped, NoCall, Said
  <1>2. Begins(m, p)
    BY StartBegins DEF BroadcastStart, FeedTyped
  <1> QED
    BY <1>1, <1>2 DEF BroadcastStart

(* Whoever comes or goes disturbs all that is being sent where it was.     *)
LEMMA Moved ==
  ASSUME FeedTyped, NEW c \in Client, Connect(c) \/ Disconnect(c)
  PROVE  \E p \in Process :
           /\ \/ at[c] = New /\ at'[c] = p
              \/ at[c] = p /\ at'[c] = Gone /\ \A n \in Message : c \notin audience'[n]
           /\ \A d \in Client \ {c} : at'[d] = at[d]
           /\ churned \subseteq churned'
           /\ \A n \in Message : Sending(n, p) => n \in churned'
           /\ \A n \in Message : audience'[n] \subseteq audience[n]
           /\ UNCHANGED <<telling, mail, loop, got, unheard>>
  <1>1. \A n \in Message : n # Quiet
    BY FeedAssumption
  <1>2. CASE Connect(c)
    <2>1. PICK p \in Process : /\ at' = [at EXCEPT ![c] = p]
                               /\ churned' = churned \cup Disturbed(p, Quiet)
      BY <1>2 DEF Connect
    <2>2. \A n \in Message : Sending(n, p) => n \in churned'
      BY <1>1, <2>1 DEF Disturbed
    <2>3. at'[c] = p /\ \A d \in Client \ {c} : at'[d] = at[d]
      BY <2>1 DEF FeedTyped, SocketsTyped
    <2> QED
      BY <1>2, <2>1, <2>2, <2>3 DEF Connect
  <1>3. CASE Disconnect(c)
    <2>1. \A n \in Message : Sending(n, at[c]) => n \in churned'
      BY <1>1, <1>3 DEF Disconnect, Disturbed
    <2>2. at'[c] = Gone /\ \A d \in Client \ {c} : at'[d] = at[d]
      BY <1>3 DEF Disconnect, FeedTyped, SocketsTyped
    <2>3. \A n \in Message : c \notin audience'[n] /\ audience'[n] \subseteq audience[n]
      BY <1>3 DEF Disconnect
    <2>4. at[c] \in Process
      BY <1>3 DEF Disconnect
    <2> QED
      BY <1>3, <2>1, <2>2, <2>3, <2>4 DEF Disconnect
  <1> QED
    BY <1>2, <1>3

(* The senders step by step.                                               *)
LEMMA SendersStand ==
  ASSUME FeedTyped, OnceOnTheWay, SendersKnown, [FeedMove]_feedVars
  PROVE  SendersKnown'
  <1>p. UNCHANGED pid
    BY PidsStay
  <1>0. ASSUME UNCHANGED <<loop, telling, mail>> PROVE SendersKnown'
    BY <1>p, <1>0, ComingStays DEF SendersKnown, Sending
  <1>1. ASSUME NEW m \in Message, NEW p \in Process, SendOne(m, p) PROVE SendersKnown'
    <2>1. \A n \in Message, q \in Process : n # m \/ q # p => loop'[n][q] = loop[n][q]
      BY <1>1, SentOne DEF FeedTyped
    <2>2. Sending(m, p) /\ UNCHANGED <<telling, mail>>
      BY <1>1 DEF SendOne
    <2> QED
      BY <1>p, <2>1, <2>2, ComingStays DEF SendersKnown, Sending, OthersGoOn
  <1>2. ASSUME NEW m \in Message, NEW p \in Process, SendEnd(m, p) PROVE SendersKnown'
    BY <1>p, <1>2, SentOut, ComingStays DEF SendersKnown, Sending, OthersGoOn
  <1>3. ASSUME NEW m \in Message, NEW p \in Process, SendBreaks(m, p) PROVE SendersKnown'
    <2>1. /\ OthersGoOn(m, p) /\ ~loop'[m][p].on
          /\ \A n \in Message \ {m} : telling'[n] = telling[n]
          /\ \/ telling[m].at = "local" /\ telling[m].in = p
             \/ telling'[m] = telling[m]
          /\ UNCHANGED mail
      BY <1>3, Broken
    <2> QED
      BY <1>p, <2>1, ComingStays DEF SendersKnown, Sending, OthersGoOn
  <1>4. ASSUME NEW m \in Message, PassOn(m) PROVE SendersKnown'
    <2>1. /\ telling[m].at = "local" /\ ~Sending(m, telling[m].in)
          /\ \A n \in Message \ {m} : telling'[n] = telling[n]
          /\ \/ UNCHANGED mail
             \/ \A n \in Message, q \in Process : Coming(n, q)' <=> Coming(n, q) \/ n = m
          /\ UNCHANGED loop
      BY <1>4, Passed
    <2>2. \A n \in Message \ {m}, q \in Process : Coming(n, q)' <=> Coming(n, q)
      BY <2>1, ComingStays
    <2>3. \A q \in Process : ~Sending(m, q)
      BY <2>1 DEF SendersKnown
    <2> QED
      BY <1>p, <2>1, <2>2, <2>3 DEF SendersKnown, Sending
  <1>5. ASSUME NEW p \in Process, Listen(p) PROVE SendersKnown'
    <2>1. PICK m \in Message :
           /\ telling[m].at = "returned" /\ Coming(m, p)
           /\ \A n \in Message, q \in Process : Coming(n, q)' <=> Coming(n, q) /\ ~(n = m /\ q = p)
           /\ UNCHANGED loop \/ (Begins(m, p) /\ telling[m].in # p /\ pid[telling[m].in] # pid[p])
           /\ UNCHANGED telling
      BY <1>5, Heard
    <2>2. CASE UNCHANGED loop
      BY <1>p, <2>1, <2>2 DEF SendersKnown, Sending
    <2>3. CASE Begins(m, p) /\ telling[m].in # p /\ pid[telling[m].in] # pid[p]
      BY <1>p, <2>1, <2>3 DEF SendersKnown, Sending, Begins, OthersGoOn
    <2> QED
      BY <2>1, <2>2, <2>3
  <1>6. ASSUME NEW m \in Message, NEW p \in Process, BroadcastStart(m, p) PROVE SendersKnown'
    <2>1. /\ telling[m].at = "no" /\ telling'[m].at = "local" /\ telling'[m].in = p
          /\ \A n \in Message \ {m} : telling'[n] = telling[n]
          /\ OthersGoOn(m, p) /\ UNCHANGED mail
      BY <1>6, Called DEF Begins
    <2> QED
      BY <1>p, <2>1, ComingStays DEF SendersKnown, Sending, OthersGoOn
  <1>7. ASSUME NEW c \in Client, Connect(c) \/ Disconnect(c) PROVE SendersKnown'
    BY <1>0, <1>7 DEF Connect, Disconnect
  <1>8. UNCHANGED feedVars => SendersKnown'
    BY <1>0 DEF feedVars
  <1> QED
    BY <1>1, <1>2, <1>3, <1>4, <1>5, <1>6, <1>7, <1>8 DEF FeedMove, FeedStep

(* The clients met step by step.                                           *)
LEMMA DoneStay ==
  ASSUME FeedTyped, OnceOnTheWay, DoneStand, [FeedMove]_feedVars
  PROVE  DoneStand'
  <1>0. ASSUME UNCHANGED loop, 
               \A c \in Client : at'[c] = at[c] \/ at[c] = New \/ at'[c] = Gone
        PROVE  DoneStand'
    <2>1. \A m \in Message, p \in Process : p # New /\ loop[m][p].done \subseteq Client
      BY FeedAssumption DEF FeedTyped, LoopsTyped
    <2>2. New # Gone
      BY DEF New, Gone
    <2> QED
      BY <1>0, <2>1, <2>2 DEF DoneStand, Sending
  <1>a. ASSUME UNCHANGED at, NEW m \in Message, NEW p \in Process, Begins(m, p) PROVE DoneStand'
    BY <1>a DEF DoneStand, Sending, Begins, OthersGoOn
  <1>1. ASSUME NEW m \in Message, NEW p \in Process, SendOne(m, p) PROVE DoneStand'
    <2>1. PICK c \in Here(p) \ loop[m][p].done :
           /\ at' = at
           /\ \A n \in Message, q \in Process : n # m \/ q # p => loop'[n][q] = loop[n][q]
           /\ loop'[m][p].done = loop[m][p].done \cup {c}
           /\ loop'[m][p].failed \subseteq loop[m][p].failed \cup {c}
      BY <1>1, SentOne DEF FeedTyped
    <2>2. Sending(m, p)
      BY <1>1 DEF SendOne
    <2>3. at[c] = p
      BY DEF Here
    <2> QED
      BY <2>1, <2>2, <2>3 DEF DoneStand, Sending
  <1>2. ASSUME NEW m \in Message, NEW p \in Process, SendEnd(m, p) PROVE DoneStand'
    <2>1. /\ Sending(m, p) /\ OthersGoOn(m, p) /\ ~loop'[m][p].on
          /\ \A c \in Client : IF c \in loop[m][p].failed THEN at'[c] = Gone ELSE at'[c] = at[c]
      BY <1>2, SentOut
    <2>2. \A n \in Message, q \in Process : loop[n][q].done \subseteq Client
      BY DEF FeedTyped, LoopsTyped
    <2> QED
      BY <2>1, <2>2 DEF DoneStand, Sending, OthersGoOn
  <1>3. ASSUME NEW m \in Message, NEW p \in Process, SendBreaks(m, p) PROVE DoneStand'
    BY <1>3, Broken DEF DoneStand, Sending, OthersGoOn
  <1>4. ASSUME NEW m \in Message, PassOn(m) PROVE DoneStand'
    BY <1>0, <1>4 DEF PassOn
  <1>5. ASSUME NEW p \in Process, Listen(p) PROVE DoneStand'
    <2>1. PICK m \in Message : UNCHANGED at /\ (UNCHANGED loop \/ Begins(m, p))
      BY <1>5, Heard
    <2> QED
      BY <1>0, <1>a, <2>1
  <1>6. ASSUME NEW m \in Message, NEW p \in Process, BroadcastStart(m, p) PROVE DoneStand'
    BY <1>a, <1>6, Called
  <1>7. ASSUME NEW c \in Client, Connect(c) \/ Disconnect(c) PROVE DoneStand'
    <2>1. UNCHANGED loop /\ \A d \in Client : at'[d] = at[d] \/ at[d] = New \/ at'[d] = Gone
      BY <1>7, Moved
    <2> QED
      BY <1>0, <2>1
  <1>8. UNCHANGED feedVars => DoneStand'
    BY <1>0 DEF feedVars
  <1> QED
    BY <1>1, <1>2, <1>3, <1>4, <1>5, <1>6, <1>7, <1>8 DEF FeedMove, FeedStep

(* The sizes of the dictionaries step by step.                             *)
LEMMA SizesStay ==
  ASSUME FeedTyped, OnceOnTheWay, SendersKnown, DoneStand, SizesTell, [FeedMove]_feedVars
  PROVE  SizesTell'
  <1>0. ASSUME UNCHANGED <<loop, at, churned>>,
               \A m \in Message : telling'[m].at = telling[m].at \/ telling'[m].at # "raised"
        PROVE  SizesTell'
    BY <1>0 DEF SizesTell, Sending
  <1>a. ASSUME UNCHANGED <<at, churned>>, NEW m \in Message, NEW p \in Process, Begins(m, p),
               \A n \in Message : telling'[n].at = telling[n].at \/ telling'[n].at # "raised"
        PROVE  SizesTell'
    <2>1. \A c \in Client : c \in loop'[m][p].first <=> at[c] = p
      BY <1>a DEF Begins, Here
    <2> QED
      BY <1>a, <2>1 DEF SizesTell, Sending, Begins, OthersGoOn
  <1>1. ASSUME NEW m \in Message, NEW p \in Process, SendOne(m, p) PROVE SizesTell'
    <2>1. PICK c \in Here(p) \ loop[m][p].done :
           /\ at' = at
           /\ \A n \in Message, q \in Process : n # m \/ q # p => loop'[n][q] = loop[n][q]
           /\ loop'[m][p].first = loop[m][p].first
      BY <1>1, SentOne DEF FeedTyped
    <2>2. Sending(m, p) /\ UNCHANGED <<telling, churned>>
      BY <1>1 DEF SendOne
    <2> QED
      BY <2>1, <2>2 DEF SizesTell, Sending
  <1>2. ASSUME NEW m \in Message, NEW p \in Process, SendEnd(m, p) PROVE SizesTell'
    <2>1. /\ Sending(m, p) /\ OthersGoOn(m, p) /\ ~loop'[m][p].on
          /\ \A c \in Client : IF c \in loop[m][p].failed THEN at'[c] = Gone ELSE at'[c] = at[c]
          /\ churned \subseteq churned'
          /\ at' = at \/ Disturbed(p, m) \subseteq churned'
          /\ UNCHANGED telling
      BY <1>2, SentOut
    <2>2. \A c \in Client : c \in loop[m][p].failed => at[c] \in {p, Gone}
      BY <2>1 DEF DoneStand
    <2>3. \A q \in Process : q # Gone
      BY FeedAssumption
    <2>4. ASSUME NEW n \in Message, NEW q \in Process, n # m \/ q # p, Sending(n, q), n \notin churned'
          PROVE  \A c \in Client : at'[c] = q <=> at[c] = q
      <3>1. CASE at' = at
        BY <3>1
      <3>2. CASE q = p /\ Disturbed(p, m) \subseteq churned'
        BY <2>4, <3>2 DEF Disturbed
      <3>3. CASE q # p
        BY <2>1, <2>2, <2>3, <3>3
      <3> QED
        BY <2>1, <3>1, <3>2, <3>3
    <2> QED
      BY <2>1, <2>4 DEF SizesTell, Sending, OthersGoOn
  <1>3. ASSUME NEW m \in Message, NEW p \in Process, SendBreaks(m, p) PROVE SizesTell'
    <2>1. /\ Sending(m, p) /\ OthersGoOn(m, p) /\ ~loop'[m][p].on
          /\ Here(p) # loop[m][p].first
          /\ \A n \in Message \ {m} : telling'[n] = telling[n]
          /\ UNCHANGED <<at, churned>>
      BY <1>3, Broken
    <2>2. loop[m][p].first \subseteq Client
      BY DEF FeedTyped, LoopsTyped
    <2>3. m \in churned
      BY <2>1, <2>2 DEF SizesTell, Here
    <2> QED
      BY <2>1, <2>3 DEF SizesTell, Sending, OthersGoOn
  <1>4. ASSUME NEW m \in Message, PassOn(m) PROVE SizesTell'
    BY <1>0, <1>4, Passed
  <1>5. ASSUME NEW p \in Process, Listen(p) PROVE SizesTell'
    <2>1. PICK m \in Message : /\ UNCHANGED loop \/ Begins(m, p)
                               /\ UNCHANGED <<at, telling, churned>>
      BY <1>5, Heard
    <2> QED
      BY <1>0, <1>a, <2>1
  <1>6. ASSUME NEW m \in Message, NEW p \in Process, BroadcastStart(m, p) PROVE SizesTell'
    <2>1. /\ \A n \in Message : telling'[n].at = telling[n].at \/ telling'[n].at # "raised"
          /\ Begins(m, p) /\ UNCHANGED <<at, churned>>
      BY <1>6, Called
    <2> QED
      BY <1>a, <2>1
  <1>7. ASSUME NEW c \in Client, Connect(c) \/ Disconnect(c) PROVE SizesTell'
    <2>1. PICK p \in Process :
           /\ \/ at[c] = New /\ at'[c] = p
              \/ at[c] = p /\ at'[c] = Gone
           /\ \A d \in Client \ {c} : at'[d] = at[d]
           /\ churned \subseteq churned'
           /\ \A n \in Message : Sending(n, p) => n \in churned'
           /\ UNCHANGED <<telling, loop>>
      BY <1>7, Moved
    <2>2. \A q \in Process : q # Gone /\ q # New
      BY FeedAssumption
    <2>3. \A q \in Process \ {p}, d \in Client : at'[d] = q <=> at[d] = q
      BY <2>1, <2>2
    <2> QED
      BY <2>1, <2>3 DEF SizesTell, Sending
  <1>8. UNCHANGED feedVars => SizesTell'
    BY <1>0 DEF feedVars
  <1> QED
    BY <1>1, <1>2, <1>3, <1>4, <1>5, <1>6, <1>7, <1>8 DEF FeedMove, FeedStep

(* A received message will not come again, step by step.                   *)
LEMMA GotOnceStays ==
  ASSUME FeedTyped, OnceOnTheWay, SendersKnown, DoneStand, GotOnce, [FeedMove]_feedVars
  PROVE  GotOnce'
  <1>t. \A p \in Process : p # New /\ p # Gone
    BY FeedAssumption
  <1>n. \A c \in Client, m \in Message : got[c][m] \in Nat
    BY DEF FeedTyped, CountsTyped
  <1>0. ASSUME UNCHANGED <<got, telling, mail, loop>>,
               \A c \in Client : at'[c] = at[c] \/ at[c] = New \/ at'[c] = Gone
        PROVE  GotOnce'
    <2>1. New # Gone
      BY DEF New, Gone
    <2> QED
      BY <1>0, <1>t, <2>1, ComingStays DEF GotOnce, Sending
  <1>1. ASSUME NEW m \in Message, NEW p \in Process, SendOne(m, p) PROVE GotOnce'
    <2>1. PICK c \in Here(p) \ loop[m][p].done :
           /\ at' = at
           /\ \A n \in Message, q \in Process : n # m \/ q # p => loop'[n][q] = loop[n][q]
           /\ loop'[m][p].on
           /\ loop'[m][p].done = loop[m][p].done \cup {c}
           /\ \A d \in Client, n \in Message : d # c \/ n # m => got'[d][n] = got[d][n]
           /\ got'[c][m] = got[c][m] + 1 \/ got'[c][m] = got[c][m]
      BY <1>1, SentOne DEF FeedTyped
    <2>2. Sending(m, p) /\ UNCHANGED <<telling, mail>>
      BY <1>1 DEF SendOne
    <2>3. at[c] = p /\ c \in Client
      BY DEF Here
    <2>4. telling[m].at # "no"
      BY <2>2 DEF SendersKnown
    <2>5. got[c][m] = 0
      BY <1>n, <2>1, <2>2, <2>3 DEF GotOnce
    <2>6. ASSUME NEW d \in Client, NEW n \in Message, d # c \/ n # m
          PROVE  /\ got'[d][n] <= 1
                 /\ got'[d][n] = 1 =>
                      /\ at'[d] # New /\ telling'[n].at # "no"
                      /\ \A q \in Process : at'[d] = q =>
                           \/ loop'[n][q].on /\ d \in loop'[n][q].done
                           \/ ~loop'[n][q].on /\ telling'[n].in = q
                           \/ ~loop'[n][q].on /\ telling'[n].at = "returned" /\ ~Coming(n, q)
      BY <2>1, <2>2, <2>6 DEF GotOnce, Sending
    <2>7. /\ got'[c][m] <= 1 /\ at'[c] # New /\ telling'[m].at # "no"
          /\ \A q \in Process : at'[c] = q => loop'[m][q].on /\ c \in loop'[m][q].done
      BY <1>t, <2>1, <2>2, <2>3, <2>4, <2>5
    <2> QED
      BY <2>2, <2>3, <2>6, <2>7, ComingStays DEF GotOnce, Sending
  <1>2. ASSUME NEW m \in Message, NEW p \in Process, SendEnd(m, p) PROVE GotOnce'
    <2>1. /\ Sending(m, p) /\ OthersGoOn(m, p) /\ ~loop'[m][p].on
          /\ \A c \in Client : IF c \in loop[m][p].failed THEN at'[c] = Gone ELSE at'[c] = at[c]
          /\ UNCHANGED <<telling, mail, got>>
      BY <1>2, SentOut
    <2>2. New # Gone
      BY DEF New, Gone
    <2> QED
      BY <1>t, <2>1, <2>2, ComingStays DEF GotOnce, SendersKnown, Sending, OthersGoOn
  <1>3. ASSUME NEW m \in Message, NEW p \in Process, SendBreaks(m, p) PROVE GotOnce'
    <2>1. /\ Sending(m, p) /\ OthersGoOn(m, p) /\ ~loop'[m][p].on
          /\ \A n \in Message \ {m} : telling'[n] = telling[n]
          /\ IF telling[m].at = "local" /\ telling[m].in = p
             THEN telling'[m].at = "raised" /\ telling'[m].in = p ELSE telling'[m] = telling[m]
          /\ UNCHANGED <<at, mail, got>>
      BY <1>3, Broken
    <2>2. CASE telling[m].at = "local" /\ telling[m].in = p
      BY <2>1, <2>2, ComingStays DEF GotOnce, Sending, OthersGoOn
    <2>3. CASE ~(telling[m].at = "local" /\ telling[m].in = p)
      BY <2>1, <2>3, ComingStays DEF GotOnce, SendersKnown, Sending, OthersGoOn
    <2> QED
      BY <2>2, <2>3
  <1>4. ASSUME NEW m \in Message, PassOn(m) PROVE GotOnce'
    <2>1. /\ telling[m].at = "local" /\ ~Sending(m, telling[m].in)
          /\ telling'[m].at = "returned" /\ telling'[m].in = telling[m].in
          /\ \A n \in Message \ {m} : telling'[n] = telling[n]
          /\ \/ UNCHANGED mail
             \/ \A n \in Message, q \in Process : Coming(n, q)' <=> Coming(n, q) \/ n = m
          /\ UNCHANGED <<at, loop, got>>
      BY <1>4, Passed
    <2>2. \A n \in Message \ {m}, q \in Process : Coming(n, q)' <=> Coming(n, q)
      BY <2>1, ComingStays
    <2>3. \A q \in Process : ~Sending(m, q)
      BY <2>1 DEF SendersKnown
    <2> QED
      BY <2>1, <2>2, <2>3 DEF GotOnce, Sending
  <1>5. ASSUME NEW p \in Process, Listen(p) PROVE GotOnce'
    <2>1. PICK m \in Message :
           /\ telling[m].at = "returned" /\ Coming(m, p)
           /\ \A n \in Message, q \in Process : Coming(n, q)' <=> Coming(n, q) /\ ~(n = m /\ q = p)
           /\ UNCHANGED loop \/ (Begins(m, p) /\ telling[m].in # p)
           /\ UNCHANGED <<at, telling, got>>
      BY <1>5, Heard
    <2>2. CASE UNCHANGED loop
      BY <2>1, <2>2 DEF GotOnce, Sending
    <2>3. CASE Begins(m, p) /\ telling[m].in # p
      <3>1. ~Sending(m, p)
        BY <2>1, <2>3 DEF SendersKnown
      <3>2. \A c \in Client : at[c] = p => got[c][m] # 1
        BY <2>1, <2>3, <3>1 DEF GotOnce
      <3> QED
        BY <2>1, <2>3, <3>2 DEF GotOnce, Sending, Begins, OthersGoOn
    <2> QED
      BY <2>1, <2>2, <2>3
  <1>6. ASSUME NEW m \in Message, NEW p \in Process, BroadcastStart(m, p) PROVE GotOnce'
    <2>1. /\ telling[m].at = "no" /\ telling'[m].at = "local" /\ telling'[m].in = p
          /\ \A n \in Message \ {m} : telling'[n] = telling[n]
          /\ OthersGoOn(m, p) /\ UNCHANGED <<at, mail, got>>
      BY <1>6, Called DEF Begins
    <2>2. \A c \in Client : got[c][m] # 1
      BY <2>1 DEF GotOnce
    <2> QED
      BY <2>1, <2>2, ComingStays DEF GotOnce, Sending, OthersGoOn
  <1>7. ASSUME NEW c \in Client, Connect(c) \/ Disconnect(c) PROVE GotOnce'
    <2>1. /\ UNCHANGED <<got, telling, mail, loop>>
          /\ \A d \in Client : at'[d] = at[d] \/ at[d] = New \/ at'[d] = Gone
      BY <1>7, Moved
    <2> QED
      BY <1>0, <2>1
  <1>8. UNCHANGED feedVars => GotOnce'
    BY <1>0 DEF feedVars
  <1> QED
    BY <1>1, <1>2, <1>3, <1>4, <1>5, <1>6, <1>7, <1>8 DEF FeedMove, FeedStep

(* Nobody who is deaf hears, step by step.                                 *)
LEMMA DeafStay ==
  ASSUME FeedTyped, SendersKnown, GotOnce, NamesakesDeaf, [FeedMove]_feedVars
  PROVE  NamesakesDeaf'
  <1>p. UNCHANGED pid
    BY PidsStay
  <1>n. \A c \in Client, m \in Message : got[c][m] \in Nat
    BY DEF FeedTyped, CountsTyped
  <1>0. ASSUME UNCHANGED <<at, got>>,
               \A m \in Message : telling[m].at = "no" \/ telling'[m].in = telling[m].in
        PROVE  NamesakesDeaf'
    BY <1>p, <1>n, <1>0 DEF NamesakesDeaf, Namesake, GotOnce
  <1>1. ASSUME NEW m \in Message, NEW p \in Process, SendOne(m, p) PROVE NamesakesDeaf'
    <2>1. PICK c \in Here(p) \ loop[m][p].done :
           /\ at' = at
           /\ \A d \in Client, n \in Message : d # c \/ n # m => got'[d][n] = got[d][n]
      BY <1>1, SentOne DEF FeedTyped
    <2>2. Sending(m, p) /\ UNCHANGED telling /\ at[c] = p
      BY <1>1, <2>1 DEF SendOne, Here
    <2>3. ~Namesake(m, p)
      BY <2>2 DEF SendersKnown, Namesake
    <2> QED
      BY <1>p, <2>1, <2>2, <2>3 DEF NamesakesDeaf, Namesake
  <1>2. ASSUME NEW m \in Message, NEW p \in Process, SendEnd(m, p) PROVE NamesakesDeaf'
    <2>1. /\ \A c \in Client : at'[c] = Gone \/ at'[c] = at[c]
          /\ UNCHANGED <<telling, got>>
      BY <1>2, SentOut
    <2>2. Gone \notin Process
      BY FeedAssumption
    <2> QED
      BY <1>p, <2>1, <2>2 DEF NamesakesDeaf, Namesake
  <1>3. ASSUME NEW m \in Message, NEW p \in Process, SendBreaks(m, p) PROVE NamesakesDeaf'
    <2>1. /\ \A n \in Message : telling'[n].in = telling[n].in
          /\ UNCHANGED <<at, got>>
      BY <1>3, Broken
    <2> QED
      BY <1>0, <2>1
  <1>4. ASSUME NEW m \in Message, PassOn(m) PROVE NamesakesDeaf'
    <2>1. /\ \A n \in Message : telling'[n].in = telling[n].in
          /\ UNCHANGED <<at, got>>
      BY <1>4, Passed
    <2> QED
      BY <1>0, <2>1
  <1>5. ASSUME NEW p \in Process, Listen(p) PROVE NamesakesDeaf'
    BY <1>0, <1>5 DEF Listen
  <1>6. ASSUME NEW m \in Message, NEW p \in Process, BroadcastStart(m, p) PROVE NamesakesDeaf'
    <2>1. /\ telling[m].at = "no" /\ \A n \in Message \ {m} : telling'[n] = telling[n]
          /\ UNCHANGED <<at, got>>
      BY <1>6, Called
    <2> QED
      BY <1>0, <2>1
  <1>7. ASSUME NEW c \in Client, Connect(c) \/ Disconnect(c) PROVE NamesakesDeaf'
    <2>1. /\ at[c] = New \/ at'[c] = Gone
          /\ \A d \in Client \ {c} : at'[d] = at[d]
          /\ UNCHANGED <<telling, got>>
      BY <1>7, Moved
    <2>2. Gone \notin Process
      BY FeedAssumption
    <2>3. at[c] = New => \A n \in Message : got[c][n] = 0
      BY <1>n DEF GotOnce
    <2> QED
      BY <1>p, <2>1, <2>2, <2>3 DEF NamesakesDeaf, Namesake
  <1>8. UNCHANGED feedVars => NamesakesDeaf'
    BY <1>0 DEF feedVars
  <1> QED
    BY <1>1, <1>2, <1>3, <1>4, <1>5, <1>6, <1>7, <1>8 DEF FeedMove, FeedStep

(* What is still to be delivered, step by step.                            *)
LEMMA StillComingStays ==
  ASSUME FeedTyped, OnceOnTheWay, SendersKnown, GotOnce, SizesTell, StillComing,
         [FeedMove]_feedVars
  PROVE  StillComing'
  <1>p. UNCHANGED pid
    BY PidsStay
  <1>t. \A p \in Process : p # New /\ p # Gone
    BY FeedAssumption
  <1>n. \A c \in Client, m \in Message : got[c][m] \in Nat
    BY DEF FeedTyped, CountsTyped
  <1>c. \A m \in Message : audience[m] \subseteq Client
    BY DEF FeedTyped, HistoryTyped
  <1>1. ASSUME NEW m \in Message, NEW p \in Process, SendOne(m, p) PROVE StillComing'
    <2>1. PICK c \in Here(p) \ loop[m][p].done :
           /\ at' = at
           /\ \A n \in Message, q \in Process : n # m \/ q # p => loop'[n][q] = loop[n][q]
           /\ loop'[m][p].on /\ loop'[m][p].first = loop[m][p].first
           /\ loop'[m][p].done = loop[m][p].done \cup {c}
           /\ \A d \in Client, n \in Message : d # c \/ n # m => got'[d][n] = got[d][n]
           /\ \A n \in Message : audience'[n] \subseteq audience[n]
           /\ \/ got'[c][m] = got[c][m] + 1
              \/ got'[c][m] = got[c][m] /\ c \notin audience'[m]
      BY <1>1, SentOne DEF FeedTyped
    <2>2. Sending(m, p) /\ UNCHANGED <<telling, mail, churned, unheard>>
      BY <1>1 DEF SendOne
    <2>3. at[c] = p /\ c \in Client
      BY DEF Here
    <2>5. got[c][m] = 0
      BY <1>n, <2>1, <2>2, <2>3 DEF GotOnce
    <2>6. ASSUME NEW n \in Message, NEW d \in audience'[n], d # c \/ n # m
          PROVE  /\ telling'[n].at # "no"
                 /\ n \notin churned \cup unheard =>
                      \E q \in Process : 
                        /\ at'[d] = q
                        /\ \/ got'[d][n] = 1
                           \/ loop'[n][q].on /\ d \in loop'[n][q].first \ loop'[n][q].done
                           \/ telling'[n].at = "local" /\ telling'[n].in # q
                           \/ telling'[n].at = "returned" /\ telling'[n].in # q /\ Coming(n, q)
                           \/ telling'[n].in # q /\ pid'[telling'[n].in] = pid'[q]
      BY <1>p, <1>c, <2>1, <2>2, <2>6 DEF StillComing, Sending, Namesake
    <2>7. telling'[m].at # "no" /\ at'[c] = p /\ (c \in audience'[m] => got'[c][m] = 1)
      BY <2>1, <2>2, <2>3, <2>5 DEF SendersKnown
    <2> QED
      BY <1>p, <2>2, <2>6, <2>7, ComingStays DEF StillComing, Sending, Namesake
  <1>2. ASSUME NEW m \in Message, NEW p \in Process, SendEnd(m, p) PROVE StillComing'
    <2>1. /\ Sending(m, p) /\ OthersGoOn(m, p) /\ ~loop'[m][p].on
          /\ \A c \in Client : IF c \in loop[m][p].failed THEN at'[c] = Gone ELSE at'[c] = at[c]
          /\ \A c \in Client : at[c] = p /\ c \in loop[m][p].first => c \in loop[m][p].done
          /\ \A n \in Message : audience'[n] = audience[n] \ loop[m][p].failed
          /\ churned \subseteq churned'
          /\ UNCHANGED <<telling, mail, got, unheard>>
      BY <1>2, SentOut
    <2>2. \A n \in Message : \A c \in audience'[n] : c \in audience[n] /\ at'[c] = at[c]
      BY <1>c, <2>1
    <2>3. \A c \in audience[m] : at[c] = p => c \notin loop[m][p].first \ loop[m][p].done
      BY <1>c, <2>1
    <2> QED
      BY <1>p, <2>1, <2>2, <2>3, ComingStays DEF StillComing, Sending, OthersGoOn, Namesake
  <1>3. ASSUME NEW m \in Message, NEW p \in Process, SendBreaks(m, p) PROVE StillComing'
    <2>1. /\ Sending(m, p) /\ OthersGoOn(m, p) /\ Here(p) # loop[m][p].first
          /\ \A n \in Message \ {m} : telling'[n] = telling[n]
          /\ telling'[m].at = "raised" \/ telling'[m] = telling[m]
          /\ UNCHANGED <<at, mail, got, audience, churned, unheard>>
      BY <1>3, Broken
    <2>2. loop[m][p].first \subseteq Client
      BY DEF FeedTyped, LoopsTyped
    <2>3. m \in churned
      BY <2>1, <2>2 DEF SizesTell, Here
    <2> QED
      BY <1>p, <2>1, <2>3, ComingStays DEF StillComing, Sending, OthersGoOn, Namesake
  <1>4. ASSUME NEW m \in Message, PassOn(m) PROVE StillComing'
    <2>1. /\ telling[m].at = "local" /\ ~Sending(m, telling[m].in)
          /\ telling'[m].at = "returned" /\ telling'[m].in = telling[m].in
          /\ \A n \in Message \ {m} : telling'[n] = telling[n]
          /\ \/ UNCHANGED mail /\ unheard' = unheard \cup {m}
             \/ /\ UNCHANGED unheard
                /\ \A n \in Message, q \in Process : Coming(n, q)' <=> Coming(n, q) \/ n = m
          /\ UNCHANGED <<at, loop, got, audience, churned>>
      BY <1>4, Passed
    <2>2. \A n \in Message \ {m}, q \in Process : Coming(n, q)' <=> Coming(n, q)
      BY <2>1, ComingStays
    <2>3. \A q \in Process : ~Sending(m, q)
      BY <2>1 DEF SendersKnown
    <2>4. m \in unheard' \/ \A q \in Process : Coming(m, q)'
      BY <2>1
    <2>5. unheard \subseteq unheard'
      BY <2>1
    <2> QED
      BY <1>p, <2>1, <2>2, <2>3, <2>4, <2>5 DEF StillComing, Sending, Namesake
  <1>5. ASSUME NEW p \in Process, Listen(p) PROVE StillComing'
    <2>1. PICK m \in Message :
           /\ telling[m].at = "returned" /\ Coming(m, p)
           /\ \A n \in Message, q \in Process : Coming(n, q)' <=> Coming(n, q) /\ ~(n = m /\ q = p)
           /\ \/ UNCHANGED loop /\ pid[telling[m].in] = pid[p]
              \/ Begins(m, p) /\ telling[m].in # p
           /\ UNCHANGED <<at, telling, got, audience, churned, unheard>>
      BY <1>5, Heard
    <2>2. CASE UNCHANGED loop /\ pid[telling[m].in] = pid[p]
      <3>1. telling[m].in = p \/ Namesake(m, p)
        BY <2>2 DEF Namesake
      <3> QED
        BY <1>p, <2>1, <2>2, <3>1 DEF StillComing, Sending, Namesake
    <2>3. CASE Begins(m, p) /\ telling[m].in # p
      <3>1. \A c \in Client : at[c] = p =>
              loop'[m][p].on /\ c \in loop'[m][p].first \ loop'[m][p].done
        BY <2>3 DEF Begins, Here
      <3>2. ~Sending(m, p)
        BY <2>1, <2>3 DEF SendersKnown
      <3> QED
        BY <1>p, <1>c, <2>1, <2>3, <3>1, <3>2 DEF StillComing, Sending, Begins, OthersGoOn, Namesake
    <2> QED
      BY <2>1, <2>2, <2>3
  <1>6. ASSUME NEW m \in Message, NEW p \in Process, BroadcastStart(m, p) PROVE StillComing'
    <2>1. /\ telling[m].at = "no" /\ telling'[m].at = "local" /\ telling'[m].in = p
          /\ \A n \in Message \ {m} : telling'[n] = telling[n] /\ audience'[n] = audience[n]
          /\ audience'[m] = {c \in Client : at[c] \in Process}
          /\ Begins(m, p)
          /\ UNCHANGED <<at, mail, got, churned, unheard>>
      BY <1>6, Called
    <2>2. \A c \in Client : at[c] = p =>
            loop'[m][p].on /\ c \in loop'[m][p].first \ loop'[m][p].done
      BY <2>1 DEF Begins, Here
    <2> QED
      BY <1>p, <2>1, <2>2, ComingStays DEF StillComing, Sending, Begins, OthersGoOn, Namesake
  <1>7. ASSUME NEW c \in Client, Connect(c) \/ Disconnect(c) PROVE StillComing'
    <2>1. PICK p \in Process :
           /\ \/ at[c] = New /\ at'[c] = p
              \/ at[c] = p /\ at'[c] = Gone /\ \A n \in Message : c \notin audience'[n]
           /\ \A d \in Client \ {c} : at'[d] = at[d]
           /\ churned \subseteq churned'
           /\ \A n \in Message : audience'[n] \subseteq audience[n]
           /\ UNCHANGED <<telling, mail, loop, got, unheard>>
      BY <1>7, Moved
    <2>2. \A n \in Message : \A d \in audience'[n] : n \notin churned' \cup unheard' => at'[d] = at[d]
      BY <1>c, <1>t, <2>1 DEF StillComing
    <2> QED
      BY <1>p, <2>1, <2>2, ComingStays DEF StillComing, Sending, Namesake
  <1>8. UNCHANGED feedVars => StillComing'
    BY <1>p, ComingStays DEF feedVars, StillComing, Sending, Namesake
  <1> QED
    BY <1>1, <1>2, <1>3, <1>4, <1>5, <1>6, <1>7, <1>8 DEF FeedMove, FeedStep

(* The inductive invariant of the live feed.                               *)
FeedInv ==
  /\ FeedTyped /\ OnceOnTheWay /\ SendersKnown /\ DoneStand /\ GotOnce /\ SizesTell
  /\ StillComing /\ NamesakesDeaf

(* The invariant holds at first.                                           *)
LEMMA FeedInvStarts == FeedInit => FeedInv
  <1> SUFFICES ASSUME FeedInit PROVE FeedInv
    OBVIOUS
  <1>1. FeedTyped
    BY FeedStarts
  <1>2. \A m \in Message, p \in Process : ~Sending(m, p)
    <2>1. ~NoLoop.on
      BY DEF NoLoop, Loop
    <2>2. \A m \in Message, p \in Process : loop[m][p] = NoLoop
      BY DEF FeedInit
    <2> QED
      BY <2>1, <2>2, Zenon DEF Sending
  <1>3. \A p \in Process : DOMAIN mail[p] = {}
    BY DEF FeedInit
  <1>4. \A m \in Message : telling[m].at = "no"
    BY DEF FeedInit, NoCall, Said
  <1>5. OnceOnTheWay
    BY <1>3 DEF OnceOnTheWay
  <1>6. SendersKnown /\ DoneStand
    BY <1>2 DEF SendersKnown, DoneStand
  <1>7. GotOnce
    BY DEF FeedInit, GotOnce
  <1>8. SizesTell
    BY <1>2, <1>4 DEF SizesTell
  <1>9. StillComing
    BY DEF FeedInit, StillComing
  <1>10. NamesakesDeaf
    BY <1>4 DEF NamesakesDeaf
  <1> QED
    BY <1>1, <1>5, <1>6, <1>7, <1>8, <1>9, <1>10 DEF FeedInv

(* The invariant step by step.                                             *)
LEMMA FeedInvStays == FeedInv /\ [StrNext]_strVars => FeedInv'
  <1> SUFFICES ASSUME FeedInv, [StrNext]_strVars PROVE FeedInv'
    OBVIOUS
  <1>1. [FeedMove]_feedVars
    BY StrFeeds DEF strVars
  <1>2. FeedTyped' /\ OnceOnTheWay' /\ SendersKnown' /\ DoneStand' /\ GotOnce' /\ SizesTell'
    BY <1>1, FeedKeepsTypes, MailOnce, SendersStand, DoneStay, GotOnceStays, SizesStay DEF FeedInv
  <1>3. StillComing' /\ NamesakesDeaf'
    BY <1>1, StillComingStays, DeafStay DEF FeedInv
  <1> QED
    BY <1>2, <1>3 DEF FeedInv

(* The invariant holds of the live feed with the batches.                  *)
LEMMA FeedInductive == StrSpec => []FeedInv
  <1>1. StrInit => FeedInv
    BY FeedInvStarts DEF StrInit
  <1> QED
    BY <1>1, FeedInvStays, PTL DEF StrSpec

(* Where nothing is in hand or on the way, everyone has received it.       *)
LEMMA FeedSound == FeedInv => FeedReachesAll
  <1> SUFFICES ASSUME FeedInv, NEW m \in Message
               PROVE  /\ \A c \in Client : got[c][m] <= 1
                      /\ telling[m].at = "raised" => m \in churned
                      /\ Over(m) /\ m \notin churned \cup unheard =>
                           \A c \in audience[m] : got[c][m] = IF Namesake(m, at[c]) THEN 0 ELSE 1
    BY DEF FeedReachesAll
  <1>1. /\ \A c \in Client : got[c][m] <= 1
        /\ telling[m].at = "raised" => m \in churned
    BY DEF FeedInv, GotOnce, SizesTell
  <1>2. ASSUME Over(m), m \notin churned \cup unheard, NEW c \in audience[m]
        PROVE  got[c][m] = IF Namesake(m, at[c]) THEN 0 ELSE 1
    <2>1. \A p \in Process : ~Sending(m, p) /\ ~Coming(m, p)
      BY <1>2 DEF Over, Coming
    <2>2. telling[m].at # "local"
      BY <1>2 DEF Over
    <2>3. PICK p \in Process :
            /\ at[c] = p
            /\ \/ got[c][m] = 1
               \/ Sending(m, p)
               \/ telling[m].at = "local"
               \/ Coming(m, p)
               \/ Namesake(m, p)
      BY <1>2 DEF FeedInv, StillComing
    <2>4. c \in Client /\ telling[m].at # "no"
      BY <1>2 DEF FeedInv, FeedTyped, HistoryTyped, StillComing
    <2>5. CASE Namesake(m, p)
      BY <2>3, <2>4, <2>5 DEF FeedInv, NamesakesDeaf
    <2>6. CASE ~Namesake(m, p)
      BY <2>1, <2>2, <2>3, <2>6
    <2> QED
      BY <2>5, <2>6
  <1> QED
    BY <1>1, <1>2

(* A message that has run its course has reached once each client of its   *)
(* audience that is not in a namesake of the sender, whose listener drops  *)
(* what bears its own number, and none twice; only comings and goings make *)
(* the caller of broadcast fail (routers/metrics.py:62-97, 133-136).       *)
THEOREM EveryoneHears == StrSpec => []FeedReachesAll
  <1> QED
    BY FeedSound, FeedInductive, PTL

-----------------------------------------------------------------------------
(* The batches of reports.                                                 *)

Receipts == {"ACKNOWLEDGED", "REJECTED"}

(* Types of the batches' variables.                                        *)
RowsTyped ==
  /\ closed \subseteq Alert /\ stamp \in [Alert -> BatchId \cup {None}]
  /\ package \in [BatchId -> SUBSET Alert]
  /\ status \in [BatchId -> {None, "GENERATED"} \cup Receipts]
RequestsTyped ==
  /\ request \in [Message -> [step : StrSteps, batch : BatchId \cup {None},
                              rows : SUBSET Alert, receipt : {None} \cup Receipts]]
  /\ \A m \in Message : request[m].step # "no" => request[m].batch \in BatchId
  /\ \A m \in Message : request[m].step \in {"update", "tell"} => request[m].receipt \in Receipts
StrTyped == RowsTyped /\ RequestsTyped

(* A request gets another entry, the others keep theirs.                   *)
LEMMA NextEntry ==
  ASSUME StrTyped, NEW m \in Message, NEW step \in StrSteps, NEW b \in BatchId, NEW rows \in SUBSET Alert,
         NEW receipt \in {None} \cup Receipts, step \in {"update", "tell"} => receipt \in Receipts,
         request' = [request EXCEPT ![m] = Entry(step, b, rows, receipt)]
  PROVE  /\ RequestsTyped'
         /\ request'[m].step = step /\ request'[m].batch = b
         /\ request'[m].rows = rows /\ request'[m].receipt = receipt
         /\ \A n \in Message \ {m} : request'[n] = request[n]
  BY DEF StrTyped, RequestsTyped, Entry

(* A request that goes on keeps its batch and its rows.                    *)
LEMMA GoesOn ==
  ASSUME StrTyped, NEW m \in Message, NEW step \in StrSteps, NEW receipt \in {None} \cup Receipts,
         request[m].step # "no", step \in {"update", "tell"} => receipt \in Receipts,
         Replied(m, step, receipt)
  PROVE  /\ RequestsTyped'
         /\ request'[m].step = step /\ request'[m].batch = request[m].batch
         /\ request'[m].rows = request[m].rows /\ request'[m].receipt = receipt
         /\ \A n \in Message \ {m} : request'[n] = request[n]
  <1>1. request[m].batch \in BatchId /\ request[m].rows \in SUBSET Alert
    BY DEF StrTyped, RequestsTyped
  <1>2. request' = [request EXCEPT ![m] = Entry(step, request[m].batch, request[m].rows, receipt)]
    BY DEF Replied
  <1> QED
    BY <1>1, <1>2, NextEntry

(* Entry by entry, what each step of the batches does.                     *)
LEMMA ReadToSeal ==
  ASSUME StrTyped, NEW m \in Message, NEW b \in BatchId, GenerateRead(m, b)
  PROVE  /\ RequestsTyped' /\ request'[m].step = "seal" /\ request'[m].batch = b
         /\ request'[m].rows = Unbatched /\ status[b] = None
         /\ \A n \in Message \ {m} : request'[n] = request[n]
         /\ \A n \in Message : request[n].step = "seal" =>
              request[n].batch # b /\ {b, request[n].batch} \in overlaps'
         /\ overlaps \subseteq overlaps'
         /\ UNCHANGED <<closed, stamp, package, status, accepted, excused>>
  <1>1. Unbatched \in SUBSET Alert
    BY DEF Unbatched, StrTyped, RowsTyped
  <1>2. PICK rows \in SUBSET Alert :
          rows = Unbatched /\ request' = [request EXCEPT ![m] = Entry("seal", b, rows, None)]
    BY <1>1 DEF GenerateRead
  <1>c. rows \in SUBSET Alert /\ request' = [request EXCEPT ![m] = Entry("seal", b, rows, None)]
    BY <1>2
  <1>a. "seal" \in StrSteps /\ None \in {None} \cup Receipts
    BY DEF StrSteps
  <1>b. /\ RequestsTyped' /\ request'[m].step = "seal" /\ request'[m].batch = b
        /\ request'[m].rows = rows
        /\ \A n \in Message \ {m} : request'[n] = request[n]
    BY <1>a, <1>c DEF StrTyped, RequestsTyped, Entry
  <1>3. /\ RequestsTyped' /\ request'[m].step = "seal" /\ request'[m].batch = b
        /\ request'[m].rows = Unbatched
        /\ \A n \in Message \ {m} : request'[n] = request[n]
    BY <1>2, <1>b
  <1>4. ASSUME NEW n \in Message, request[n].step = "seal"
        PROVE  request[n].batch # b /\ {b, request[n].batch} \in overlaps'
    <2>1. request[n].batch \in BatchId /\ Compiling(request[n].batch)
      BY <1>4 DEF StrTyped, RequestsTyped, Compiling, Is
    <2> QED
      BY <2>1 DEF GenerateRead
  <1> QED
    BY <1>3, <1>4 DEF GenerateRead, rowVars

(* The package is sealed, or the transaction is rolled back.               *)
LEMMA Seals ==
  ASSUME StrTyped, NEW m \in Message, NEW p \in Process, GenerateSeal(m, p)
  PROVE  /\ RequestsTyped' /\ request[m].step = "seal" /\ request'[m].step = "done"
         /\ request[m].batch \in BatchId
         /\ \A n \in Message \ {m} : request'[n] = request[n]
         /\ \/ /\ \A b \in BatchId : package'[b] = IF b = request[m].batch THEN request[m].rows ELSE package[b]
               /\ \A a \in Alert : stamp'[a] = IF a \in request[m].rows THEN request[m].batch ELSE stamp[a]
               /\ \A b \in BatchId : status'[b] = IF b = request[m].batch THEN "GENERATED" ELSE status[b]
            \/ UNCHANGED <<stamp, package, status>>
         /\ RowsTyped'
         /\ UNCHANGED <<closed, accepted, excused, overlaps>>
  <1>1. request[m].step = "seal" /\ request[m].receipt \in {None} \cup Receipts
    BY DEF GenerateSeal, Is, StrTyped, RequestsTyped
  <1>2. Replied(m, "done", request[m].receipt)
    BY DEF GenerateSeal, To
  <1>3. /\ RequestsTyped' /\ request'[m].step = "done"
        /\ \A n \in Message \ {m} : request'[n] = request[n]
    BY <1>1, <1>2, GoesOn DEF StrSteps
  <1>4. request[m].batch \in BatchId /\ request[m].rows \subseteq Alert
    BY <1>1 DEF StrTyped, RequestsTyped
  <1>5. CASE UNCHANGED rowVars
    BY <1>1, <1>3, <1>4, <1>5 DEF GenerateSeal, rowVars, StrTyped, RowsTyped
  <1>6. CASE /\ package' = [package EXCEPT ![request[m].batch] = request[m].rows]
             /\ stamp' = [a \in Alert |-> IF a \in request[m].rows THEN request[m].batch ELSE stamp[a]]
             /\ status' = [status EXCEPT ![request[m].batch] = "GENERATED"]
    <2>1. UNCHANGED <<closed, accepted, excused, overlaps>>
      BY DEF GenerateSeal
    <2>2. RowsTyped'
      BY <1>4, <1>6, <2>1 DEF StrTyped, RowsTyped
    <2>3. /\ \A b \in BatchId : package'[b] = IF b = request[m].batch THEN request[m].rows ELSE package[b]
          /\ \A a \in Alert : stamp'[a] = IF a \in request[m].rows THEN request[m].batch ELSE stamp[a]
          /\ \A b \in BatchId : status'[b] = IF b = request[m].batch THEN "GENERATED" ELSE status[b]
      BY <1>4, <1>6 DEF StrTyped, RowsTyped
    <2> QED
      BY <1>1, <1>3, <1>4, <2>1, <2>2, <2>3
  <1> QED
    BY <1>5, <1>6 DEF GenerateSeal

(* A request reads the package it will transmit.                           *)
LEMMA ReadToSubmit ==
  ASSUME StrTyped, NEW m \in Message, NEW b \in BatchId, TransmitRead(m, b)
  PROVE  /\ RequestsTyped' /\ request[m].step = "no"
         /\ request'[m].step = "submit" /\ request'[m].batch = b /\ status[b] # None
         /\ \A n \in Message \ {m} : request'[n] = request[n]
         /\ UNCHANGED <<closed, stamp, package, status, accepted, excused, overlaps>>
  <1>1. request' = [request EXCEPT ![m] = Entry("submit", b, {}, None)]
    BY DEF TransmitRead
  <1>2. /\ RequestsTyped' /\ request'[m].step = "submit" /\ request'[m].batch = b
        /\ \A n \in Message \ {m} : request'[n] = request[n]
    BY <1>1, NextEntry DEF StrSteps
  <1>3. request[m].step = "no"
    BY DEF TransmitRead, NoRequest, Entry
  <1> QED
    BY <1>2, <1>3 DEF TransmitRead, rowVars

(* The gateway answers, or the answer is lost.                             *)
LEMMA Submits ==
  ASSUME StrTyped, NEW m \in Message, TransmitSubmit(m)
  PROVE  LET b == request[m].batch IN
         /\ RequestsTyped' /\ request[m].step = "submit" /\ request'[m].batch = b
         /\ b \in BatchId
         /\ \A n \in Message \ {m} : request'[n] = request[n]
         /\ excused \subseteq excused' /\ accepted' \subseteq accepted \cup {b}
         /\ \/ request'[m].step = "update" /\ (request'[m].receipt = "ACKNOWLEDGED" \/ b \in excused')
            \/ request'[m].step = "done" /\ b \in excused'
         /\ UNCHANGED <<closed, stamp, package, status, overlaps>>
  <1>1. request[m].step = "submit"
    BY DEF TransmitSubmit, Is
  <1>2. request[m].batch \in BatchId /\ request[m].receipt \in {None} \cup Receipts
    BY <1>1 DEF StrTyped, RequestsTyped
  <1>3. ASSUME NEW receipt \in Receipts, Replied(m, "update", receipt)
        PROVE  /\ RequestsTyped' /\ request'[m].batch = request[m].batch
               /\ request'[m].step = "update" /\ request'[m].receipt = receipt
               /\ \A n \in Message \ {m} : request'[n] = request[n]
    BY <1>1, <1>3, GoesOn DEF StrSteps
  <1>4. ASSUME To(m, "done")
        PROVE  /\ RequestsTyped' /\ request'[m].batch = request[m].batch
               /\ request'[m].step = "done"
               /\ \A n \in Message \ {m} : request'[n] = request[n]
    BY <1>1, <1>2, <1>4, GoesOn DEF StrSteps, To
  <1>5. UNCHANGED <<closed, stamp, package, status, overlaps>>
    BY DEF TransmitSubmit, rowVars
  <1>6. CASE \E receipt \in Receipts :
               /\ Replied(m, "update", receipt)
               /\ accepted' = IF receipt = "ACKNOWLEDGED" THEN accepted \cup {request[m].batch} ELSE accepted
               /\ excused' = IF receipt = "REJECTED" THEN excused \cup {request[m].batch} ELSE excused
    BY <1>1, <1>2, <1>3, <1>5, <1>6 DEF Receipts
  <1>7. CASE /\ Fault(request[m].batch) /\ To(m, "done")
             /\ accepted' \in {accepted, accepted \cup {request[m].batch}}
    BY <1>1, <1>2, <1>4, <1>5, <1>7 DEF Fault
  <1> QED
    BY <1>6, <1>7 DEF TransmitSubmit, Receipts

(* The request tells the dashboards with the answer in hand.               *)
LEMMA Updates ==
  ASSUME StrTyped, NEW m \in Message, NEW p \in Process, TransmitUpdate(m, p)
  PROVE  /\ RequestsTyped' /\ request[m].step = "update" /\ request'[m].step = "tell"
         /\ request'[m].batch = request[m].batch /\ request'[m].receipt = request[m].receipt
         /\ \A n \in Message \ {m} : request'[n] = request[n]
         /\ UNCHANGED <<closed, stamp, package, status, accepted, excused, overlaps>>
  <1>1. request[m].step = "update" /\ Replied(m, "tell", request[m].receipt)
    BY DEF TransmitUpdate, Is, To
  <1>2. request[m].receipt \in Receipts
    BY <1>1 DEF StrTyped, RequestsTyped
  <1>3. /\ RequestsTyped' /\ request'[m].step = "tell"
        /\ request'[m].batch = request[m].batch /\ request'[m].receipt = request[m].receipt
        /\ \A n \in Message \ {m} : request'[n] = request[n]
    BY <1>1, <1>2, GoesOn DEF StrSteps
  <1> QED
    BY <1>1, <1>3 DEF TransmitUpdate, rowVars

(* The transaction commits the answer, or there is an excuse.              *)
LEMMA Settles ==
  ASSUME StrTyped, FeedReachesAll, NEW m \in Message, TransmitEnd(m)
  PROVE  LET b == request[m].batch IN
         /\ RequestsTyped' /\ request[m].step = "tell" /\ request'[m].step = "done"
         /\ b \in BatchId /\ request[m].receipt \in Receipts
         /\ \A n \in Message \ {m} : request'[n] = request[n]
         /\ excused \subseteq excused'
         /\ \A c \in BatchId \ {b} : status'[c] = status[c]
         /\ \/ status'[b] = request[m].receipt
            \/ status'[b] = status[b] /\ b \in excused'
         /\ RowsTyped'
         /\ UNCHANGED <<closed, stamp, package, accepted, overlaps>>
  <1>1. request[m].step = "tell" /\ Replied(m, "done", request[m].receipt)
    BY DEF TransmitEnd, Is, To
  <1>2. request[m].receipt \in Receipts /\ request[m].batch \in BatchId
    BY <1>1 DEF StrTyped, RequestsTyped
  <1>3. /\ RequestsTyped' /\ request'[m].step = "done"
        /\ \A n \in Message \ {m} : request'[n] = request[n]
    BY <1>1, <1>2, GoesOn DEF StrSteps
  <1>4. UNCHANGED <<closed, stamp, package, accepted, overlaps>>
    BY DEF TransmitEnd
  <1>5. \/ status' = [status EXCEPT ![request[m].batch] = request[m].receipt] /\ UNCHANGED excused
        \/ UNCHANGED status /\ excused' = excused \cup {request[m].batch}
    BY DEF TransmitEnd, FeedReachesAll, Fault
  <1>6. /\ RowsTyped' /\ excused \subseteq excused'
        /\ \A c \in BatchId \ {request[m].batch} : status'[c] = status[c]
        /\ \/ status'[request[m].batch] = request[m].receipt
           \/ status'[request[m].batch] = status[request[m].batch] /\ request[m].batch \in excused'
    <2>1. CASE status' = [status EXCEPT ![request[m].batch] = request[m].receipt] /\ UNCHANGED excused
      BY <1>2, <1>4, <2>1 DEF StrTyped, RowsTyped
    <2>2. CASE UNCHANGED status /\ excused' = excused \cup {request[m].batch}
      BY <1>2, <1>4, <2>2 DEF StrTyped, RowsTyped
    <2> QED
      BY <1>5, <2>1, <2>2
  <1> QED
    BY <1>1, <1>2, <1>3, <1>4, <1>6

(* The types of the batches step by step.                                  *)
LEMMA StrTypesStay ==
  ASSUME StrTyped, FeedReachesAll, [StrNext]_strVars
  PROVE  StrTyped'
  <1>r. UNCHANGED rowVars /\ closed' \subseteq Alert => RowsTyped'
    BY DEF StrTyped, RowsTyped, rowVars
  <1>q. UNCHANGED request => RequestsTyped'
    BY DEF StrTyped, RequestsTyped
  <1>0. UNCHANGED batchVars => StrTyped'
    BY <1>r, <1>q DEF batchVars, rowVars, StrTyped, RowsTyped
  <1>1. ASSUME NEW a \in Alert, CloseSar(a) PROVE StrTyped'
    BY <1>1, <1>r, <1>q DEF CloseSar, StrTyped, RowsTyped
  <1>2. ASSUME NEW m \in Message, NEW b \in BatchId, GenerateRead(m, b) PROVE StrTyped'
    BY <1>2, <1>r, ReadToSeal DEF StrTyped, RowsTyped, rowVars
  <1>3. ASSUME NEW m \in Message, NEW b \in BatchId, TransmitRead(m, b) PROVE StrTyped'
    BY <1>3, <1>r, ReadToSubmit DEF StrTyped, RowsTyped, rowVars
  <1>4. ASSUME NEW m \in Message, TransmitSubmit(m) PROVE StrTyped'
    BY <1>4, <1>r, Submits DEF StrTyped, RowsTyped, rowVars
  <1>5. ASSUME NEW m \in Message, TransmitEnd(m) PROVE StrTyped'
    BY <1>5, Settles DEF StrTyped
  <1>6. ASSUME NEW m \in Message, NEW p \in Process, GenerateSeal(m, p) PROVE StrTyped'
    BY <1>6, Seals DEF StrTyped
  <1>7. ASSUME NEW m \in Message, NEW p \in Process, TransmitUpdate(m, p) PROVE StrTyped'
    BY <1>7, <1>r, Updates DEF StrTyped, RowsTyped, rowVars
  <1> QED
    BY <1>0, <1>1, <1>2, <1>3, <1>4, <1>5, <1>6, <1>7 DEF StrNext, strVars

(* What is being sealed goes into a package that does not exist yet; its   *)
(* rows are in no package but those compiled at the same time.             *)
SealsApart ==
  \A m \in Message : request[m].step = "seal" =>
    /\ status[request[m].batch] = None
    /\ \A b \in BatchId, a \in request[m].rows : a \in package[b] => {request[m].batch, b} \in overlaps
    /\ \A n \in Message \ {m} : request[n].step = "seal" =>
         request[n].batch # request[m].batch /\ {request[m].batch, request[n].batch} \in overlaps

(* Packages, marks and statuses agree.                                     *)
RowsAgree ==
  /\ \A b \in BatchId, a \in Alert : a \in package[b] => status[b] # None /\ stamp[a] # None
  /\ \A a \in Alert : stamp[a] # None => a \in package[stamp[a]]
  /\ \A b, c \in BatchId, a \in Alert : a \in package[b] /\ a \in package[c] => b = c \/ {b, c} \in overlaps

(* Whoever transmits has a package in hand that exists, and after the      *)
(* gateway has answered the answer is the one the row should have.         *)
TransmitsKnown ==
  \A m \in Message :
    /\ request[m].step \in {"submit", "update", "tell"} => status[request[m].batch] # None
    /\ request[m].step \in {"update", "tell"} /\ request[m].batch \notin excused =>
         request[m].receipt = "ACKNOWLEDGED"

StrInv == StrTyped /\ SealsApart /\ RowsAgree /\ TransmitsKnown /\ accepted \subseteq BatchId

(* The invariant of the batches holds at first.                            *)
LEMMA StrStarts == StrInit => StrInv /\ AcceptedIsAcknowledged
  <1> SUFFICES ASSUME StrInit PROVE StrInv /\ AcceptedIsAcknowledged
    OBVIOUS
  <1>1. \A m \in Message : request[m].step = "no"
    BY DEF StrInit, NoRequest, Entry
  <1>2. StrTyped
    BY DEF StrInit, StrTyped, RowsTyped, RequestsTyped, NoRequest, Entry, StrSteps
  <1>3. SealsApart /\ TransmitsKnown
    BY <1>1 DEF SealsApart, TransmitsKnown
  <1>4. RowsAgree /\ accepted \subseteq BatchId /\ AcceptedIsAcknowledged
    BY DEF StrInit, RowsAgree, AcceptedIsAcknowledged
  <1> QED
    BY <1>2, <1>3, <1>4 DEF StrInv

(* A request that seals nothing, and leaves the rows alone.                *)
LEMMA RowsUntouched ==
  ASSUME StrInv, UNCHANGED <<stamp, package, status>>, overlaps \subseteq overlaps',
         \A n \in Message : request'[n].step = "seal" => request'[n] = request[n]
  PROVE  SealsApart' /\ RowsAgree'
  <1>1. SealsApart'
    BY DEF StrInv, SealsApart
  <1>2. RowsAgree'
    BY DEF StrInv, RowsAgree
  <1> QED
    BY <1>1, <1>2

(* Packages, marks and statuses step by step.                              *)
LEMMA SealsStay ==
  ASSUME StrInv, FeedReachesAll, [StrNext]_strVars
  PROVE  SealsApart' /\ RowsAgree'
  <1>0. UNCHANGED batchVars => SealsApart' /\ RowsAgree'
    BY RowsUntouched DEF batchVars
  <1>1. ASSUME NEW a \in Alert, CloseSar(a) PROVE SealsApart' /\ RowsAgree'
    BY <1>1, RowsUntouched DEF CloseSar, rowVars
  <1>2. ASSUME NEW m \in Message, NEW b \in BatchId, GenerateRead(m, b)
        PROVE  SealsApart' /\ RowsAgree'
    <2>1. /\ request'[m].step = "seal" /\ request'[m].batch = b
          /\ request'[m].rows = Unbatched /\ status[b] = None
          /\ \A n \in Message \ {m} : request'[n] = request[n]
          /\ \A n \in Message : request[n].step = "seal" =>
               request[n].batch # b /\ {b, request[n].batch} \in overlaps'
          /\ overlaps \subseteq overlaps'
          /\ UNCHANGED <<stamp, package, status>>
      BY <1>2, ReadToSeal DEF StrInv
    <2>2. RowsAgree'
      BY <2>1 DEF StrInv, RowsAgree
    <2>3. \A a \in Unbatched : a \in Alert /\ stamp[a] = None
      BY DEF Unbatched, StrInv, StrTyped, RowsTyped
    <2>4. \A a \in Unbatched, c \in BatchId : a \notin package[c]
      BY <2>3 DEF StrInv, RowsAgree
    <2>5. \A n \in Message : request[n].step = "seal" => {request[n].batch, b} \in overlaps'
      <3>1. \A n \in Message : {request[n].batch, b} = {b, request[n].batch}
        OBVIOUS
      <3> QED
        BY <2>1, <3>1
    <2>6. SealsApart'
      <3> SUFFICES ASSUME NEW n \in Message, request'[n].step = "seal"
                   PROVE  /\ status'[request'[n].batch] = None
                          /\ \A c \in BatchId, a \in request'[n].rows :
                               a \in package'[c] => {request'[n].batch, c} \in overlaps'
                          /\ \A k \in Message \ {n} : request'[k].step = "seal" =>
                               /\ request'[k].batch # request'[n].batch
                               /\ {request'[n].batch, request'[k].batch} \in overlaps'
        BY DEF SealsApart
      <3>1. CASE n = m
        BY <2>1, <2>4, <3>1
      <3>2. CASE n # m
        <4>1. /\ request'[n] = request[n] /\ status[request[n].batch] = None
              /\ \A c \in BatchId, a \in request[n].rows :
                   a \in package[c] => {request[n].batch, c} \in overlaps
          BY <2>1, <3>2 DEF StrInv, SealsApart
        <4>2. ASSUME NEW k \in Message \ {n}, request'[k].step = "seal"
              PROVE  /\ request'[k].batch # request[n].batch
                     /\ {request[n].batch, request'[k].batch} \in overlaps'
          <5>1. CASE k = m
            BY <2>1, <2>5, <4>1, <5>1
          <5>2. CASE k # m
            BY <2>1, <4>1, <4>2, <5>2 DEF StrInv, SealsApart
          <5> QED
            BY <5>1, <5>2
        <4> QED
          BY <2>1, <4>1, <4>2
      <3> QED
        BY <3>1, <3>2
    <2> QED
      BY <2>2, <2>6
  <1>3. ASSUME NEW m \in Message, NEW b \in BatchId, TransmitRead(m, b)
        PROVE  SealsApart' /\ RowsAgree'
    <2>1. \A n \in Message : request'[n].step = "seal" => request'[n] = request[n]
      BY <1>3, ReadToSubmit DEF StrInv
    <2> QED
      BY <1>3, <2>1, RowsUntouched DEF TransmitRead, rowVars
  <1>4. ASSUME NEW m \in Message, TransmitSubmit(m) PROVE SealsApart' /\ RowsAgree'
    <2>1. /\ request'[m].step \in {"update", "done"}
          /\ \A n \in Message \ {m} : request'[n] = request[n]
      BY <1>4, Submits DEF StrInv
    <2> QED
      BY <1>4, <2>1, RowsUntouched DEF TransmitSubmit, rowVars
  <1>5. ASSUME NEW m \in Message, TransmitEnd(m) PROVE SealsApart' /\ RowsAgree'
    <2>1. LET b == request[m].batch IN
          /\ request[m].step = "tell" /\ request'[m].step = "done"
          /\ b \in BatchId /\ request[m].receipt \in Receipts
          /\ \A n \in Message \ {m} : request'[n] = request[n]
          /\ \A c \in BatchId \ {b} : status'[c] = status[c]
          /\ status'[b] = request[m].receipt \/ status'[b] = status[b]
          /\ UNCHANGED <<stamp, package, overlaps>>
      BY <1>5, Settles DEF StrInv
    <2>2. status[request[m].batch] # None
      BY <2>1 DEF StrInv, TransmitsKnown
    <2>3. \A c \in BatchId : status'[c] = None <=> status[c] = None
      BY <2>1, <2>2 DEF Receipts, None
    <2>4. RowsAgree'
      BY <2>1, <2>3 DEF StrInv, RowsAgree
    <2>5. \A n \in Message : request'[n].step = "seal" => request'[n] = request[n] /\ request[n].batch \in BatchId
      BY <2>1 DEF StrInv, StrTyped, RequestsTyped
    <2>6. SealsApart'
      BY <2>1, <2>3, <2>5 DEF StrInv, SealsApart
    <2> QED
      BY <2>4, <2>6
  <1>6. ASSUME NEW m \in Message, NEW p \in Process, GenerateSeal(m, p)
        PROVE  SealsApart' /\ RowsAgree'
    <2>1. /\ request[m].step = "seal" /\ request'[m].step = "done"
          /\ request[m].batch \in BatchId
          /\ \A n \in Message \ {m} : request'[n] = request[n]
          /\ UNCHANGED overlaps
      BY <1>6, Seals DEF StrInv
    <2>2. CASE UNCHANGED <<stamp, package, status>>
      BY <2>1, <2>2, RowsUntouched
    <2>3. CASE /\ \A b \in BatchId : package'[b] = IF b = request[m].batch THEN request[m].rows ELSE package[b]
               /\ \A a \in Alert : stamp'[a] = IF a \in request[m].rows THEN request[m].batch ELSE stamp[a]
               /\ \A b \in BatchId : status'[b] = IF b = request[m].batch THEN "GENERATED" ELSE status[b]
      <3> DEFINE o == request[m].batch
                 rows == request[m].rows
      <3>0. None \notin BatchId
        BY BatchAssumption
      <3>1. /\ status[o] = None /\ o \in BatchId /\ o # None
            /\ \A b \in BatchId, a \in rows : a \in package[b] => {o, b} \in overlaps
            /\ rows \subseteq Alert
        BY <2>1, <3>0 DEF StrInv, SealsApart, StrTyped, RequestsTyped
      <3>2. \A n \in Message \ {m} : request[n].step = "seal" =>
              request[n].batch # o /\ {request[n].batch, o} \in overlaps
        BY <2>1 DEF StrInv, SealsApart
      <3>3. \A a \in Alert : a \notin package[o] /\ stamp[a] # o
        BY <3>1 DEF StrInv, RowsAgree
      <3>4. \A b \in BatchId : b # o => package'[b] = package[b] /\ status'[b] = status[b]
        BY <2>3
      <3>5. package'[o] = rows /\ status'[o] = "GENERATED"
        BY <2>3, <3>1
      <3>6. \A a \in Alert : stamp'[a] = IF a \in rows THEN o ELSE stamp[a]
        BY <2>3
      <3>7. "GENERATED" # None
        BY DEF None
      <3> HIDE DEF o, rows
      <3>8. \A b \in BatchId, a \in Alert : a \in package'[b] => status'[b] # None /\ stamp'[a] # None
        BY <3>1, <3>4, <3>5, <3>6, <3>7 DEF StrInv, RowsAgree
      <3>9. \A a \in Alert : stamp'[a] # None => a \in package'[stamp'[a]]
        <4> SUFFICES ASSUME NEW a \in Alert, stamp'[a] # None PROVE a \in package'[stamp'[a]]
          OBVIOUS
        <4>1. CASE a \in rows
          BY <3>5, <3>6, <4>1
        <4>2. CASE a \notin rows
          <5>1. stamp'[a] = stamp[a] /\ stamp[a] # o /\ stamp[a] \in BatchId
            BY <3>3, <3>6, <4>2 DEF StrInv, StrTyped, RowsTyped
          <5> QED
            BY <3>4, <5>1 DEF StrInv, RowsAgree
        <4> QED
          BY <4>1, <4>2
      <3>10. \A b, c \in BatchId, a \in Alert :
               a \in package'[b] /\ a \in package'[c] => b = c \/ {b, c} \in overlaps
        <4> SUFFICES ASSUME NEW b \in BatchId, NEW c \in BatchId, NEW a \in Alert,
                            a \in package'[b], a \in package'[c], b # c
                     PROVE  {b, c} \in overlaps
          OBVIOUS
        <4>1. CASE b # o /\ c # o
          BY <3>4, <4>1 DEF StrInv, RowsAgree
        <4>2. CASE b = o
          <5>1. a \in rows /\ a \in package[c]
            BY <3>4, <3>5, <4>2
          <5> QED
            BY <3>1, <4>2, <5>1
        <4>3. CASE c = o
          <5>1. a \in rows /\ a \in package[b]
            BY <3>4, <3>5, <4>3
          <5>2. {o, b} \in overlaps
            BY <3>1, <5>1
          <5>3. {o, b} = {b, c}
            BY <4>3
          <5> QED
            BY <5>2, <5>3
        <4> QED
          BY <4>1, <4>2, <4>3
      <3>11. RowsAgree'
        BY <2>1, <3>8, <3>9, <3>10 DEF RowsAgree
      <3>12. SealsApart'
        <4> SUFFICES ASSUME NEW n \in Message, request'[n].step = "seal"
                     PROVE  /\ status'[request'[n].batch] = None
                            /\ \A b \in BatchId, a \in request'[n].rows :
                                 a \in package'[b] => {request'[n].batch, b} \in overlaps'
                            /\ \A k \in Message \ {n} : request'[k].step = "seal" =>
                                 /\ request'[k].batch # request'[n].batch
                                 /\ {request'[n].batch, request'[k].batch} \in overlaps'
          BY DEF SealsApart
        <4>1. n # m /\ request'[n] = request[n] /\ request[n].batch \in BatchId
          BY <2>1 DEF StrInv, StrTyped, RequestsTyped
        <4>2. request[n].batch # o /\ {request[n].batch, o} \in overlaps
          BY <3>2, <4>1
        <4>3. status'[request[n].batch] = None
          BY <3>4, <4>1, <4>2 DEF StrInv, SealsApart
        <4>4. \A b \in BatchId, a \in request[n].rows : a \in package'[b] => {request[n].batch, b} \in overlaps
          BY <3>4, <4>1, <4>2 DEF StrInv, SealsApart
        <4>5. \A k \in Message \ {n} : request'[k].step = "seal" =>
                /\ request'[k].batch # request[n].batch
                /\ {request[n].batch, request'[k].batch} \in overlaps
          BY <2>1, <4>1 DEF StrInv, SealsApart
        <4> QED
          BY <2>1, <4>1, <4>3, <4>4, <4>5
      <3> QED
        BY <3>11, <3>12
    <2> QED
      BY <1>6, <2>2, <2>3, Seals DEF StrInv
  <1>7. ASSUME NEW m \in Message, NEW p \in Process, TransmitUpdate(m, p)
        PROVE  SealsApart' /\ RowsAgree'
    <2>1. /\ request'[m].step = "tell"
          /\ \A n \in Message \ {m} : request'[n] = request[n]
      BY <1>7, Updates DEF StrInv
    <2> QED
      BY <1>7, <2>1, RowsUntouched DEF TransmitUpdate, rowVars
  <1> QED
    BY <1>0, <1>1, <1>2, <1>3, <1>4, <1>5, <1>6, <1>7 DEF StrNext, strVars

(* Somebody is transmitting b and has an answer that b's row will get.     *)
InHand(b) == \E m \in Message : request[m].step \in {"update", "tell"} /\ request[m].batch = b

(* The transmissions step by step: what is in hand, what the gateway has   *)
(* accepted, and what the row says.                                        *)
LEMMA AnswersStay ==
  ASSUME StrInv, AcceptedIsAcknowledged, FeedReachesAll, [StrNext]_strVars
  PROVE  TransmitsKnown' /\ AcceptedIsAcknowledged' /\ accepted' \subseteq BatchId
  <1> USE DEF StrInv
  <1>a. AcceptedIsAcknowledged <=> \A b \in accepted \ excused : status[b] = "ACKNOWLEDGED" \/ InHand(b)
    BY DEF AcceptedIsAcknowledged, InHand
  <1>b. AcceptedIsAcknowledged' <=>
          \A b \in accepted' \ excused' : status'[b] = "ACKNOWLEDGED" \/ InHand(b)'
    BY DEF AcceptedIsAcknowledged, InHand
  <1>t. \A m \in Message : request[m].step # "no" => request[m].batch \in BatchId
    BY DEF StrTyped, RequestsTyped
  <1>0. ASSUME UNCHANGED <<status, accepted, excused>>,
               \A n \in Message : \/ request'[n] = request[n]
                                  \/ /\ request[n].step \notin {"update", "tell"}
                                     /\ request'[n].step \notin {"submit", "update", "tell"}
        PROVE  TransmitsKnown' /\ AcceptedIsAcknowledged' /\ accepted' \subseteq BatchId
    <2>1. TransmitsKnown'
      BY <1>0 DEF TransmitsKnown
    <2>2. \A b \in BatchId : InHand(b) => InHand(b)'
      BY <1>0 DEF InHand
    <2> QED
      BY <1>0, <1>a, <1>b, <2>1, <2>2
  <1>1. ASSUME NEW a \in Alert, CloseSar(a) 
        PROVE  TransmitsKnown' /\ AcceptedIsAcknowledged' /\ accepted' \subseteq BatchId
    BY <1>0, <1>1 DEF CloseSar, rowVars
  <1>2. ASSUME NEW m \in Message, NEW b \in BatchId, GenerateRead(m, b)
        PROVE  TransmitsKnown' /\ AcceptedIsAcknowledged' /\ accepted' \subseteq BatchId
    <2>1. /\ request'[m].step = "seal" /\ \A n \in Message \ {m} : request'[n] = request[n]
          /\ UNCHANGED <<status, accepted, excused>>
      BY <1>2, ReadToSeal
    <2>2. request[m].step = "no"
      BY <1>2 DEF GenerateRead, NoRequest, Entry
    <2> QED
      BY <1>0, <2>1, <2>2
  <1>3. ASSUME NEW m \in Message, NEW b \in BatchId, TransmitRead(m, b)
        PROVE  TransmitsKnown' /\ AcceptedIsAcknowledged' /\ accepted' \subseteq BatchId
    <2>1. /\ request[m].step = "no" /\ request'[m].step = "submit" /\ request'[m].batch = b
          /\ status[b] # None
          /\ \A n \in Message \ {m} : request'[n] = request[n]
          /\ UNCHANGED <<status, accepted, excused>>
      BY <1>3, ReadToSubmit
    <2>2. TransmitsKnown'
      BY <2>1 DEF TransmitsKnown
    <2>3. \A c \in BatchId : InHand(c) => InHand(c)'
      BY <2>1 DEF InHand
    <2> QED
      BY <1>a, <1>b, <2>1, <2>2, <2>3
  <1>4. ASSUME NEW m \in Message, TransmitSubmit(m)
        PROVE  TransmitsKnown' /\ AcceptedIsAcknowledged' /\ accepted' \subseteq BatchId
    <2>1. LET b == request[m].batch IN
          /\ request[m].step = "submit" /\ request'[m].batch = b /\ b \in BatchId
          /\ \A n \in Message \ {m} : request'[n] = request[n]
          /\ excused \subseteq excused' /\ accepted' \subseteq accepted \cup {b}
          /\ \/ request'[m].step = "update" /\ (request'[m].receipt = "ACKNOWLEDGED" \/ b \in excused')
             \/ request'[m].step = "done" /\ b \in excused'
          /\ UNCHANGED status
      BY <1>4, Submits
    <2>2. TransmitsKnown'
      BY <2>1 DEF TransmitsKnown
    <2>3. \A c \in BatchId : InHand(c) => InHand(c)'
      BY <2>1 DEF InHand
    <2>4. request[m].batch \in excused' \/ InHand(request[m].batch)'
      BY <2>1 DEF InHand
    <2>5. accepted' \subseteq BatchId
      BY <2>1
    <2>6. ASSUME NEW c \in accepted' \ excused' PROVE status'[c] = "ACKNOWLEDGED" \/ InHand(c)'
      <3>1. CASE c = request[m].batch
        <4>1. \E n \in Message : request'[n].step \in {"update", "tell"} /\ request'[n].batch = c
          BY <2>1, <3>1
        <4> QED
          BY <4>1 DEF InHand
      <3>2. CASE c # request[m].batch
        BY <1>a, <2>1, <2>3, <2>5, <3>2
      <3> QED
        BY <3>1, <3>2
    <2> QED
      BY <1>b, <2>2, <2>5, <2>6
  <1>5. ASSUME NEW m \in Message, TransmitEnd(m)
        PROVE  TransmitsKnown' /\ AcceptedIsAcknowledged' /\ accepted' \subseteq BatchId
    <2>1. LET b == request[m].batch IN
          /\ request[m].step = "tell" /\ request'[m].step = "done"
          /\ b \in BatchId /\ request[m].receipt \in Receipts
          /\ \A n \in Message \ {m} : request'[n] = request[n]
          /\ excused \subseteq excused'
          /\ \A c \in BatchId \ {b} : status'[c] = status[c]
          /\ \/ status'[b] = request[m].receipt
             \/ status'[b] = status[b] /\ b \in excused'
          /\ UNCHANGED accepted
      BY <1>5, Settles
    <2>2. status[request[m].batch] # None
      BY <2>1 DEF TransmitsKnown
    <2>3. \A c \in BatchId : status[c] # None => status'[c] # None
      BY <2>1, <2>2 DEF Receipts, None
    <2>4. TransmitsKnown'
      BY <1>t, <2>1, <2>3 DEF TransmitsKnown
    <2>5. \A c \in BatchId : InHand(c) /\ c # request[m].batch => InHand(c)'
      BY <2>1 DEF InHand
    <2>6. request[m].batch \in excused' \/ status'[request[m].batch] = "ACKNOWLEDGED"
      BY <2>1 DEF TransmitsKnown
    <2>7. ASSUME NEW c \in accepted' \ excused' PROVE status'[c] = "ACKNOWLEDGED" \/ InHand(c)'
      <3>1. c \in BatchId /\ c \in accepted \ excused
        BY <2>1
      <3> QED
        BY <1>a, <2>1, <2>5, <2>6, <3>1
    <2> QED
      BY <1>b, <2>1, <2>4, <2>7
  <1>6. ASSUME NEW m \in Message, NEW p \in Process, GenerateSeal(m, p)
        PROVE  TransmitsKnown' /\ AcceptedIsAcknowledged' /\ accepted' \subseteq BatchId
    <2>1. /\ request[m].step = "seal" /\ request'[m].step = "done"
          /\ request[m].batch \in BatchId
          /\ \A n \in Message \ {m} : request'[n] = request[n]
          /\ \A b \in BatchId : status'[b] = status[b] \/ (b = request[m].batch /\ status'[b] = "GENERATED")
          /\ UNCHANGED <<accepted, excused>>
      BY <1>6, Seals
    <2>2. status[request[m].batch] = None
      BY <2>1 DEF SealsApart
    <2>3. \A b \in BatchId : status[b] # None => status'[b] = status[b]
      BY <2>1, <2>2
    <2>4. TransmitsKnown'
      BY <1>t, <2>1, <2>3 DEF TransmitsKnown
    <2>5. \A c \in BatchId : InHand(c) => InHand(c)'
      BY <2>1 DEF InHand
    <2>6. "ACKNOWLEDGED" # None
      BY DEF None
    <2> QED
      BY <1>a, <1>b, <2>1, <2>3, <2>4, <2>5, <2>6
  <1>7. ASSUME NEW m \in Message, NEW p \in Process, TransmitUpdate(m, p)
        PROVE  TransmitsKnown' /\ AcceptedIsAcknowledged' /\ accepted' \subseteq BatchId
    <2>1. /\ request[m].step = "update" /\ request'[m].step = "tell"
          /\ request'[m].batch = request[m].batch /\ request'[m].receipt = request[m].receipt
          /\ \A n \in Message \ {m} : request'[n] = request[n]
          /\ UNCHANGED <<status, accepted, excused>>
      BY <1>7, Updates
    <2>2. TransmitsKnown'
      BY <2>1 DEF TransmitsKnown
    <2>3. \A c \in BatchId : InHand(c) => InHand(c)'
      BY <2>1 DEF InHand
    <2> QED
      BY <1>a, <1>b, <2>1, <2>2, <2>3
  <1>8. UNCHANGED batchVars => TransmitsKnown' /\ AcceptedIsAcknowledged' /\ accepted' \subseteq BatchId
    BY <1>0 DEF batchVars
  <1> QED
    BY <1>1, <1>2, <1>3, <1>4, <1>5, <1>6, <1>7, <1>8 DEF StrNext, strVars

(* The invariant of the batches step by step.                              *)
LEMMA StrStays ==
  ASSUME StrInv, AcceptedIsAcknowledged, FeedReachesAll, [StrNext]_strVars
  PROVE  StrInv' /\ AcceptedIsAcknowledged'
  <1>1. StrTyped'
    BY StrTypesStay DEF StrInv
  <1> QED
    BY <1>1, SealsStay, AnswersStay DEF StrInv

(* The invariant of the batches holds.                                     *)
LEMMA StrInductive == StrSpec => [](StrInv /\ AcceptedIsAcknowledged)
  <1>1. StrInv /\ AcceptedIsAcknowledged /\ FeedReachesAll /\ [StrNext]_strVars
          => StrInv' /\ AcceptedIsAcknowledged'
    BY StrStays
  <1> QED
    BY <1>1, StrStarts, EveryoneHears, PTL DEF StrSpec

(* The live feed and the batches keep the types of their state.            *)
THEOREM BatchTypes == StrSpec => []StrTypeOK
  <1>1. FeedInv /\ StrInv => StrTypeOK
    BY DEF StrTypeOK, FeedTypeOK, FeedInv, FeedTyped, SocketsTyped, CallsTyped, HistoryTyped,
           StrInv, StrTyped, RowsTyped, RequestsTyped
  <1> QED
    BY <1>1, FeedInductive, StrInductive, PTL

(* Batches and marks agree, and what the gateway accepted is acknowledged. *)
THEOREM BatchesSealed == StrSpec => []BatchesStand
  <1>1. StrInv /\ AcceptedIsAcknowledged => BatchesStand
    <2> SUFFICES ASSUME StrInv, AcceptedIsAcknowledged PROVE BatchesStand
      OBVIOUS
    <2>1. \A b, c \in BatchId : \A a \in package[b] \cap package[c] : a \in Alert
      BY DEF StrInv, StrTyped, RowsTyped
    <2>2. ReportsSealed
      BY <2>1 DEF StrInv, RowsAgree, ReportsSealed
    <2> QED
      BY <2>2 DEF BatchesStand
  <1> QED
    BY <1>1, StrInductive, PTL
=============================================================================
