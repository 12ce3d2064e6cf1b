--------------------------- MODULE WhitelistCache ---------------------------
(***************************************************************************)
(* False positive dispositions and their caches: services/whitelisting.py, *)
(* for one tenant and one rule.  A dictionary in each process, Redis, and  *)
(* the table, which checks read from a replica.  Pub/sub copies a new      *)
(* disposition into the dictionaries of the processes that listen.         *)
(***************************************************************************)
EXTENDS Naturals, Sequences, FiniteSets

CONSTANTS
  Pod,         \* processes
  Adder,       \* those that serve the office that clears alerts
  Screener,    \* those that screen
  Entity,      \* names that are screened
  Customer,    \* customers, NoCustomer not among them
  NoCustomer,  \* a party without a customer id (receivers)
  Disposition, \* dispositions added: records [name, cust, ends]
  MaxDay,      \* bound: days
  MaxTrouble   \* bound: failed writes and evictions

ASSUME WhitelistAssumption ==
  /\ Adder \subseteq Pod /\ Screener \subseteq Pod
  /\ NoCustomer \notin Customer
  /\ \A d \in Disposition : /\ d.name \in Entity
                            /\ d.cust \in Customer \cup {NoCustomer}
                            /\ d.ends \in Nat
  /\ MaxDay \in Nat /\ MaxTrouble \in Nat

Forever == 0  \* a disposition without expires_at

VARIABLES
  day,
  local,     \* local[p]: _LOCAL_WHITELIST_STORE, pairs <<key, disposition>>
  shared,    \* Redis, pairs <<key, disposition>>
  table,     \* rows of whitelisted_entities
  replica,   \* the rows the read replica has
  adding,    \* adding[p]: a disposition on its way, and where it is
  check,     \* check[p]: what is being looked up
  added,     \* dispositions answered as added (history)
  missed,    \* looked up in vain though added before (history)
  trouble    \* what went wrong (history)

whitelistVars == <<day, local, shared, table, replica, adding, check,
                   added, missed, trouble>>
cacheVars == <<local, shared>>
dbVars    == <<table, replica>>
addVars   == <<adding, added>>

None == [at |-> "idle"]
Ask(at, n, c, due) == [at |-> at, name |-> n, cust |-> c, due |-> due]
Keys(n, c) == {<<"name", n>>} \cup (IF c = NoCustomer THEN {} ELSE {<<"cust", c>>})

(* Writing a dictionary or Redis key replaces what it had.                 *)
Put(store, keys, d) ==
  {e \in store : e[1] \notin keys} \cup {<<k, d>> : k \in keys}

_is_entry_valid(d) == d.ends = Forever \/ d.ends > day

WhitelistInit ==
  /\ day = 0 /\ local = [p \in Pod |-> {}] /\ shared = {}
  /\ table = {} /\ replica = {}
  /\ adding = [p \in Pod |-> None]
  /\ check = [p \in Pod |-> None]
  /\ added = {} /\ missed = {} /\ trouble = {}

Trouble(what) == Cardinality(trouble) < MaxTrouble /\ trouble' = trouble \cup {what}

-----------------------------------------------------------------------------
(* add_to_whitelist: the dictionary at once, then the row, Redis, and a    *)
(* message.  A failed INSERT or SETEX is logged and the rest goes on.      *)
AddLocal(p, d) ==
  /\ adding[p] = None /\ d \notin added /\ _is_entry_valid(d)
  /\ local' = [local EXCEPT ![p] = Put(@, Keys(d.name, d.cust), d)]
  /\ adding' = [adding EXCEPT ![p] = [at |-> "table", d |-> d]]
  /\ UNCHANGED <<day, shared, dbVars, check, added, missed, trouble>>

Adding(p, from, to) ==
  /\ adding[p].at = from
  /\ adding' = [adding EXCEPT ![p] = IF to = "idle" THEN None ELSE [at |-> to, d |-> @.d]]

AddTable(p) ==
  /\ Adding(p, "table", "redis")
  /\ \/ table' = table \cup {adding[p].d} /\ UNCHANGED trouble
     \/ Trouble("insert") /\ UNCHANGED table
  /\ UNCHANGED <<day, cacheVars, replica, check, added, missed>>

(* Variant of AddedKeys: the key of the customer is not written.           *)
AddedKeysName(d) == Keys(d.name, NoCustomer)

AddedKeys(d) == Keys(d.name, d.cust)

AddRedis(p) ==
  LET d == adding[p].d IN
  /\ Adding(p, "redis", "publish")
  /\ \/ shared' = Put(shared, AddedKeys(d), d) /\ UNCHANGED trouble
     \/ Trouble("redis") /\ UNCHANGED shared
  /\ UNCHANGED <<day, local, dbVars, check, added, missed>>

(* A process that does not listen at that moment never gets the message.   *)
AddPublish(p) ==
  LET d == adding[p].d IN
  /\ Adding(p, "publish", "idle")
  /\ \E L \in SUBSET Pod :
       local' = [q \in Pod |-> IF q \in L THEN Put(local[q], Keys(d.name, d.cust), d)
                              ELSE local[q]]
  /\ added' = added \cup {d}
  /\ UNCHANGED <<day, shared, dbVars, check, missed, trouble>>

(* clear_local_whitelist_cache, on request or by message; a restart.       *)
ClearLocal(p) ==
  /\ local[p] # {} /\ local' = [local EXCEPT ![p] = {}]
  /\ UNCHANGED <<day, shared, dbVars, addVars, check, missed, trouble>>

-----------------------------------------------------------------------------
(* is_entity_whitelisted: three levels, each asked when the ones before    *)
(* know nothing valid.                                                     *)
Found(store, n, c) ==
  {e \in store : e[1] \in Keys(n, c) /\ _is_entry_valid(e[2])}

Matches(d, n, c) ==
  _is_entry_valid(d) /\ (d.name = n \/ (c # NoCustomer /\ d.cust = c))

CheckStart(p, n, c) ==
  /\ check[p] = None /\ Found(local[p], n, c) = {}
  /\ check' = [check EXCEPT ![p] = Ask("redis", n, c, {d \in added : Matches(d, n, c)})]
  /\ UNCHANGED <<day, cacheVars, dbVars, addVars, missed, trouble>>

CheckRedis(p) ==
  LET f == Found(shared, check[p].name, check[p].cust)
      onward == Ask("replica", check[p].name, check[p].cust, check[p].due) IN
  /\ check[p].at = "redis"
  /\ \/ /\ f # {}
        /\ \E e \in f : local' = [local EXCEPT ![p] = Put(@, {e[1]}, e[2])]
        /\ check' = [check EXCEPT ![p] = None] /\ UNCHANGED trouble
     \/ f = {} /\ check' = [check EXCEPT ![p] = onward] /\ UNCHANGED <<local, trouble>>
     \/ Trouble("redis") /\ check' = [check EXCEPT ![p] = onward] /\ UNCHANGED local
  /\ UNCHANGED <<day, shared, dbVars, addVars, missed>>

(* A row found is cached for the name and for the customer that were       *)
(* asked, whichever of the two it matched.  Nothing found: an alert.       *)
CheckReplica(p) ==
  LET n == check[p].name
      c == check[p].cust
      f == {d \in replica : Matches(d, n, c)} IN
  /\ check[p].at = "replica"
  /\ IF f # {}
     THEN \E d \in f :
            /\ local' = [local EXCEPT ![p] = Put(@, Keys(n, c), d)]
            /\ check' = [check EXCEPT ![p] = Ask("hydrate", n, c, {d})]
            /\ UNCHANGED missed
     ELSE /\ check' = [check EXCEPT ![p] = None]
          /\ missed' = missed \cup {d \in check[p].due : _is_entry_valid(d)}
          /\ UNCHANGED local
  /\ UNCHANGED <<day, shared, dbVars, addVars, trouble>>

CheckHydrate(p) ==
  LET d == CHOOSE d \in check[p].due : TRUE IN
  /\ check[p].at = "hydrate" /\ check' = [check EXCEPT ![p] = None]
  /\ \/ shared' = Put(shared, Keys(check[p].name, check[p].cust), d) /\ UNCHANGED trouble
     \/ Trouble("redis") /\ UNCHANGED shared
  /\ UNCHANGED <<day, local, dbVars, addVars, missed>>

-----------------------------------------------------------------------------
(* Redis loses an entry, or drops it when its TTL of a week is over; by    *)
(* then the replica has the row, if there is one.                          *)
Evict(e) ==
  /\ e \in shared /\ shared' = shared \ {e}
  /\ IF e[2] \in replica /\ replica = table THEN UNCHANGED trouble ELSE Trouble("redis")
  /\ UNCHANGED <<day, local, dbVars, addVars, check, missed>>

Replay ==
  /\ replica # table /\ replica' = table
  /\ UNCHANGED <<day, cacheVars, table, addVars, check, missed, trouble>>

(* Redis drops what has come to its end.  Nothing takes a day: neither a   *)
(* request nor the replica.                                                *)
NextDay ==
  /\ day < MaxDay /\ day' = day + 1
  /\ replica = table /\ \A p \in Pod : adding[p] = None /\ check[p] = None
  /\ shared' = {e \in shared : e[2].ends = Forever \/ e[2].ends > day'}
  /\ UNCHANGED <<local, dbVars, addVars, check, missed, trouble>>

WhitelistNext ==
  \/ NextDay
  \/ \E e \in shared : Evict(e)
  \/ Replay
  \/ \E p \in Adder :
       \/ \E d \in Disposition : AddLocal(p, d)
       \/ AddTable(p) \/ AddRedis(p) \/ AddPublish(p)
  \/ \E p \in Screener :
       \/ \E n \in Entity, c \in Customer \cup {NoCustomer} : CheckStart(p, n, c)
       \/ CheckRedis(p) \/ CheckReplica(p) \/ CheckHydrate(p)
  \/ \E p \in Pod : ClearLocal(p)

WhitelistSpec == WhitelistInit /\ [][WhitelistNext]_whitelistVars

WhitelistTypeOK ==
  /\ table \cup added \cup missed \subseteq Disposition /\ replica \subseteq table
  /\ local \in [Pod -> SUBSET ((UNION {Keys(n, c) : n \in Entity,
                                            c \in Customer \cup {NoCustomer}})
                           \X Disposition)]

(* A disposition that was answered as added, and has not expired, is seen  *)
(* by every later check of any process, although messages get lost and the *)
(* replica lags: Redis has it, unless Redis itself failed or evicted it    *)
(* (whitelisting.py:345).                                                  *)
AddedIsSeen == trouble = {} => missed = {}
=============================================================================
