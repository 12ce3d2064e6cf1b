----------------------------- MODULE RuleConfig -----------------------------
(***************************************************************************)
(* Where the rules engine takes its thresholds from, and the endpoints     *)
(* that change them (routers/rules.py, the head and the tail of            *)
(* services/rules.py): a file that the processes of a container share, a   *)
(* cache of it in each process, the table rule_configs with its history,   *)
(* and a message that empties caches.                                      *)
(***************************************************************************)
EXTENDS Naturals, FiniteSets

CONSTANTS
  Process,    \* processes of the API
  Container,  \* the containers they run in, each a set of processes
  Config,     \* configurations an administrator may put or patch
  Image,      \* the configuration in the image
  Change,     \* requests that change it
  MaxRestarts \* bound: processes killed and containers replaced

ASSUME RulesAssumption ==
  /\ UNION Container = Process
  /\ \A c, d \in Container : c # d => c \cap d = {}
  /\ Image \in Config /\ MaxRestarts \in Nat

Home(p) == CHOOSE c \in Container : p \in c

(* What the cache or the file may hold besides: nothing yet, the defaults  *)
(* in the code, and content that is no JSON.                               *)
Unread == "unread"
Defaults == "defaults"
Torn == "torn"

VARIABLES
  file,      \* file[c]: rules_config.json
  cache,     \* cache[p]: _config_cache
  change,    \* change[r]: a request and how far it is
  ruleRow,   \* the row of rule_configs: [config, version]
  history,   \* rule_config_history: rows committed
  told,      \* processes with a message not yet taken
  latest,    \* latest[c]: put last in c (history)
  mixed,     \* containers in which two PUTs overlapped (history)
  spoilt,    \* containers whose last PUT was not written to the end (history)
  unaware,    \* processes not told of the last PUT in their container (history)
  restarts

rulesVars == <<file, cache, change, ruleRow, history, told, latest, mixed,
               spoilt, unaware, restarts>>
fileVars  == <<file, latest, mixed, spoilt>>
tableVars == <<ruleRow, history>>

NoChange == [op |-> "none", step |-> "new", on |-> "none", config |-> Image, version |-> 0]
RuleRow == [config : Config, version : Nat]

RulesInit ==
  /\ file = [c \in Container |-> Image] /\ cache = [p \in Process |-> Unread]
  /\ change = [r \in Change |-> NoChange]
  /\ ruleRow = [config |-> Image, version |-> 1] /\ history = {ruleRow}
  /\ told = {} /\ latest = file /\ restarts = 0
  /\ mixed = {} /\ spoilt = {} /\ unaware = {}

On(r, step) == change[r].step = step
Moved(e, step) ==
  [op |-> e.op, step |-> step, on |-> e.on, config |-> e.config, version |-> e.version]
Step(r, step) == change' = [change EXCEPT ![r] = Moved(@, step)]
Writing(c) == {r \in Change : change[r].step \in {"write", "reload"} /\ change[r].on \in c}

(* Any evaluation.  A file that cannot be read is not read again.          *)
get_rules_config(p) ==
  /\ cache[p] = Unread
  /\ LET content == file[Home(p)] IN
       cache' = [cache EXCEPT ![p] = IF content \in Config THEN content ELSE Defaults]
  /\ UNCHANGED <<fileVars, change, tableVars, told, unaware, restarts>>

-----------------------------------------------------------------------------
(* PUT /config.  The file is opened, and so emptied, and written by a      *)
(* thread while the event loop and the other processes of the container    *)
(* go on.  Either may fail: that is logged, and answered as SUCCESS.       *)
PutStart(r, p, k, step) ==
  /\ change[r] = NoChange
  /\ change' = [change EXCEPT ![r] =
       [op |-> "put", step |-> step, on |-> p, config |-> k, version |-> 0]]
  /\ mixed' = IF Writing(Home(p)) = {} THEN mixed ELSE mixed \cup {Home(p)}
  /\ UNCHANGED <<cache, tableVars, told, unaware, restarts>>

PutOpen(r, p, k) ==
  /\ PutStart(r, p, k, "write")
  /\ file' = [file EXCEPT ![Home(p)] = Torn]
  /\ UNCHANGED <<latest, spoilt>>

PutNotOpened(r, p, k) ==
  /\ PutStart(r, p, k, "reload")
  /\ latest' = [latest EXCEPT ![Home(p)] = k] /\ spoilt' = spoilt \cup {Home(p)}
  /\ UNCHANGED file

(* Two that write at once may leave the tail of one behind the other.      *)
PutWrite(r) ==
  LET c == Home(change[r].on) IN
  /\ On(r, "write") /\ Step(r, "reload")
  /\ file' \in {[file EXCEPT ![c] = change[r].config]}
               \cup (IF file[c] = Torn THEN {} ELSE {[file EXCEPT ![c] = Torn]})
  /\ latest' = [latest EXCEPT ![c] = change[r].config]
  /\ spoilt' = spoilt \ {c}
  /\ UNCHANGED <<cache, mixed, tableVars, told, unaware, restarts>>

PutFails(r) ==
  LET c == Home(change[r].on) IN
  /\ On(r, "write") /\ Step(r, "reload")
  /\ latest' = [latest EXCEPT ![c] = change[r].config]
  /\ spoilt' = spoilt \cup {c}
  /\ UNCHANGED <<file, cache, mixed, tableVars, told, unaware, restarts>>

(* Variant of Reloaded: the cache is left as it is.                        *)
ReloadedNot(p) == cache

Reloaded(p) == [cache EXCEPT ![p] = Unread]

(* reload_config, and the message: who does not listen never hears of it.  *)
Announce(r, heard) ==
  /\ cache' = Reloaded(change[r].on)
  /\ told' = told \cup heard

PutReload(r) ==
  LET p == change[r].on IN
  /\ On(r, "reload") /\ Step(r, "done")
  /\ \E heard \in SUBSET Process :
       /\ Announce(r, heard)
       /\ unaware' = (unaware \cup (Home(p) \ heard)) \ {p}
  /\ UNCHANGED <<fileVars, tableVars, restarts>>

-----------------------------------------------------------------------------
(* PATCH /{rule_name}: read the row; write it and its history; reload.     *)
PatchRead(r, p, k) ==
  /\ change[r] = NoChange
  /\ change' = [change EXCEPT ![r] =
       [op |-> "patch", step |-> "patch", on |-> p, config |-> k,
        version |-> ruleRow.version + 1]]
  /\ UNCHANGED <<fileVars, cache, tableVars, told, unaware, restarts>>

PatchWrite(r) ==
  /\ On(r, "patch") /\ Step(r, "patched")
  /\ ruleRow' = [config |-> change[r].config, version |-> change[r].version]
  /\ history' = history \cup {ruleRow'}
  /\ UNCHANGED <<fileVars, cache, told, unaware, restarts>>

PatchReload(r) ==
  /\ On(r, "patched") /\ Step(r, "done")
  /\ \E heard \in SUBSET Process : Announce(r, heard)
  /\ UNCHANGED <<fileVars, tableVars, unaware, restarts>>

-----------------------------------------------------------------------------
(* start_redis_rules_listener                                              *)
Hear(p) ==
  /\ p \in told /\ told' = told \ {p} /\ unaware' = unaware \ {p}
  /\ cache' = [cache EXCEPT ![p] = Unread]
  /\ UNCHANGED <<fileVars, change, tableVars, restarts>>

(* The processes of S end, with their requests, and start again.           *)
Stop(S) ==
  /\ restarts < MaxRestarts /\ restarts' = restarts + 1
  /\ cache' = [p \in Process |-> IF p \in S THEN Unread ELSE cache[p]]
  /\ told' = told \ S /\ unaware' = unaware \ S
  /\ change' = [r \in Change |->
       IF change[r] # NoChange /\ change[r].on \in S
       THEN Moved(change[r], "lost") ELSE change[r]]
  /\ UNCHANGED tableVars

(* One process is killed and started again; the file stays as it is.       *)
Respawn(p) ==
  /\ Stop({p})
  /\ spoilt' = IF Writing({p}) = {} THEN spoilt ELSE spoilt \cup {Home(p)}
  /\ UNCHANGED <<file, latest, mixed>>

(* A new container has the file of the image.                              *)
Redeploy(c) ==
  /\ Stop(c)
  /\ file' = [file EXCEPT ![c] = Image] /\ latest' = [latest EXCEPT ![c] = Image]
  /\ mixed' = mixed \ {c} /\ spoilt' = spoilt \ {c}

RulesNext ==
  \/ \E p \in Process :
       \/ get_rules_config(p) \/ Hear(p) \/ Respawn(p)
       \/ \E r \in Change, k \in Config :
            PutOpen(r, p, k) \/ PutNotOpened(r, p, k) \/ PatchRead(r, p, k)
  \/ \E r \in Change :
       \/ PutWrite(r) \/ PutFails(r) \/ PutReload(r)
       \/ PatchWrite(r) \/ PatchReload(r)
  \/ \E c \in Container : Redeploy(c)

RulesSpec == RulesInit /\ [][RulesNext]_rulesVars

RulesTypeOK ==
  /\ file \in [Container -> Config \cup {Torn}]
  /\ cache \in [Process -> Config \cup {Unread, Defaults}]
  /\ ruleRow \in history /\ history \subseteq RuleRow
  /\ told \cup unaware \subseteq Process

(* Between PUTs every process of a container evaluates with what was put   *)
(* last in it, never with the defaults that another process's half-written *)
(* file gave it, although patches, messages and evaluations come at any    *)
(* time and processes and containers are replaced (rules.py:343-362).      *)
(* Excepted by name: a process that has yet to take the message of a PUT,  *)
(* or was told of none; a container in which two PUTs overlapped, or whose *)
(* last PUT was cut short or failed to write, which is answered SUCCESS.   *)
PutTakesEffect ==
  \A c \in Container : \A p \in c :
    Writing(c) = {} /\ c \notin mixed \cup spoilt /\ p \notin told \cup unaware
      => cache[p] \in {Unread, latest[c]}

(* What the last PATCH wrote is in force on the process that took it:      *)
(* "replacing the flat rules_configuration and JSON-file approach"         *)
(* (migration 022, line 12).                                               *)
PatchTakesEffect ==
  \A r \in Change :
    On(r, "done") /\ change[r].op = "patch" /\ change[r].version = ruleRow.version
      => cache[change[r].on] \in {Unread, ruleRow.config}
=============================================================================
