--------------------------- MODULE DetectionRules ---------------------------
(***************************************************************************)
(* The rules of services/rules.py that look at more than one transaction.  *)
(* A request evaluates its transaction before it stores it: the 24 hour    *)
(* rule against sorted sets in Redis that the evaluation itself extends,   *)
(* the others against the transactions table.  Rules that read only the    *)
(* transaction at hand are left out.                                       *)
(***************************************************************************)
EXTENDS Integers, FiniteSets, FiniteSetsExt

CONSTANTS
  Transfer,     \* transactions, numbered in the order of their requests
  Account,
  EntityOf,     \* EntityOf[a]: who owns the account (customer_id)
  HighTier,     \* accounts whose baseline has kyc_risk_tier HIGH or CRITICAL
  Payment,      \* payloads: [from, to, amount, lag, held]; their timestamp is
                \* lag behind the clock, held says whether they are HELD
  Day, Week, Loop, Minutes,  \* windows: 24 hours, 7 days, 72 hours, 10 minutes
  MaxOpen,      \* bound: requests at a time
  MaxNow,       \* bound: clock
  MaxBad        \* bound: kinds of trouble

ASSUME DetectionAssumption ==
  /\ Transfer \subseteq Nat \ {0} /\ IsFiniteSet(Transfer)
  /\ \A p \in Payment : /\ {p.from, p.to} \subseteq Account /\ p.from # p.to
                        /\ {p.amount, p.lag} \subseteq Nat /\ p.held \in BOOLEAN
  /\ \A a \in Account : EntityOf[a] \notin Account
  /\ Day \in Nat \ {0}
  /\ {Week, Loop, Minutes} \cup {MaxOpen, MaxNow, MaxBad} \subseteq Nat

(* rules_config.json, amounts in units of 1250.                            *)
threshold == 8
min_sub_amount == 2
min_count == 3
min_inflow == 4

VARIABLES
  now,       \* the clock
  tx,        \* tx[t]: the transaction and how far its request is
  window,    \* window[k]: members of the sorted set of an account or entity
  stored,    \* the transactions table
  bad        \* what disturbed the evaluation so far (history)

detectVars == <<now, tx, window, stored, bad>>

Entities == {EntityOf[a] : a \in Account}
New == [step |-> "new"]
Test == 0   \* stands for a transaction of the rule testing harness

DetectInit ==
  /\ now = 0
  /\ tx = [t \in Transfer |-> New]
  /\ window = [k \in Account \cup Entities |-> {}]
  /\ stored = {} /\ bad = {}

Troubled(S) == Cardinality(bad \cup S) <= MaxBad /\ bad' = bad \cup S
Bad(what) == Troubled({what})
Total(S) == MapThenSumSet(LAMBDA t : tx[t].amount, S)

(* The request of t gets to a step: what it found, when and among which    *)
(* rows of the table.                                                      *)
Passes(t, step, flags, asked, seen) ==
  tx' = [tx EXCEPT ![t] =
    [step |-> step, from |-> tx[t].from, to |-> tx[t].to, amount |-> tx[t].amount,
     held |-> tx[t].held, at |-> tx[t].at, clock |-> tx[t].clock,
     flags |-> tx[t].flags \cup flags, asked |-> asked, seen |-> seen,
     entity |-> tx[t].entity, high |-> tx[t].high]]
Goes(t, step) == Passes(t, step, {}, tx[t].asked, tx[t].seen)

Open == {t \in Transfer : tx[t].step \in {"redis", "table", "store"}}

(* The time of the request counts for Redis, the timestamp of the payload  *)
(* for the table.  A baseline that cannot be read is STANDARD.  When the   *)
(* lookup of the owner fails the name on the account stands for the        *)
(* entity; here no two accounts carry the same name, so it is the account. *)
Begin(t, p) ==
  /\ tx[t] = New /\ \A u \in Transfer : u < t => tx[u] # New
  /\ Cardinality(Open) < MaxOpen
  /\ \E known, rated \in BOOLEAN :
       /\ tx' = [tx EXCEPT ![t] =
            [step |-> "redis", from |-> p.from, to |-> p.to, amount |-> p.amount,
             held |-> p.held, at |-> now - p.lag, clock |-> now, flags |-> {},
             asked |-> now, seen |-> {},
             entity |-> IF known THEN EntityOf[p.from] ELSE p.from,
             high |-> rated /\ p.from \in HighTier]]
       /\ Troubled({w \in {"lookup"} : ~known}
                   \cup {w \in {"baseline"} : ~rated /\ p.from \in HighTier})
  /\ UNCHANGED <<now, window, stored>>

-----------------------------------------------------------------------------
(* _check_structuring_smurfing.                                            *)

(* Variant of Fresh: what has left the window is kept.                     *)
FreshAll(k, clock) == window[k]

(* zremrangebyscore, zrange.                                               *)
Fresh(k, clock) == {e \in window[k] : e.score > clock - Day}

Adds(keys, clock, e) ==
  [k \in DOMAIN window |-> IF k \in keys THEN Fresh(k, clock) \cup {e} ELSE window[k]]

(* Variant of Counted: only what the account itself has sent.              *)
CountedAccount(t) == {tx[t].from}

(* The sets whose sums are compared with the threshold.                    *)
Counted(t) == {tx[t].from, tx[t].entity}

Structured(t, k) ==
  LET small == {e \in Fresh(k, tx[t].clock) : e.amount < threshold}
      mine  == tx[t].amount < threshold
      total == MapThenSumSet(LAMBDA e : e.amount, small)
  IN /\ Cardinality(small) + (IF mine THEN 1 ELSE 0) >= 2
     /\ total + (IF mine THEN tx[t].amount ELSE 0) >= threshold

Late(t) ==
  \E k \in {tx[t].from, tx[t].entity} : \E e \in window[k] : e.score > tx[t].clock

Evaluated(t, flags) == Passes(t, "table", flags, tx[t].asked, tx[t].seen)

StructuringCheck(t) ==
  LET keys == {tx[t].from, tx[t].entity}
      e == [id |-> t, amount |-> tx[t].amount, score |-> tx[t].clock] IN
  /\ tx[t].step = "redis"
  /\ window' = Adds(keys, tx[t].clock, e)
  /\ Evaluated(t, IF \E k \in Counted(t) : Structured(t, k)
                  THEN {"STRUCTURING_VELOCITY_24H"} ELSE {})
  /\ IF Late(t) THEN Bad("late") ELSE UNCHANGED bad
  /\ UNCHANGED <<now, stored>>

(* An error of Redis, before or after the pipeline ran: not flagged.       *)
StructuringError(t) ==
  /\ tx[t].step = "redis" /\ Bad("redis")
  /\ \/ UNCHANGED window
     \/ window' = Adds({tx[t].from, tx[t].entity}, tx[t].clock,
                       [id |-> t, amount |-> tx[t].amount, score |-> tx[t].clock])
  /\ Evaluated(t, {})
  /\ UNCHANGED <<now, stored>>

(* test_rule_simulation evaluates like any request.                        *)
Simulate(from, amount) ==
  /\ Bad("test") /\ "test" \notin bad
  /\ window' = Adds({from, EntityOf[from]}, now,
                    [id |-> Test, amount |-> amount, score |-> now])
  /\ UNCHANGED <<now, tx, stored>>

-----------------------------------------------------------------------------
(* The rules on the table, for t and the rows of it that t can see.        *)
Half(t, n) == IF tx[t].high THEN n \div 2 ELSE n

(* Variant of Prior: an exact week ago is out.                             *)
PriorShort(t, length) ==
  {u \in stored : tx[t].at - length < tx[u].at /\ tx[u].at < tx[t].at}

Prior(t, length) ==
  {u \in stored : tx[t].at - length <= tx[u].at /\ tx[u].at < tx[t].at}

Sub(t, u) == Half(t, min_sub_amount) <= tx[u].amount /\ tx[u].amount < Half(t, threshold)

(* The account, and those whose customer is the entity that was resolved.  *)
Siblings(t) == {tx[t].from} \cup {a \in Account : EntityOf[a] = tx[t].entity}

_check_structuring_extended_7d(t) ==
  LET S == {u \in Prior(t, Week) : tx[u].from \in Siblings(t) /\ Sub(t, u)}
  IN /\ Sub(t, t)
     /\ Cardinality(S) + 1 >= min_count
     /\ Total(S) + tx[t].amount >= Half(t, threshold)

(* A reverse transfer of the amount, give or take a tenth.                 *)
_check_round_trip(t) ==
  \E u \in stored :
    /\ tx[u].from = tx[t].to /\ tx[u].to = tx[t].from
    /\ 9 * tx[t].amount <= 10 * tx[u].amount /\ 10 * tx[u].amount <= 11 * tx[t].amount
    /\ tx[u].at >= tx[t].at - Loop

(* Nine tenths of the last completed credit.                               *)
_check_rapid_movement_funds(t) ==
  LET credits == {u \in stored : tx[u].to = tx[t].from /\ ~tx[u].held
                                   /\ tx[u].at >= now - Minutes}
  IN \E u \in credits :
       /\ \A v \in credits : tx[v].at <= tx[u].at
       /\ tx[t].at - tx[u].at <= Minutes
       /\ 10 * tx[t].amount >= 9 * tx[u].amount

(* What left the account in a day is 85 to 115 per cent of what came.      *)
_check_conduit_passthrough(t) ==
  LET inflow  == Total({u \in Prior(t, Day) : tx[u].to = tx[t].from})
      outflow == Total({u \in Prior(t, Day) : tx[u].from = tx[t].from}) + tx[t].amount
  IN /\ inflow >= Half(t, min_inflow)
     /\ 85 * inflow <= 100 * outflow /\ 100 * outflow <= 115 * inflow

TableCheck(t) ==
  /\ tx[t].step = "table"
  /\ Passes(t, "store",
       {r \in {"STRUCTURING_EXTENDED_7D"} : _check_structuring_extended_7d(t)} \cup
       {r \in {"ROUND_TRIP_DETECTION"} : _check_round_trip(t)} \cup
       {r \in {"RAPID_MOVEMENT_FUNDS"} : _check_rapid_movement_funds(t)} \cup
       {r \in {"CONDUIT_RAPID_PASSTHROUGH"} : _check_conduit_passthrough(t)},
       now, stored)
  /\ UNCHANGED <<now, window, stored, bad>>

(* A query that raises: not flagged either.                                *)
TableError(t) ==
  /\ tx[t].step = "table" /\ Bad("sql")
  /\ Goes(t, "store")
  /\ UNCHANGED <<now, window, stored>>

Store(t) ==
  /\ tx[t].step = "store"
  /\ Goes(t, "stored")
  /\ stored' = stored \cup {t}
  /\ UNCHANGED <<now, window, bad>>

(* The account is frozen, the commit fails: no row, but still counted.     *)
Refuse(t) ==
  /\ tx[t].step = "store" /\ Bad("refused")
  /\ Goes(t, "refused")
  /\ UNCHANGED <<now, window, stored>>

Clock ==
  /\ now < MaxNow /\ now' = now + 1
  /\ UNCHANGED <<tx, window, stored, bad>>

DetectNext ==
  \/ Clock
  \/ \E p \in Payment : Simulate(p.from, p.amount)
  \/ \E t \in Transfer :
       \/ \E p \in Payment : Begin(t, p)
       \/ StructuringCheck(t) \/ StructuringError(t) \/ TableCheck(t) \/ TableError(t)
       \/ Store(t) \/ Refuse(t)

DetectSpec == DetectInit /\ [][DetectNext]_detectVars

-----------------------------------------------------------------------------
DetectTypeOK ==
  /\ now \in 0..MaxNow /\ stored \subseteq Transfer
  /\ \A k \in DOMAIN window : \A e \in window[k] : e.id \in Transfer \cup {Test}

Counts == {t \in Transfer : tx[t].step \notin {"new", "redis"}}
SameOwner(S) == \A t, u \in S : EntityOf[tx[t].from] = EntityOf[tx[u].from]
Flagged(S, rule) == \E t \in S : rule \in tx[t].flags

(* Amounts below the threshold that reach it together within a day.        *)
Smurfing(S) ==
  /\ SameOwner(S) /\ Cardinality(S) >= 2 /\ Total(S) >= threshold
  /\ \A t, u \in S : tx[t].amount < threshold /\ tx[t].clock - tx[u].clock < Day

(* However the requests of a customer are spread over accounts and         *)
(* interleave: amounts below the threshold that reach it together within   *)
(* 24 hours have one among them that is flagged, unless Redis or the       *)
(* lookup of the owner failed or a request was overtaken by the clock; and *)
(* what is flagged is part of such a set, unless a test run of the rules   *)
(* wrote into the windows (rules.py:163-232).                              *)
StructuringExact ==
  /\ bad \cap {"redis", "lookup", "late"} = {} =>
       \A S \in SUBSET Counts :
         Smurfing(S) => Flagged(S, "STRUCTURING_VELOCITY_24H")
  /\ bad \cap {"test", "late"} = {} =>
       \A t \in Counts : "STRUCTURING_VELOCITY_24H" \in tx[t].flags =>
         \E S \in SUBSET {u \in Transfer : tx[u] # New} : Smurfing(S)

(* The requests of S came one after the other, also by their timestamps.   *)
InOrder(S) ==
  \A t, u \in S : t # u => \/ t \in tx[u].seen /\ tx[t].at < tx[u].at
                           \/ u \in tx[t].seen /\ tx[u].at < tx[t].at
Sequential(S) == \A t, u \in S : t # u => t \in tx[u].seen \/ u \in tx[t].seen
Apart(t, u) == IF tx[t].at > tx[u].at THEN tx[t].at - tx[u].at ELSE tx[u].at - tx[t].at

(* The owner was found, and the tier is that of the account.               *)
Recognised(t) ==
  tx[t].entity = EntityOf[tx[t].from] /\ tx[t].high = (tx[t].from \in HighTier)

WeekOfSubAmounts(S) ==
  /\ \A t \in S : Recognised(t)
  /\ SameOwner(S) /\ Cardinality(S) >= min_count
  /\ \A t, u \in S : Sub(t, u) /\ Apart(t, u) <= Week
  /\ \A t \in S : Total(S) >= Half(t, threshold)

Returned(t, u) ==
  /\ tx[t].from = tx[u].to /\ tx[t].to = tx[u].from
  /\ tx[t].amount = tx[u].amount /\ Apart(t, u) <= Loop

(* Credits of the last minutes, nine tenths of all of them sent on.        *)
PassedOn(t) ==
  LET C == {u \in tx[t].seen : /\ tx[u].to = tx[t].from /\ ~tx[u].held
                              /\ tx[u].at >= tx[t].asked - Minutes}
  IN /\ C # {} /\ 10 * tx[t].amount >= 9 * Total(C)
     /\ \A u \in C : tx[t].at - tx[u].at <= Minutes

(* Requests that did not overlap miss none of the patterns over several    *)
(* rows: three or more amounts of one customer that reach the threshold of *)
(* its tier within a week, over any of its accounts (when they also come   *)
(* in the order of their timestamps, and neither the lookup of their owner *)
(* nor their baseline failed: those failures are swallowed, and leave the  *)
(* other accounts or the lower threshold out); money that goes back where  *)
(* it came from, whichever of the two came in first; and money that is     *)
(* passed on within minutes, whatever other credits there were             *)
(* (rules.py:301-349, 441-482, 566-636).                                   *)
PatternsCaught ==
  "sql" \notin bad =>
    /\ \A S \in SUBSET stored :
         WeekOfSubAmounts(S) /\ InOrder(S) => Flagged(S, "STRUCTURING_EXTENDED_7D")
    /\ \A t, u \in stored :
         Returned(t, u) /\ Sequential({t, u}) => Flagged({t, u}, "ROUND_TRIP_DETECTION")
    /\ \A t \in stored : PassedOn(t) => "RAPID_MOVEMENT_FUNDS" \in tx[t].flags
=============================================================================
