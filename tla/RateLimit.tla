------------------------------ MODULE RateLimit -----------------------------
(***************************************************************************)
(* The sliding window of services/rate_limiter.py for one client: a sorted *)
(* set in Redis that all processes share and, while Redis fails, a list in *)
(* each process.                                                           *)
(***************************************************************************)
EXTENDS Naturals, FiniteSets, FiniteSetsExt

CONSTANTS
  Worker,    \* processes of the API
  Limit,     \* requests admitted in a window
  Window,    \* its length
  MaxClock,  \* bound: clock
  MaxAsks,   \* bound: requests in one unit of time
  MaxOutages \* bound: Redis errors and restarts

ASSUME RateAssumption ==
  /\ IsFiniteSet(Worker)
  /\ Limit \in Nat \ {0} /\ Window \in Nat \ {0}
  /\ MaxClock \in Nat /\ MaxAsks \in Nat /\ MaxOutages \in Nat

VARIABLES
  clock,
  zset,      \* zset[t]: members with score t
  bucket,    \* bucket[w][t]: entries of the process w from time t
  admitted,  \* admitted[t]: requests admitted at t (history)
  asks,      \* requests so far in this unit of time
  outages,   \* Redis errors and restarts so far
  restarts   \* restarts alone

rateVars == <<clock, zset, bucket, admitted, asks, outages, restarts>>
Times == 0..MaxClock
Nothing == [t \in Times |-> 0]

RateInit ==
  /\ clock = 0 /\ zset = Nothing /\ admitted = Nothing
  /\ bucket = [w \in Worker |-> Nothing]
  /\ asks = 0 /\ outages = 0 /\ restarts = 0

(* What is left of a window, and how much that is.                         *)
Trimmed(b) == [t \in Times |-> IF t + Window <= clock THEN 0 ELSE b[t]]
Size(b) == MapThenSumSet(LAMBDA t : b[t], Times)
Plus(b) == [b EXCEPT ![clock] = @ + 1]

Asked == asks < MaxAsks /\ asks' = asks + 1
Outage == outages < MaxOutages /\ outages' = outages + 1

(* Variant of Exceeds: the members are counted before the new one.         *)
ExceedsBefore(z) == Size(z) > Limit + 1

Exceeds(z) == Size(z) > Limit

(* The pipeline is atomic and counts a request that is refused as well.    *)
Piped == Plus(Trimmed(zset))

AskRedis ==
  /\ Asked
  /\ zset' = Piped
  /\ admitted' = IF Exceeds(Piped) THEN admitted ELSE Plus(admitted)
  /\ UNCHANGED <<clock, bucket, outages, restarts>>

(* Redis raises, before or after it has run the pipeline; the process then *)
(* counts by itself, and only what it admits.                              *)
AskLocal(w) ==
  LET kept == Trimmed(bucket[w])
      full == Size(kept) >= Limit IN
  /\ Asked /\ Outage
  /\ zset' \in {zset, Piped}
  /\ bucket' = [bucket EXCEPT ![w] = IF full THEN kept ELSE Plus(kept)]
  /\ admitted' = IF full THEN admitted ELSE Plus(admitted)
  /\ UNCHANGED <<clock, restarts>>

RestartWorker(w) ==
  /\ Outage /\ restarts' = restarts + 1
  /\ bucket' = [bucket EXCEPT ![w] = Nothing]
  /\ UNCHANGED <<clock, zset, admitted, asks>>

PassTime ==
  /\ clock < MaxClock /\ clock' = clock + 1 /\ asks' = 0
  /\ UNCHANGED <<zset, bucket, admitted, outages, restarts>>

RateNext ==
  AskRedis \/ PassTime \/ \E w \in Worker : AskLocal(w) \/ RestartWorker(w)

RateTypeOK ==
  /\ zset \in [Times -> Nat] /\ admitted \in [Times -> Nat]
  /\ bucket \in [Worker -> [Times -> Nat]]

(* In any stretch of one window the client is admitted Limit times by      *)
(* Redis and Limit times by each process that fell back on itself, also    *)
(* when Redis comes and goes in the middle of it; only a restart forgets   *)
(* (rate_limiter.py:15, 70).                                               *)
AdmittedBounded ==
  \A t \in Times :
    LET n == MapThenSumSet(LAMBDA s : admitted[s],
                           {s \in Times : t <= s /\ s < t + Window})
    IN /\ n <= Limit * (1 + Cardinality(Worker) + restarts)
       /\ outages = 0 => n <= Limit
=============================================================================
