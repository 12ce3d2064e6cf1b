----------------------------- MODULE Betweenness ----------------------------
(***************************************************************************)
(* The intermediaries in the graph of transfers, where the graph database  *)
(* cannot be asked: Brandes' algorithm (services/network_analysis.py), one *)
(* step for each round of its loops.  Centralities are fractions of Unit,  *)
(* before they are scaled and rounded.                                     *)
(***************************************************************************)
EXTENDS Integers, NetworkAnalysis

CONSTANT Unit   \* divisible by the numbers of shortest paths there can be

(* A shortest path is known by the set of its accounts.                    *)
ASSUME UnitAssumption ==
  Unit \in Nat /\ \A n \in 1 .. Cardinality(SUBSET Accounts) : Unit % n = 0

VARIABLES
  starts,    \* sources whose turn is to come
  origin,    \* the current one, s; 0 before the first
  met,       \* the nodes met: S, of length taken, followed by the queue Q
  taken,
  toward,    \* neighbours of the node taken last that are to be looked at
  dist,      \* d
  counts,    \* g: the numbers of shortest paths
  delta, cb

rankVars == <<starts, origin, met, taken, toward, dist, counts, delta, cb>>

BetweennessInit ==
  /\ starts = Nodes /\ origin = 0
  /\ met = <<>> /\ taken = 0 /\ toward = {}
  /\ dist = [v \in Accounts |-> -1]
  /\ counts = [v \in Accounts |-> 0]
  /\ delta = counts /\ cb = counts

(* The sources one after the other.                                        *)
StartFrom(s) ==
  /\ met = <<>> /\ starts # {} /\ s = Least(starts)
  /\ starts' = starts \ {s} /\ origin' = s
  /\ met' = <<s>>
  /\ dist' = [v \in Accounts |-> IF v = s THEN 0 ELSE -1]
  /\ counts' = [v \in Accounts |-> IF v = s THEN 1 ELSE 0]
  /\ delta' = [v \in Accounts |-> 0]
  /\ UNCHANGED <<flows, taken, toward, cb>>

(* _brandes_bfs: the head of the queue goes to the stack ...               *)
TakeNext ==
  /\ toward = {} /\ taken < Len(met)
  /\ taken' = taken + 1
  /\ toward' = Targets(met[taken + 1])
  /\ UNCHANGED <<flows, starts, origin, met, dist, counts, delta, cb>>

(* ... and its neighbours are looked at.                                   *)
LookAt(v, w) ==
  /\ toward # {} /\ v = met[taken] /\ w = Least(toward)
  /\ toward' = toward \ {w}
  /\ IF dist[w] < 0
     THEN met' = Append(met, w) /\ dist' = [dist EXCEPT ![w] = dist[v] + 1]
     ELSE UNCHANGED <<met, dist>>
  /\ counts' = IF dist'[w] = dist[v] + 1 THEN [counts EXCEPT ![w] = @ + counts[v]] ELSE counts
  /\ UNCHANGED <<flows, starts, origin, taken, delta, cb>>

(* The list P[w].                                                          *)
Predecessors(w) == {v \in Accounts : <<v, w>> \in flows /\ dist[v] >= 0 /\ dist[w] = dist[v] + 1}

(* Variant of Credited: the source counts as an intermediary.              *)
CreditedSource(w) == TRUE
Credited(w) == w # origin

(* _brandes_accumulate: the stack is emptied.                              *)
Accumulate(w) ==
  /\ met # <<>> /\ toward = {} /\ taken = Len(met) /\ w = met[taken]
  /\ met' = SubSeq(met, 1, taken - 1) /\ taken' = taken - 1
  /\ delta' = [v \in Accounts |->
                 IF v \in Predecessors(w)
                 THEN delta[v] + (counts[v] * (Unit + delta[w])) \div counts[w]
                 ELSE delta[v]]
  /\ cb' = IF Credited(w) THEN [cb EXCEPT ![w] = @ + delta[w]] ELSE cb
  /\ UNCHANGED <<flows, starts, origin, toward, dist, counts>>

BetweennessNext ==
  \/ \E s \in Accounts : StartFrom(s)
  \/ TakeNext
  \/ \E v, w \in Accounts : LookAt(v, w)
  \/ \E w \in Accounts : Accumulate(w)

Ranked == starts = {} /\ met = <<>>

(* run_network_analysis: the searches share the graph alone, and either is *)
(* left out if the graph database has answered.                            *)
AnalysisInit == NetworkInit /\ BetweennessInit
AnalysisNext ==
  \/ NetworkNext /\ UNCHANGED rankVars
  \/ BetweennessNext /\ UNCHANGED <<indices, lowlinks, stack, frames, sccs>>
AnalysisSpec == AnalysisInit /\ [][AnalysisNext]_<<networkVars, rankVars>>

-----------------------------------------------------------------------------
(* The shortest paths from s to t, by trying every path.                   *)
Simple == {p \in UNION {[1 .. n -> Accounts] : n \in 2 .. Cardinality(Accounts)} : IsInjective(p)}
Between(s, t) ==
  {p \in Simple : /\ p[1] = s /\ Last(p) = t
                  /\ \A i \in 1 .. Len(p) - 1 : <<p[i], p[i + 1]>> \in flows}
Shortest(s, t) == LET all == Between(s, t) IN {p \in all : \A q \in all : Len(p) <= Len(q)}

(* What share of the shortest paths from s to t leads through v, and what  *)
(* the shares of the paths from s come to.                                 *)
Share(v, s, t) ==
  LET all == Shortest(s, t)
      through == {p \in all : v \in ToSet(p)} IN
  IF all = {} THEN 0 ELSE (Unit * Cardinality(through)) \div Cardinality(all)
Shares(v, s) == MapThenSumSet(LAMBDA t : Share(v, s, t), Nodes \ {v, s})

(* The centrality of an account is the sum, over all pairs of others, of   *)
(* the share of the shortest paths between them that lead through it       *)
(* (network_analysis.py:73-124).                                           *)
CentralityExact ==
  Ranked =>
    \A v \in Nodes : cb[v] = MapThenSumSet(LAMBDA s : Shares(v, s), Nodes \ {v})

NetworkExact == ComponentsExact /\ CirclesExact /\ CentralityExact
=============================================================================
