--------------------------- MODULE NetworkAnalysis --------------------------
(***************************************************************************)
(* Circular flows in the graph of transfers (services/network_analysis.py):*)
(* what the graph database answers, and what is computed in memory when it *)
(* cannot be asked: Tarjan's algorithm step by step, and a search for one  *)
(* circle in each component.  Sets and lists are walked in the order of    *)
(* the nodes: every labelled graph is an initial state.                    *)
(***************************************************************************)
EXTENDS Naturals, Sequences, FiniteSets, FiniteSetsExt, SequencesExt

CONSTANTS
  Accounts,  \* 1..n
  MaxPairs   \* bound: pairs between which money moves

ASSUME NetworkAssumption ==
  /\ IsFiniteSet(Accounts) /\ Accounts = 1 .. Cardinality(Accounts)
  /\ MaxPairs \in Nat

VARIABLES
  flows,     \* pairs <<sender, receiver>>; a pair transfers once
  indices, lowlinks, stack,
  frames,    \* calls of _strongconnect: [node, left], the current one first
  sccs       \* components found, each in the order it was popped

networkVars == <<flows, indices, lowlinks, stack, frames, sccs>>

Unseen == Cardinality(Accounts)   \* more than any index or distance
Targets(v) == {w \in Accounts : <<v, w>> \in flows}
Least(S) == CHOOSE x \in S : \A y \in S : x <= y
Minimum(x, y) == IF x < y THEN x ELSE y
Nodes == UNION {{e[1], e[2]} : e \in flows}

(* fetch_transaction_graph: whatever transfers there are between accounts. *)
Fetched ==
  UNION {kSubset(n, {e \in Accounts \X Accounts : e[1] # e[2]}) : n \in 0 .. MaxPairs}

NetworkInit ==
  /\ flows \in Fetched
  /\ indices = [v \in Accounts |-> Unseen] /\ lowlinks = indices
  /\ stack = <<>> /\ frames = <<>> /\ sccs = <<>>

-----------------------------------------------------------------------------
(* _TarjanSCC.                                                             *)
Visited == Cardinality({v \in Accounts : indices[v] # Unseen})
OnStack(v) == \E i \in DOMAIN stack : stack[i] = v

Enter(v) ==
  /\ indices' = [indices EXCEPT ![v] = Visited]
  /\ lowlinks' = [lowlinks EXCEPT ![v] = Visited]
  /\ stack' = <<v>> \o stack
  /\ frames' = <<[node |-> v, left |-> Targets(v)]>> \o frames
  /\ UNCHANGED <<flows, sccs>>

Root ==
  LET unseen == {v \in Nodes : indices[v] = Unseen} IN
  /\ frames = <<>> /\ unseen # {} /\ Enter(Least(unseen))

Current == Head(frames)
Neighbour(w) == Current.left # {} /\ w = Least(Current.left)

(* A call returns to the same neighbour, whose lowlink it then takes.      *)
Descend ==
  /\ frames # <<>>
  /\ \E w \in Accounts : Neighbour(w) /\ indices[w] = Unseen /\ Enter(w)

(* Variant of Unclaimed: every neighbour seen before.                      *)
UnclaimedSeen(w) == TRUE

(* Only neighbours that no component has taken yet.                        *)
Unclaimed(w) == OnStack(w)

Look ==
  /\ frames # <<>>
  /\ \E w \in Accounts :
       /\ Neighbour(w) /\ indices[w] # Unseen
       /\ frames' = <<[Current EXCEPT !.left = @ \ {w}]>> \o Tail(frames)
       /\ lowlinks' = IF Unclaimed(w)
                      THEN [lowlinks EXCEPT ![Current.node] = Minimum(@, indices[w])]
                      ELSE lowlinks
  /\ UNCHANGED <<flows, indices, stack, sccs>>

(* _pop_component, and the caller's lowlink.                               *)
Leave ==
  LET v == Current.node
      above == CHOOSE i \in DOMAIN stack : stack[i] = v
      up == Tail(frames) IN
  /\ frames # <<>> /\ Current.left = {}
  /\ IF lowlinks[v] = indices[v]
     THEN /\ stack' = SubSeq(stack, above + 1, Len(stack))
          /\ sccs' = IF above >= 2 THEN Append(sccs, SubSeq(stack, 1, above)) ELSE sccs
     ELSE UNCHANGED <<stack, sccs>>
  /\ frames' = IF up = <<>> THEN up
               ELSE <<[up[1] EXCEPT !.left = @ \ {v}]>> \o Tail(up)
  /\ lowlinks' = IF up = <<>> THEN lowlinks
                 ELSE [lowlinks EXCEPT ![up[1].node] = Minimum(@, lowlinks[v])]
  /\ UNCHANGED <<flows, indices>>

NetworkNext == Root \/ Descend \/ Look \/ Leave

NetworkSpec == NetworkInit /\ [][NetworkNext]_networkVars

Analysed == Nodes # {} /\ frames = <<>> /\ \A v \in Nodes : indices[v] # Unseen

-----------------------------------------------------------------------------
(* _find_simple_cycle_in_scc: breadth first from the first node, over      *)
(* paths of up to six; the shortest one that can be closed.                *)
Longest(scc) == Minimum(Len(scc) + 1, 6)

PathsOf(scc) ==
  {p \in UNION {[1 .. n -> ToSet(scc)] : n \in 1 .. Longest(scc)} :
     /\ p[1] = scc[1] /\ IsInjective(p)
     /\ \A i \in 1 .. Len(p) - 1 : <<p[i], p[i + 1]>> \in flows}

Closable(scc) == {p \in PathsOf(scc) : Len(p) >= 2 /\ <<Last(p), scc[1]>> \in flows}

(* _compute_tarjan_cycle_fallback: the circle, or else the component.      *)
FlowsOf(scc) ==
  IF Closable(scc) = {} THEN {scc}
  ELSE {p \in Closable(scc) : \A q \in Closable(scc) : Len(p) <= Len(q)}

(* _detect_cypher_cycles: TRANSFERS_TO*2..5 from an account to itself uses *)
(* no transfer twice, but may pass an account twice.                       *)
Follows(i, n) == (i % n) + 1
Trails ==
  {t \in UNION {[1 .. n -> flows] : n \in 2 .. 5} :
     /\ IsInjective(t)
     /\ \A i \in DOMAIN t : t[i][2] = t[Follows(i, Len(t))][1]}

CypherCycles == {{e[1] : e \in ToSet(t)} : t \in Trails}

-----------------------------------------------------------------------------
NetworkTypeOK ==
  /\ \A v \in Accounts : indices[v] # Unseen => lowlinks[v] <= indices[v]
  /\ IsInjective(stack)

(* Money gets from v to w if no set of accounts that holds v and whatever  *)
(* its members send to leaves w out.                                       *)
Closed(S) == \A e \in flows : e[1] \in S => e[2] \in S
Reaches(v, w) == \A S \in SUBSET Accounts : v \in S /\ Closed(S) => w \in S
Component(v) == {w \in Accounts : Reaches(v, w) /\ Reaches(w, v)}
Circle(p) ==
  IsInjective(p) /\ \A i \in DOMAIN p : <<p[i], p[Follows(i, Len(p))]>> \in flows

(* The components found in memory are the sets of two or more accounts     *)
(* that can all reach each other, each once                                *)
(* (network_analysis.py:8-65).                                             *)
FoundComponents == {ToSet(sccs[i]) : i \in DOMAIN sccs}
ComponentsExact ==
  Analysed =>
    /\ FoundComponents = {c \in {Component(v) : v \in Accounts} : Cardinality(c) >= 2}
    /\ Cardinality(FoundComponents) = Len(sccs)

(* The flow reported for a component lies in it, and is a circle of        *)
(* transfers if it has no more than the six accounts the search follows;   *)
(* the graph database, asked instead, reports circles within components    *)
(* only, and one at least in each that has no more than the five accounts  *)
(* its query follows (network_analysis.py:330-359, 384-415).               *)
CirclesExact ==
  Analysed =>
    /\ \A i \in DOMAIN sccs : \A p \in FlowsOf(sccs[i]) :
         /\ ToSet(p) \subseteq ToSet(sccs[i])
         /\ Circle(p) \/ Len(sccs[i]) > 6
    /\ \A c \in CypherCycles : \E scc \in FoundComponents : c \subseteq scc
    /\ \A scc \in FoundComponents : Cardinality(scc) <= 5 => \E c \in CypherCycles : c \subseteq scc
=============================================================================
