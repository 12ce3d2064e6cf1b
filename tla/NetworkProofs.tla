---------------------------- MODULE NetworkProofs ---------------------------
(***************************************************************************)
(* What tlapm proves of the analysis of networks, for any graph of         *)
(* transfers: that the algorithms computed in memory find what their       *)
(* definitions say, and how the answers of the graph database compare.     *)
(***************************************************************************)
EXTENDS Betweenness, SequenceTheorems, Sums

(* Places in a list that has grown by one.                                 *)
LEMMA OneMore == \A m \in Nat : \A i \in 1 .. m + 1 : i \in 1 .. m \/ i = m + 1
  OBVIOUS

(* The last place but one.                                                 *)
LEMMA OneLess ==
  \A m \in Nat \ {0} : m - 1 \in 1 .. m - 1 => m - 1 \in 1 .. m /\ m - 1 \in Nat \ {0}
  OBVIOUS

(* Paths between the same levels are equally long.                         *)
LEMMA SameLength ==
  \A a, b \in Int : \A m, n \in Nat \ {0} : b = a + m - 1 /\ b = a + n - 1 => m = n
  OBVIOUS

(* The search for components: the accounts it has met.                     *)
Seen(v) == indices[v] # Unseen
(* The calls in progress, the current one first; what they have yet to     *)
(* look at, and what has been looked at.                                   *)
Node(k) == frames[k].node
ToLookAt(y, z) == \E k \in DOMAIN frames : Node(k) = y /\ z \in frames[k].left
Looked(y, z) == Seen(y) /\ <<y, z>> \in flows /\ ~ToLookAt(y, z)
(* Accounts that a component has taken, or that are one of their own.      *)
Claimed == {v \in Accounts : Seen(v) /\ ~OnStack(v)}

SearchTyped ==
  /\ flows \subseteq Accounts \X Accounts
  /\ indices \in [Accounts -> 0 .. Unseen] /\ lowlinks \in [Accounts -> 0 .. Unseen]
  /\ stack \in Seq(Accounts) /\ sccs \in Seq(Seq(Accounts))
  /\ frames \in Seq([node : Accounts, left : SUBSET Accounts])

(* The accounts are numbered as they are met, and stacked in that order.   *)
Numbered ==
  /\ \A v \in Accounts : Seen(v) => indices[v] < Visited
  /\ \A v, w \in Accounts : Seen(v) /\ indices[v] = indices[w] => v = w
  /\ \A i \in DOMAIN stack : Seen(stack[i])
  /\ \A i, j \in DOMAIN stack : i < j => indices[stack[j]] < indices[stack[i]]

(* A call waits for the neighbour that the call above it is about.         *)
Nested ==
  /\ \A k \in DOMAIN frames :
       /\ OnStack(Node(k)) /\ frames[k].left \subseteq Targets(Node(k))
       /\ lowlinks[Node(k)] <= indices[Node(k)]
  /\ \A k, l \in DOMAIN frames : k < l => indices[Node(l)] < indices[Node(k)]
  /\ \A k \in DOMAIN frames : k + 1 \in DOMAIN frames => Node(k) \in frames[k + 1].left

(* Each account on the stack reaches those above it, and goes back to one  *)
(* at or below it that a call is about.                                    *)
OnePath ==
  /\ \A x, y \in Accounts :
       OnStack(x) /\ OnStack(y) /\ indices[x] <= indices[y] => Reaches(x, y)
  /\ \A y \in Accounts : OnStack(y) =>
       \E k \in DOMAIN frames : indices[Node(k)] <= indices[y] /\ Reaches(y, Node(k))

(* A low link is the index of an account on the stack that can be reached, *)
(* and takes account of everything looked at from above.                   *)
LowFounded ==
  \A k \in DOMAIN frames : \E z \in Accounts :
    OnStack(z) /\ lowlinks[Node(k)] = indices[z] /\ Reaches(Node(k), z)
LowEnough ==
  \A k \in DOMAIN frames : \A y, z \in Accounts :
    OnStack(y) /\ OnStack(z) /\ Looked(y, z) /\ indices[Node(k)] <= indices[y] =>
      \E j \in 1 .. k : lowlinks[Node(j)] <= indices[z]

(* What was looked at has been met; money does not leave what is claimed.  *)
Explores ==
  /\ \A y, z \in Accounts : Looked(y, z) => Seen(z)
  /\ Closed(Claimed)

(* The components found are those of the claimed accounts, each once.      *)
Large(v) == Cardinality(Component(v)) >= 2
Components ==
  /\ \A i \in DOMAIN sccs :
       /\ IsInjective(sccs[i])
       /\ \E v \in Claimed : ToSet(sccs[i]) = Component(v) /\ Large(v)
  /\ \A v \in Claimed : Large(v) => \E i \in DOMAIN sccs : ToSet(sccs[i]) = Component(v)
  /\ \A i, j \in DOMAIN sccs : ToSet(sccs[i]) = ToSet(sccs[j]) => i = j

(* The inductive invariant of the search.                                  *)
TarjanInv ==
  /\ SearchTyped /\ Numbered /\ Nested /\ OnePath /\ LowFounded /\ LowEnough
  /\ Explores /\ Components

(* What reaching amounts to: it is reflexive and transitive, holds along   *)
(* every transfer, and does not leave a set that holds its targets.        *)
LEMMA Reaching ==
  /\ \A v : Reaches(v, v)
  /\ \A v, w, x \in Accounts : Reaches(v, w) /\ Reaches(w, x) => Reaches(v, x)
  /\ \A v, w : <<v, w>> \in flows => Reaches(v, w)
  /\ \A S \in SUBSET Accounts : \A v, w : v \in S /\ Closed(S) /\ Reaches(v, w) => w \in S
  BY DEF Reaches, Closed

(* Steps that leave the transfers alone change nothing of it.              *)
LEMMA SamePaths ==
  ASSUME flows' = flows
  PROVE  /\ \A v, w : Reaches(v, w)' <=> Reaches(v, w)
         /\ \A v : Component(v)' = Component(v)
         /\ \A S : Closed(S)' <=> Closed(S)
  <1>1. \A S : Closed(S)' <=> Closed(S)
    BY DEF Closed
  <1>2. \A v, w : Reaches(v, w)' <=> Reaches(v, w)
    BY <1>1 DEF Reaches
  <1> QED
    BY <1>1, <1>2 DEF Component

(* The accounts that reach each other fall into classes.                   *)
LEMMA Classes ==
  ASSUME NEW v \in Accounts
  PROVE  /\ v \in Component(v) /\ Component(v) \subseteq Accounts
         /\ \A w \in Component(v) : Component(w) = Component(v)
  <1>1. ASSUME NEW w \in Component(v), NEW x \in Accounts
        PROVE  x \in Component(w) <=> x \in Component(v)
    <2>1. w \in Accounts /\ Reaches(v, w) /\ Reaches(w, v)
      BY DEF Component
    <2>2. Reaches(w, x) <=> Reaches(v, x)
      BY <2>1, Reaching
    <2>3. Reaches(x, w) <=> Reaches(x, v)
      BY <2>1, Reaching
    <2> QED
      BY <2>2, <2>3 DEF Component
  <1> QED
    BY <1>1, Reaching DEF Component

(* A set that money does not leave holds the components of its members.    *)
LEMMA ClosedKeeps ==
  ASSUME NEW S \in SUBSET Accounts, Closed(S), NEW v \in S
  PROVE  Component(v) \subseteq S
  BY Reaching DEF Component

(* The first of some accounts is one of them.                              *)
LEMMA LeastIn ==
  ASSUME NetworkAssumption, NEW S \in SUBSET Accounts, S # {}
  PROVE  Least(S) \in S
  <1>0. Cardinality(Accounts) \in Nat /\ Accounts \subseteq Nat
    BY FS_CardinalityType DEF NetworkAssumption
  <1> DEFINE h == [x \in S |-> 0 - x]
  <1>1. IsFiniteSet(S) /\ \A x \in S : h[x] \in Int
    <2>1. IsFiniteSet(S)
      BY FS_Subset DEF NetworkAssumption
    <2> QED
      BY <1>0, <2>1
  <1>2. PICK x \in S : \A y \in S : h[y] <= h[x]
    <2> HIDE DEF h
    <2> QED
      BY <1>1, Largest
  <1>3. \A y \in S : x <= y
    BY <1>0, <1>2
  <1> QED
    BY <1>3 DEF Least

(* A sequence of the stack or of the calls with a new first element, and   *)
(* without the first ones.                                                 *)
LEMMA Pushed ==
  ASSUME NEW T, NEW q \in Seq(T), NEW x \in T
  PROVE  /\ Len(q) \in Nat /\ DOMAIN q = 1 .. Len(q)
         /\ <<x>> \o q \in Seq(T) /\ Len(<<x>> \o q) = Len(q) + 1
         /\ DOMAIN (<<x>> \o q) = 1 .. Len(q) + 1
         /\ (<<x>> \o q)[1] = x /\ \A i \in 1 .. Len(q) : (<<x>> \o q)[i + 1] = q[i]
         /\ \A i \in 2 .. Len(q) + 1 : (<<x>> \o q)[i] = q[i - 1]
  OBVIOUS

(* A sequence cut after its n-th element.                                  *)
LEMMA Cut ==
  ASSUME NEW T, NEW q \in Seq(T), NEW n \in 1 .. Len(q)
  PROVE  /\ SubSeq(q, n + 1, Len(q)) \in Seq(T) /\ SubSeq(q, 1, n) \in Seq(T)
         /\ Len(SubSeq(q, n + 1, Len(q))) = Len(q) - n /\ Len(SubSeq(q, 1, n)) = n
         /\ \A i \in 1 .. Len(q) - n : SubSeq(q, n + 1, Len(q))[i] = q[n + i]
         /\ \A i \in 1 .. n : SubSeq(q, 1, n)[i] = q[i]
  <1>1. Len(q) \in Nat /\ \A i \in 1 .. Len(q) : q[i] \in T
    OBVIOUS
  <1>2. /\ n + 1 \in Int /\ Len(q) \in Int /\ 1 \in Int /\ n \in Int
        /\ \A i \in n + 1 .. Len(q) : q[i] \in T
        /\ \A i \in 1 .. n : q[i] \in T
    BY <1>1
  <1> DEFINE rest == SubSeq(q, n + 1, Len(q))
             top == SubSeq(q, 1, n)
  <1>3. /\ rest \in Seq(T) /\ Len(rest) = IF n + 1 <= Len(q) THEN Len(q) - (n + 1) + 1 ELSE 0
        /\ \A i \in 1 .. Len(q) - (n + 1) + 1 : rest[i] = q[n + 1 + i - 1]
    BY <1>2, SubSeqProperties
  <1>4. /\ top \in Seq(T) /\ Len(top) = IF 1 <= n THEN n - 1 + 1 ELSE 0
        /\ \A i \in 1 .. n - 1 + 1 : top[i] = q[1 + i - 1]
    BY <1>2, SubSeqProperties
  <1> HIDE DEF rest, top
  <1>5. /\ rest \in Seq(T) /\ Len(rest) = Len(q) - n
        /\ \A i \in 1 .. Len(q) - n : rest[i] = q[n + i]
    BY <1>1, <1>3
  <1>6. top \in Seq(T) /\ Len(top) = n /\ \A i \in 1 .. n : top[i] = q[i]
    BY <1>1, <1>4
  <1> QED
    BY Zenon, <1>5, <1>6 DEF rest, top

(* What follows the first element.                                         *)
LEMMA Behind ==
  ASSUME NEW T, NEW q \in Seq(T), q # <<>>
  PROVE  /\ Head(q) = q[1] /\ q[1] \in T /\ Tail(q) \in Seq(T) /\ Len(q) \in Nat \ {0}
         /\ Len(Tail(q)) = Len(q) - 1 /\ DOMAIN q = 1 .. Len(q)
         /\ DOMAIN Tail(q) = 1 .. Len(q) - 1
         /\ \A i \in 1 .. Len(q) - 1 : Tail(q)[i] = q[i + 1]
         /\ Tail(q) = <<>> <=> Len(q) = 1
  <1>1. Len(q) \in Nat \ {0} /\ DOMAIN q = 1 .. Len(q) /\ Head(q) = q[1] /\ q[1] \in T
    OBVIOUS
  <1>2. /\ Tail(q) \in Seq(T) /\ Len(Tail(q)) = Len(q) - 1
        /\ \A i \in 1 .. Len(Tail(q)) : Tail(q)[i] = q[i + 1]
    BY HeadTailProperties
  <1>3. DOMAIN Tail(q) = 1 .. Len(Tail(q)) /\ (Tail(q) = <<>> <=> Len(Tail(q)) = 0)
    BY <1>2
  <1> QED
    BY <1>1, <1>2, <1>3

(* A call begins: its node is numbered and on the stack.                   *)
LEMMA Entering ==
  ASSUME NetworkAssumption, SearchTyped, NEW v \in Accounts, ~Seen(v), Enter(v)
  PROVE  /\ Unseen \in Nat /\ Visited \in Nat /\ Visited < Unseen /\ Visited' = Visited + 1
         /\ flows' = flows /\ sccs' = sccs
         /\ indices'[v] = Visited /\ lowlinks'[v] = Visited /\ Seen(v)'
         /\ \A x \in Accounts \ {v} :
              indices'[x] = indices[x] /\ lowlinks'[x] = lowlinks[x] /\ (Seen(x)' <=> Seen(x))
         /\ Len(stack) \in Nat /\ DOMAIN stack = 1 .. Len(stack)
         /\ DOMAIN stack' = 1 .. Len(stack) + 1 /\ stack'[1] = v
         /\ \A i \in 2 .. Len(stack) + 1 : stack'[i] = stack[i - 1]
         /\ \A i \in 1 .. Len(stack) : stack'[i + 1] = stack[i]
         /\ \A x : OnStack(x)' <=> OnStack(x) \/ x = v
         /\ Len(frames) \in Nat /\ DOMAIN frames = 1 .. Len(frames)
         /\ DOMAIN frames' = 1 .. Len(frames) + 1
         /\ frames'[1] = [node |-> v, left |-> Targets(v)]
         /\ \A k \in 2 .. Len(frames) + 1 : frames'[k] = frames[k - 1]
         /\ \A k \in 1 .. Len(frames) : frames'[k + 1] = frames[k]
         /\ SearchTyped'
  <1> DEFINE seen == {x \in Accounts : indices[x] # Unseen}
  <1>1. /\ Unseen \in Nat /\ Cardinality(seen) \in Nat /\ Cardinality(seen) < Unseen
        /\ Cardinality(seen \cup {v}) = Cardinality(seen) + 1
    <2>1. IsFiniteSet(Accounts)
      BY DEF NetworkAssumption
    <2>2. Cardinality(Accounts) \in Nat
      BY <2>1, FS_CardinalityType
    <2>3. /\ IsFiniteSet(seen) /\ Cardinality(seen) <= Cardinality(Accounts)
          /\ Cardinality(Accounts) = Cardinality(seen) => Accounts = seen
      BY <2>1, FS_Subset
    <2>4. Cardinality(seen) \in Nat
      BY <2>3, FS_CardinalityType
    <2>5. v \notin seen
      BY DEF Seen
    <2>6. Cardinality(seen \cup {v}) = Cardinality(seen) + 1
      BY <2>3, <2>5, FS_AddElement
    <2> HIDE DEF seen
    <2> QED
      BY <2>2, <2>3, <2>4, <2>5, <2>6 DEF Unseen
  <1>2. Visited = Cardinality(seen) /\ Unseen' = Unseen
    BY DEF Visited, Unseen
  <1>3. /\ indices' = [indices EXCEPT ![v] = Visited] /\ lowlinks' = [lowlinks EXCEPT ![v] = Visited]
        /\ indices \in [Accounts -> 0 .. Unseen] /\ lowlinks \in [Accounts -> 0 .. Unseen]
        /\ flows' = flows /\ sccs' = sccs
    BY DEF Enter, SearchTyped
  <1>4. /\ indices'[v] = Visited /\ lowlinks'[v] = Visited /\ Seen(v)'
        /\ \A x \in Accounts \ {v} :
              indices'[x] = indices[x] /\ lowlinks'[x] = lowlinks[x] /\ (Seen(x)' <=> Seen(x))
        /\ indices' \in [Accounts -> 0 .. Unseen] /\ lowlinks' \in [Accounts -> 0 .. Unseen]
    BY <1>1, <1>2, <1>3 DEF Seen
  <1>5. Visited' = Visited + 1
    <2>1. \A x \in Accounts : indices'[x] # Unseen' <=> x \in seen \/ x = v
      BY <1>2, <1>4 DEF Seen
    <2> QED
      BY <1>1, <1>2, <2>1 DEF Visited
  <1>6. Targets(v) \in SUBSET Accounts
    BY DEF Targets
  <1>7. /\ Len(stack) \in Nat /\ DOMAIN stack = 1 .. Len(stack) /\ stack' \in Seq(Accounts)
        /\ DOMAIN stack' = 1 .. Len(stack) + 1 /\ stack'[1] = v
        /\ \A i \in 2 .. Len(stack) + 1 : stack'[i] = stack[i - 1]
        /\ \A i \in 1 .. Len(stack) : stack'[i + 1] = stack[i]
    <2>1. stack' = <<v>> \o stack /\ stack \in Seq(Accounts)
      BY DEF Enter, SearchTyped
    <2> QED
      BY <2>1, Pushed
  <1>8. /\ Len(frames) \in Nat /\ DOMAIN frames = 1 .. Len(frames)
        /\ DOMAIN frames' = 1 .. Len(frames) + 1
        /\ frames'[1] = [node |-> v, left |-> Targets(v)]
        /\ \A k \in 2 .. Len(frames) + 1 : frames'[k] = frames[k - 1]
        /\ \A k \in 1 .. Len(frames) : frames'[k + 1] = frames[k]
        /\ frames' \in Seq([node : Accounts, left : SUBSET Accounts])
    <2>1. /\ frames' = <<[node |-> v, left |-> Targets(v)]>> \o frames
          /\ frames \in Seq([node : Accounts, left : SUBSET Accounts])
          /\ [node |-> v, left |-> Targets(v)] \in [node : Accounts, left : SUBSET Accounts]
      BY <1>6 DEF Enter, SearchTyped
    <2> QED
      BY <2>1, Pushed
  <1>9. \A x : OnStack(x)' <=> OnStack(x) \/ x = v
    <2>1. ASSUME NEW x, OnStack(x) \/ x = v
          PROVE  \E i \in DOMAIN stack' : stack'[i] = x
      <3>1. CASE x = v
        BY <1>7, <3>1
      <3>2. CASE OnStack(x)
        <4>1. PICK i \in 1 .. Len(stack) : stack[i] = x
          BY <1>7, <3>2 DEF OnStack
        <4> QED
          BY <1>7, <4>1
      <3> QED
        BY <2>1, <3>1, <3>2
    <2>2. ASSUME NEW x, NEW i \in DOMAIN stack', stack'[i] = x, x # v
          PROVE  \E j \in DOMAIN stack : stack[j] = x
      <3>1. i \in 2 .. Len(stack) + 1 /\ i - 1 \in 1 .. Len(stack)
        BY <1>7, <2>2
      <3> QED
        BY <1>7, <2>2, <3>1
    <2> QED
      BY <2>1, <2>2 DEF OnStack
  <1>10. SearchTyped'
    BY <1>2, <1>3, <1>4, <1>7, <1>8 DEF SearchTyped
  <1> QED
    BY <1>1, <1>2, <1>3, <1>4, <1>5, <1>7, <1>8, <1>9, <1>10

(* What is known of the calls: the nodes are on the stack, numbered and    *)
(* numbered differently.                                                   *)
LEMMA CallsKnown ==
  ASSUME NetworkAssumption, SearchTyped, Numbered, Nested
  PROVE  /\ Unseen \in Nat /\ \A x \in Accounts : indices[x] \in Nat /\ lowlinks[x] \in Nat
         /\ Len(frames) \in Nat /\ DOMAIN frames = 1 .. Len(frames)
         /\ \A x : OnStack(x) => x \in Accounts /\ Seen(x)
         /\ \A k \in DOMAIN frames : /\ Node(k) \in Accounts /\ OnStack(Node(k)) /\ Seen(Node(k))
                                     /\ frames[k].left \subseteq Targets(Node(k))
                                     /\ indices[Node(k)] <= indices[Node(1)]
                                     /\ lowlinks[Node(k)] <= indices[Node(k)]
         /\ \A k, l \in DOMAIN frames : k < l => indices[Node(l)] < indices[Node(k)]
  <1>1. Unseen \in Nat
    BY FS_CardinalityType DEF NetworkAssumption, Unseen
  <1>2. \A x \in Accounts : indices[x] \in Nat /\ lowlinks[x] \in Nat
    BY <1>1 DEF SearchTyped
  <1>3. Len(frames) \in Nat /\ DOMAIN frames = 1 .. Len(frames)
    BY DEF SearchTyped
  <1>4. \A x : OnStack(x) => x \in Accounts /\ Seen(x)
    BY DEF OnStack, Numbered, SearchTyped
  <1>5. \A k \in DOMAIN frames : /\ Node(k) \in Accounts /\ OnStack(Node(k)) /\ Seen(Node(k))
                                 /\ frames[k].left \subseteq Targets(Node(k))
                                 /\ lowlinks[Node(k)] <= indices[Node(k)]
    BY <1>4 DEF Nested
  <1>6. \A k, l \in DOMAIN frames : k < l => indices[Node(l)] < indices[Node(k)]
    BY DEF Nested
  <1>7. ASSUME NEW k \in DOMAIN frames PROVE indices[Node(k)] <= indices[Node(1)]
    <2>1. CASE k = 1
      BY <1>2, <1>5, <2>1
    <2>2. CASE k # 1
      <3>1. 1 \in DOMAIN frames /\ 1 < k
        BY <1>3, <2>2
      <3>2. indices[Node(k)] < indices[Node(1)]
        BY <1>6, <3>1
      <3> QED
        BY <1>2, <1>5, <3>1, <3>2
    <2> QED
      BY <2>1, <2>2
  <1> QED
    BY <1>1, <1>2, <1>3, <1>4, <1>5, <1>6, <1>7

(* A new call keeps the invariant: every node on the stack reaches the     *)
(* current one, which reaches the one it goes to.                          *)
LEMMA EnterKeeps ==
  ASSUME NetworkAssumption, TarjanInv, NEW v \in Accounts, ~Seen(v), Enter(v),
         frames # <<>> => v \in frames[1].left
  PROVE  TarjanInv'
  <1> USE DEF TarjanInv
  <1>0. /\ Unseen \in Nat /\ \A x \in Accounts : indices[x] \in Nat /\ lowlinks[x] \in Nat
        /\ \A x : OnStack(x) => x \in Accounts /\ Seen(x)
        /\ \A k \in DOMAIN frames : /\ Node(k) \in Accounts /\ OnStack(Node(k)) /\ Seen(Node(k))
                                    /\ frames[k].left \subseteq Targets(Node(k))
                                    /\ indices[Node(k)] <= indices[Node(1)]
                                    /\ lowlinks[Node(k)] <= indices[Node(k)]
        /\ \A k, l \in DOMAIN frames : k < l => indices[Node(l)] < indices[Node(k)]
    BY CallsKnown
  <1>1. /\ Visited \in Nat /\ Visited < Unseen /\ Visited' = Visited + 1
        /\ flows' = flows /\ sccs' = sccs
        /\ indices'[v] = Visited /\ lowlinks'[v] = Visited /\ Seen(v)'
        /\ \A x \in Accounts \ {v} :
              indices'[x] = indices[x] /\ lowlinks'[x] = lowlinks[x] /\ (Seen(x)' <=> Seen(x))
        /\ Len(stack) \in Nat /\ DOMAIN stack = 1 .. Len(stack)
        /\ DOMAIN stack' = 1 .. Len(stack) + 1 /\ stack'[1] = v
        /\ \A i \in 2 .. Len(stack) + 1 : stack'[i] = stack[i - 1]
        /\ \A x : OnStack(x)' <=> OnStack(x) \/ x = v
        /\ SearchTyped'
    BY Entering
  <1>2. /\ Len(frames) \in Nat /\ DOMAIN frames = 1 .. Len(frames)
        /\ DOMAIN frames' = 1 .. Len(frames) + 1
        /\ frames'[1] = [node |-> v, left |-> Targets(v)]
        /\ \A k \in 2 .. Len(frames) + 1 : frames'[k] = frames[k - 1]
        /\ \A k \in 1 .. Len(frames) : frames'[k + 1] = frames[k]
    BY Entering
  <1>3. /\ \A x, y : Reaches(x, y)' <=> Reaches(x, y)
        /\ \A x : Component(x)' = Component(x)
        /\ \A S : Closed(S)' <=> Closed(S)
    BY <1>1, SamePaths
  <1>4. /\ Node(1)' = v /\ 1 \in DOMAIN frames'
        /\ \A k \in DOMAIN frames' : k # 1 => k - 1 \in DOMAIN frames /\ Node(k)' = Node(k - 1)
        /\ \A k \in DOMAIN frames : k + 1 \in DOMAIN frames' /\ Node(k + 1)' = Node(k)
    BY <1>2 DEF Node
  <1>5. \A x \in Accounts : OnStack(x) => x # v /\ indices'[x] = indices[x] /\ indices[x] < Visited
    BY <1>0, <1>1 DEF Numbered
  <1>6. \A k \in DOMAIN frames :
          /\ Node(k) # v /\ indices'[Node(k)] = indices[Node(k)]
          /\ lowlinks'[Node(k)] = lowlinks[Node(k)] /\ indices[Node(k)] < Visited
    BY <1>0, <1>1, <1>5
  <1>7. \A y, z \in Accounts : Looked(y, z)' => Looked(y, z) /\ y # v
    <2> SUFFICES ASSUME NEW y \in Accounts, NEW z \in Accounts, Looked(y, z)'
                 PROVE  Looked(y, z) /\ y # v
      OBVIOUS
    <2>1. Seen(y)' /\ <<y, z>> \in flows /\ ~ToLookAt(y, z)'
      BY <1>1 DEF Looked
    <2>2. y # v
      <3>1. CASE y = v
        <4>1. z \in frames'[1].left
          BY <1>2, <2>1, <3>1 DEF Targets
        <4> QED
          BY <1>4, <2>1, <3>1, <4>1 DEF ToLookAt
      <3> QED
        BY <3>1
    <2>3. ToLookAt(y, z) => ToLookAt(y, z)'
      <3> SUFFICES ASSUME NEW k \in DOMAIN frames, Node(k) = y, z \in frames[k].left
                   PROVE  ToLookAt(y, z)'
        BY DEF ToLookAt
      <3> QED
        BY <1>2, <1>4 DEF ToLookAt
    <2> QED
      BY <1>1, <2>1, <2>2, <2>3 DEF Looked
  <1>8. Claimed' = Claimed
    BY <1>0, <1>1 DEF Claimed
  <1>9. Numbered'
    <2>1. \A x \in Accounts : Seen(x)' => indices'[x] < Visited'
      BY <1>0, <1>1 DEF Numbered
    <2>2. \A x, y \in Accounts : Seen(x)' /\ indices'[x] = indices'[y] => x = y
      <3> SUFFICES ASSUME NEW x \in Accounts, NEW y \in Accounts, Seen(x)', indices'[x] = indices'[y]
                   PROVE  x = y
        OBVIOUS
      <3>1. Seen(y)'
        BY <1>1 DEF Seen
      <3>2. \A u \in Accounts \ {v} : Seen(u)' => indices'[u] = indices[u] /\ indices[u] < Visited /\ Seen(u)
        BY <1>1 DEF Numbered
      <3>3. CASE x = v \/ y = v
        BY <1>0, <1>1, <3>1, <3>2, <3>3
      <3>4. CASE x # v /\ y # v
        BY <3>1, <3>2, <3>4 DEF Numbered
      <3> QED
        BY <3>3, <3>4
    <2>3. \A i \in DOMAIN stack' : indices'[stack'[i]] # Unseen
      <3>1. \A x \in Accounts : Seen(x)' <=> indices'[x] # Unseen
        BY DEF Seen, Unseen
      <3>2. \A i \in DOMAIN stack' : stack'[i] = v \/ OnStack(stack'[i])
        BY <1>1 DEF OnStack
      <3> QED
        BY <1>0, <1>1, <3>1, <3>2
    <2>4. \A i, j \in DOMAIN stack' : i < j => indices'[stack'[j]] < indices'[stack'[i]]
      <3> SUFFICES ASSUME NEW i \in DOMAIN stack', NEW j \in DOMAIN stack', i < j
                   PROVE  indices'[stack'[j]] < indices'[stack'[i]]
        OBVIOUS
      <3>1. j \in 2 .. Len(stack) + 1 /\ stack'[j] = stack[j - 1] /\ j - 1 \in DOMAIN stack
        BY <1>1
      <3>2. /\ OnStack(stack[j - 1]) /\ stack[j - 1] \in Accounts
            /\ indices'[stack'[j]] = indices[stack[j - 1]] /\ indices[stack[j - 1]] < Visited
        BY <1>0, <1>5, <3>1 DEF OnStack
      <3>3. CASE i = 1
        BY <1>1, <3>2, <3>3
      <3>4. CASE i # 1
        <4>1. /\ i \in 2 .. Len(stack) + 1 /\ stack'[i] = stack[i - 1] /\ i - 1 \in DOMAIN stack
              /\ i - 1 < j - 1
          BY <1>1, <3>4
        <4>2. indices'[stack'[i]] = indices[stack[i - 1]]
          BY <1>0, <1>5, <4>1 DEF OnStack
        <4>3. indices[stack[j - 1]] < indices[stack[i - 1]]
          BY <3>1, <4>1 DEF Numbered
        <4> QED
          BY <3>2, <4>2, <4>3
      <3> QED
        BY <3>3, <3>4
    <2> QED
      BY <2>1, <2>2, <2>3, <2>4 DEF Numbered, Seen, Unseen
  <1>10. Nested'
    <2>0. \A x \in Accounts : Targets(x)' = Targets(x)
      BY <1>1 DEF Targets
    <2>1. ASSUME NEW k \in DOMAIN frames'
          PROVE  \E x \in Accounts : /\ x = Node(k)' /\ OnStack(x)' /\ frames'[k].left \subseteq Targets(x)
                                     /\ lowlinks'[x] <= indices'[x]
      <3>1. CASE k = 1
        <4>1. Node(k)' = v /\ OnStack(v)' /\ frames'[k].left = Targets(v) /\ lowlinks'[v] = indices'[v]
          BY <1>1, <1>2, <1>4, <3>1
        <4> QED
          BY <1>1, <4>1
      <3>2. CASE k # 1
        <4>1. k - 1 \in DOMAIN frames /\ Node(k)' = Node(k - 1) /\ frames'[k] = frames[k - 1]
          BY <1>2, <1>4, <3>2
        <4>2. PICK x \in Accounts : x = Node(k - 1) /\ OnStack(x)
          BY <1>0, <4>1
        <4>3. OnStack(x)'
          BY <1>1, <4>2
        <4>4. lowlinks'[x] <= indices'[x] /\ frames[k - 1].left \subseteq Targets(x)
          BY <1>0, <1>6, <4>1, <4>2
        <4> QED
          BY <4>1, <4>2, <4>3, <4>4
      <3> QED
        BY <3>1, <3>2
    <2>2. ASSUME NEW k \in DOMAIN frames', NEW l \in DOMAIN frames', k < l
          PROVE  indices'[Node(l)'] < indices'[Node(k)']
      <3>1. l - 1 \in DOMAIN frames /\ Node(l)' = Node(l - 1)
        BY <1>2, <1>4, <2>2
      <3>2. CASE k = 1
        BY <1>1, <1>4, <1>6, <3>1, <3>2
      <3>3. CASE k # 1
        <4>1. k - 1 \in DOMAIN frames /\ Node(k)' = Node(k - 1) /\ k - 1 < l - 1
          BY <1>2, <1>4, <2>2, <3>3
        <4> QED
          BY <1>0, <1>6, <3>1, <4>1
      <3> QED
        BY <3>2, <3>3
    <2>3. ASSUME NEW k \in DOMAIN frames', k + 1 \in DOMAIN frames'
          PROVE  Node(k)' \in frames'[k + 1].left
      <3>1. CASE k = 1
        <4>1. frames # <<>> /\ frames'[2] = frames[1]
          BY <1>2, <2>3, <3>1
        <4> QED
          BY <1>4, <3>1, <4>1
      <3>2. CASE k # 1
        <4>1. /\ k - 1 \in DOMAIN frames /\ (k - 1) + 1 \in DOMAIN frames
              /\ Node(k)' = Node(k - 1) /\ frames'[k + 1] = frames[(k - 1) + 1]
          BY <1>2, <1>4, <2>3, <3>2
        <4> QED
          BY <4>1 DEF Nested
      <3> QED
        BY <3>1, <3>2
    <2>4. \A k \in DOMAIN frames' :
            /\ \E i \in DOMAIN stack' : stack'[i] = Node(k)'
            /\ frames'[k].left \subseteq {w \in Accounts : <<Node(k)', w>> \in flows'}
            /\ lowlinks'[Node(k)'] <= indices'[Node(k)']
      BY <1>1, <2>1 DEF OnStack, Targets
    <2> QED
      BY <2>2, <2>3, <2>4 DEF Nested, OnStack, Targets
  <1>11. OnePath'
    <2>1. ASSUME NEW x \in Accounts, OnStack(x) PROVE Reaches(x, v)
      <3>1. PICK k \in DOMAIN frames : indices[Node(k)] <= indices[x] /\ Reaches(x, Node(k))
        BY <2>1 DEF OnePath
      <3>2. 1 \in DOMAIN frames /\ frames # <<>>
        BY <1>2, <3>1
      <3>3. Reaches(Node(k), Node(1))
        BY <1>0, <3>1, <3>2 DEF OnePath
      <3>4. Reaches(Node(1), v)
        BY <1>0, <3>2, Reaching DEF Targets
      <3> QED
        BY <1>0, <3>1, <3>2, <3>3, <3>4, Reaching
    <2>2. ASSUME NEW x \in Accounts, NEW y \in Accounts,
                 OnStack(x)', OnStack(y)', indices'[x] <= indices'[y]
          PROVE  Reaches(x, y)
      <3>1. CASE y = v
        BY <1>1, <2>1, <2>2, <3>1, Reaching
      <3>2. CASE y # v
        <4>1. OnStack(y) /\ x # v
          BY <1>0, <1>1, <1>5, <2>2, <3>2
        <4> QED
          BY <1>1, <1>5, <2>2, <4>1 DEF OnePath
      <3> QED
        BY <3>1, <3>2
    <2>3. ASSUME NEW y \in Accounts, OnStack(y)'
          PROVE  \E k \in DOMAIN frames' : indices'[Node(k)'] <= indices'[y] /\ Reaches(y, Node(k)')
      <3>1. CASE y = v
        BY <1>1, <1>4, <3>1, Reaching
      <3>2. CASE y # v
        <4>1. OnStack(y)
          BY <1>1, <2>3, <3>2
        <4>2. PICK k \in DOMAIN frames : indices[Node(k)] <= indices[y] /\ Reaches(y, Node(k))
          BY <4>1 DEF OnePath
        <4>3. indices'[Node(k)] <= indices'[y]
          BY <1>5, <1>6, <4>1, <4>2
        <4> QED
          BY <1>4, <4>2, <4>3
      <3> QED
        BY <3>1, <3>2
    <2> QED
      BY <1>3, <2>2, <2>3 DEF OnePath
  <1>12. LowFounded'
    <2> SUFFICES ASSUME NEW k \in DOMAIN frames'
                 PROVE  \E z \in Accounts : OnStack(z)' /\ lowlinks'[Node(k)'] = indices'[z]
                                            /\ Reaches(Node(k)', z)
      BY <1>3 DEF LowFounded
    <2>1. CASE k = 1
      BY <1>1, <1>4, <2>1, Reaching
    <2>2. CASE k # 1
      <3>1. k - 1 \in DOMAIN frames /\ Node(k)' = Node(k - 1)
        BY <1>4, <2>2
      <3>2. PICK z \in Accounts : OnStack(z) /\ lowlinks[Node(k - 1)] = indices[z] /\ Reaches(Node(k - 1), z)
        BY <3>1 DEF LowFounded
      <3> QED
        BY <1>1, <1>5, <1>6, <3>1, <3>2
    <2> QED
      BY <2>1, <2>2
  <1>13. LowEnough'
    <2> SUFFICES ASSUME NEW k \in DOMAIN frames', NEW y \in Accounts, NEW z \in Accounts,
                        OnStack(y)', OnStack(z)', Looked(y, z)', indices'[Node(k)'] <= indices'[y]
                 PROVE  \E j \in 1 .. k : lowlinks'[Node(j)'] <= indices'[z]
      BY DEF LowEnough
    <2>1. Looked(y, z) /\ y # v /\ OnStack(y)
      BY <1>1, <1>7
    <2>2. Seen(z) /\ z # v /\ OnStack(z)
      BY <1>1, <2>1 DEF Explores
    <2>3. k # 1
      BY <1>0, <1>1, <1>4, <1>5, <2>1
    <2>4. k - 1 \in DOMAIN frames /\ Node(k)' = Node(k - 1)
      BY <1>4, <2>3
    <2>5. indices[Node(k - 1)] <= indices[y]
      BY <1>5, <1>6, <2>1, <2>4
    <2>6. PICK j \in 1 .. k - 1 : lowlinks[Node(j)] <= indices[z]
      BY <2>1, <2>2, <2>4, <2>5 DEF LowEnough
    <2>7. j \in DOMAIN frames /\ j + 1 \in 1 .. k /\ Node(j + 1)' = Node(j)
      BY <1>2, <1>4, <2>4, <2>6
    <2> QED
      BY <1>5, <1>6, <2>2, <2>6, <2>7
  <1>14. Explores'
    BY <1>1, <1>3, <1>7, <1>8 DEF Explores
  <1>15. Components'
    <2>1. \A x : Large(x)' <=> Large(x)
      BY <1>3 DEF Large
    <2> QED
      BY <1>1, <1>3, <1>8, <2>1 DEF Components
  <1> QED
    BY <1>1, <1>9, <1>10, <1>11, <1>12, <1>13, <1>14, <1>15

(* A call looks at a neighbour that has been seen.                         *)
LEMMA Looking ==
  ASSUME NetworkAssumption, SearchTyped, Numbered, Nested, Look
  PROVE  /\ flows' = flows /\ indices' = indices /\ stack' = stack /\ sccs' = sccs
         /\ 1 \in DOMAIN frames /\ DOMAIN frames' = DOMAIN frames
         /\ \A k \in DOMAIN frames : frames'[k].node = frames[k].node
         /\ \A k \in DOMAIN frames : k # 1 => frames'[k] = frames[k]
         /\ \A x \in Accounts : x # Node(1) => lowlinks'[x] = lowlinks[x]
         /\ \E w \in frames[1].left :
              /\ w \in Accounts /\ Seen(w) /\ <<Node(1), w>> \in flows
              /\ frames'[1].left = frames[1].left \ {w}
              /\ OnStack(w) => lowlinks'[Node(1)] <= indices[w]
              /\ lowlinks'[Node(1)] <= lowlinks[Node(1)]
              /\ \/ lowlinks'[Node(1)] = lowlinks[Node(1)]
                 \/ OnStack(w) /\ lowlinks'[Node(1)] = indices[w]
         /\ SearchTyped'
  <1>0. /\ Unseen \in Nat /\ \A x \in Accounts : indices[x] \in Nat /\ lowlinks[x] \in Nat
        /\ \A k \in DOMAIN frames : Node(k) \in Accounts /\ frames[k].left \subseteq Targets(Node(k))
    BY CallsKnown
  <1> DEFINE F == [node : Accounts, left : SUBSET Accounts]
  <1>1. frames \in Seq(F) /\ frames # <<>>
    BY DEF Look, SearchTyped
  <1>2. /\ Current = frames[1] /\ frames[1] \in F /\ Tail(frames) \in Seq(F)
        /\ Len(frames) \in Nat \ {0} /\ Len(Tail(frames)) = Len(frames) - 1
        /\ DOMAIN frames = 1 .. Len(frames)
        /\ \A i \in 1 .. Len(frames) - 1 : Tail(frames)[i] = frames[i + 1]
    BY <1>1, Behind DEF Current
  <1>3. PICK w \in Accounts :
          /\ Neighbour(w) /\ Seen(w)
          /\ frames' = <<[Current EXCEPT !.left = @ \ {w}]>> \o Tail(frames)
          /\ lowlinks' = IF OnStack(w) THEN [lowlinks EXCEPT ![Current.node] = Minimum(@, indices[w])]
                         ELSE lowlinks
    BY DEF Look, Unclaimed, Seen
  <1> DEFINE head == [frames[1] EXCEPT !.left = @ \ {w}]
  <1>4. head \in F /\ head.node = frames[1].node /\ head.left = frames[1].left \ {w}
    BY <1>2
  <1>5. /\ frames' \in Seq(F) /\ DOMAIN frames' = 1 .. Len(Tail(frames)) + 1
        /\ frames'[1] = head
        /\ \A i \in 2 .. Len(Tail(frames)) + 1 : frames'[i] = Tail(frames)[i - 1]
    <2>1. frames' = <<head>> \o Tail(frames)
      BY <1>2, <1>3
    <2> HIDE DEF head, F
    <2> QED
      BY <1>2, <1>4, <2>1, Pushed
  <1> HIDE DEF head
  <1>6. w \in frames[1].left
    BY <1>2, <1>3, LeastIn DEF Neighbour
  <1>7. <<Node(1), w>> \in flows
    BY <1>0, <1>2, <1>6 DEF Targets
  <1>8. DOMAIN frames' = DOMAIN frames /\ \A k \in DOMAIN frames : k # 1 => frames'[k] = frames[k]
    BY <1>2, <1>5
  <1>9. \A k \in DOMAIN frames : frames'[k].node = frames[k].node
    BY <1>4, <1>5, <1>8
  <1>10. flows' = flows /\ indices' = indices /\ stack' = stack /\ sccs' = sccs
    BY DEF Look
  <1>11. /\ \A x \in Accounts : x # Node(1) => lowlinks'[x] = lowlinks[x]
         /\ OnStack(w) => lowlinks'[Node(1)] <= indices[w]
         /\ lowlinks'[Node(1)] <= lowlinks[Node(1)]
         /\ \/ lowlinks'[Node(1)] = lowlinks[Node(1)]
            \/ OnStack(w) /\ lowlinks'[Node(1)] = indices[w]
         /\ lowlinks' \in [Accounts -> 0 .. Unseen]
    <2>1. lowlinks \in [Accounts -> 0 .. Unseen] /\ indices \in [Accounts -> 0 .. Unseen]
      BY DEF SearchTyped
    <2>2. Node(1) \in Accounts /\ Current.node = Node(1)
      BY <1>0, <1>2 DEF Node
    <2>3. CASE ~OnStack(w)
      BY <1>0, <1>3, <2>1, <2>2, <2>3
    <2>4. CASE OnStack(w)
      <3>1. lowlinks' = [lowlinks EXCEPT ![Node(1)] = Minimum(lowlinks[Node(1)], indices[w])]
        BY <1>3, <2>2, <2>4
      <3> QED
        BY <1>0, <2>1, <2>2, <2>4, <3>1 DEF Minimum
    <2> QED
      BY <2>3, <2>4
  <1>12. SearchTyped'
    BY <1>5, <1>10, <1>11 DEF SearchTyped, Unseen
  <1>13. /\ w \in frames[1].left /\ w \in Accounts /\ Seen(w)
         /\ frames'[1].left = frames[1].left \ {w}
    BY <1>3, <1>4, <1>5, <1>6
  <1>14. 1 \in DOMAIN frames
    BY <1>2
  <1> QED
    BY <1>7, <1>8, <1>9, <1>10, <1>11, <1>12, <1>13, <1>14

(* So does a look at a neighbour met before: if it is on the stack, the    *)
(* low link comes down to its index.                                       *)
LEMMA LookKeeps ==
  ASSUME NetworkAssumption, TarjanInv, Look
  PROVE  TarjanInv'
  <1> USE DEF TarjanInv
  <1>0. /\ Unseen \in Nat /\ \A x \in Accounts : indices[x] \in Nat /\ lowlinks[x] \in Nat
        /\ DOMAIN frames = 1 .. Len(frames) /\ Len(frames) \in Nat
        /\ \A x : OnStack(x) => x \in Accounts /\ Seen(x)
        /\ \A k \in DOMAIN frames : /\ Node(k) \in Accounts /\ OnStack(Node(k)) /\ Seen(Node(k))
                                    /\ frames[k].left \subseteq Targets(Node(k))
                                    /\ indices[Node(k)] <= indices[Node(1)]
                                    /\ lowlinks[Node(k)] <= indices[Node(k)]
        /\ \A k, l \in DOMAIN frames : k < l => indices[Node(l)] < indices[Node(k)]
    BY CallsKnown
  <1>1. /\ flows' = flows /\ indices' = indices /\ stack' = stack /\ sccs' = sccs
        /\ 1 \in DOMAIN frames /\ DOMAIN frames' = DOMAIN frames
        /\ \A k \in DOMAIN frames : frames'[k].node = frames[k].node
        /\ \A k \in DOMAIN frames : k # 1 => frames'[k] = frames[k]
        /\ \A x \in Accounts : x # Node(1) => lowlinks'[x] = lowlinks[x]
        /\ SearchTyped'
    BY Looking
  <1>2. PICK w \in frames[1].left :
              /\ w \in Accounts /\ Seen(w) /\ <<Node(1), w>> \in flows
              /\ frames'[1].left = frames[1].left \ {w}
              /\ OnStack(w) => lowlinks'[Node(1)] <= indices[w]
              /\ lowlinks'[Node(1)] <= lowlinks[Node(1)]
              /\ \/ lowlinks'[Node(1)] = lowlinks[Node(1)]
                 \/ OnStack(w) /\ lowlinks'[Node(1)] = indices[w]
    BY Looking
  <1>3. /\ \A x, y : Reaches(x, y)' <=> Reaches(x, y)
        /\ \A x : Component(x)' = Component(x)
        /\ \A S : Closed(S)' <=> Closed(S)
    BY <1>1, SamePaths
  <1>4. /\ \A k \in DOMAIN frames : Node(k)' = Node(k)
        /\ \A x : OnStack(x)' <=> OnStack(x)
        /\ \A x : Seen(x)' <=> Seen(x)
        /\ Visited' = Visited /\ Claimed' = Claimed
        /\ \A x : Targets(x)' = Targets(x)
    BY <1>1 DEF Node, OnStack, Seen, Visited, Claimed, Targets
  <1>5. \A y, z \in Accounts : Looked(y, z)' => Looked(y, z) \/ (y = Node(1) /\ z = w)
    <2> SUFFICES ASSUME NEW y \in Accounts, NEW z \in Accounts, Looked(y, z)',
                        ~(y = Node(1) /\ z = w), ToLookAt(y, z)
                 PROVE  FALSE
      BY <1>1, <1>4 DEF Looked
    <2>1. PICK k \in DOMAIN frames : Node(k) = y /\ z \in frames[k].left
      BY DEF ToLookAt
    <2>2. z \in frames'[k].left
      BY <1>1, <1>2, <2>1
    <2>3. ToLookAt(y, z)'
      BY <1>1, <1>4, <2>1, <2>2 DEF ToLookAt
    <2> QED
      BY <2>3 DEF Looked
  <1>6. \A x \in Accounts : lowlinks'[x] \in Nat /\ lowlinks'[x] <= lowlinks[x]
    <2>1. lowlinks' \in [Accounts -> 0 .. Unseen]
      BY <1>1 DEF SearchTyped, Unseen
    <2>2. \A x \in Accounts : lowlinks'[x] \in Nat
      BY <1>0, <2>1
    <2> QED
      BY <1>0, <1>1, <1>2, <2>2
  <1>7. Numbered'
    BY <1>1, <1>4 DEF Numbered, Seen
  <1>8. Nested'
    <2>1. \A k \in DOMAIN frames :
            /\ \E i \in DOMAIN stack : stack[i] = Node(k)
            /\ frames'[k].left \subseteq {x \in Accounts : <<Node(k), x>> \in flows}
            /\ lowlinks'[Node(k)] <= indices[Node(k)]
      <3> SUFFICES ASSUME NEW k \in DOMAIN frames
                   PROVE  /\ \E i \in DOMAIN stack : stack[i] = Node(k)
                          /\ frames'[k].left \subseteq {x \in Accounts : <<Node(k), x>> \in flows}
                          /\ lowlinks'[Node(k)] <= indices[Node(k)]
        OBVIOUS
      <3>1. frames'[k].left \subseteq frames[k].left
        BY <1>1, <1>2
      <3>2. lowlinks'[Node(k)] <= indices[Node(k)]
        BY <1>0, <1>6
      <3> QED
        BY <1>0, <3>1, <3>2 DEF OnStack, Targets
    <2>2. \A k \in DOMAIN frames : k + 1 \in DOMAIN frames => Node(k) \in frames'[k + 1].left
      BY <1>0, <1>1 DEF Nested
    <2> QED
      BY <1>0, <1>1, <1>4, <2>1, <2>2 DEF Nested, OnStack, Targets
  <1>9. OnePath'
    <2>1. \A y \in Accounts : OnStack(y)' =>
            \E k \in DOMAIN frames : indices[Node(k)] <= indices[y] /\ Reaches(y, Node(k))
      BY <1>4 DEF OnePath
    <2> QED
      BY <1>1, <1>3, <1>4, <2>1 DEF OnePath
  <1>10. LowFounded'
    <2> SUFFICES ASSUME NEW k \in DOMAIN frames
                 PROVE  \E z \in Accounts : OnStack(z) /\ lowlinks'[Node(k)] = indices[z]
                                            /\ Reaches(Node(k), z)
      BY <1>1, <1>3, <1>4 DEF LowFounded
    <2>1. CASE lowlinks'[Node(k)] = lowlinks[Node(k)]
      BY <2>1 DEF LowFounded
    <2>2. CASE lowlinks'[Node(k)] # lowlinks[Node(k)]
      <3>1. Node(k) = Node(1) /\ OnStack(w) /\ lowlinks'[Node(1)] = indices[w]
        BY <1>0, <1>1, <1>2, <2>2
      <3> QED
        BY <1>2, <3>1, Reaching
    <2> QED
      BY <2>1, <2>2
  <1>11. LowEnough'
    <2> SUFFICES ASSUME NEW k \in DOMAIN frames, NEW y \in Accounts, NEW z \in Accounts,
                        OnStack(y), OnStack(z), Looked(y, z)', indices[Node(k)] <= indices[y]
                 PROVE  \E j \in 1 .. k : lowlinks'[Node(j)] <= indices[z]
      <3>1. \A k \in DOMAIN frames : \A j \in 1 .. k : Node(j)' = Node(j)
        BY <1>0, <1>4
      <3> QED
        BY <1>1, <1>4, <3>1 DEF LowEnough
    <2>1. CASE Looked(y, z)
      <3>1. PICK j \in 1 .. k : lowlinks[Node(j)] <= indices[z]
        BY <2>1 DEF LowEnough
      <3>2. j \in DOMAIN frames /\ Node(j) \in Accounts
        BY <1>0, <3>1
      <3>3. lowlinks'[Node(j)] \in Nat /\ lowlinks'[Node(j)] <= lowlinks[Node(j)]
        BY <1>6, <3>2
      <3>4. lowlinks[Node(j)] \in Nat /\ indices[z] \in Nat
        BY <1>0, <3>2
      <3>5. lowlinks'[Node(j)] <= indices[z]
        BY <3>1, <3>3, <3>4
      <3> QED
        BY Zenon, <3>1, <3>5
    <2>2. CASE y = Node(1) /\ z = w
      BY <1>0, <1>2, <2>2
    <2> QED
      BY <1>5, <2>1, <2>2
  <1>12. Explores'
    BY <1>2, <1>3, <1>4, <1>5 DEF Explores
  <1>13. Components'
    <2>1. \A x : Large(x)' <=> Large(x)
      BY <1>3 DEF Large
    <2> QED
      BY <1>1, <1>3, <1>4, <2>1 DEF Components
  <1> QED
    BY <1>1, <1>7, <1>8, <1>9, <1>10, <1>11, <1>12, <1>13

(* A call returns: it has looked at everything, and its caller takes over. *)
LEMMA Leaving ==
  ASSUME NetworkAssumption, SearchTyped, Numbered, Nested, Leave
  PROVE  /\ flows' = flows /\ indices' = indices
         /\ 1 \in DOMAIN frames /\ frames[1].left = {}
         /\ Len(frames) \in Nat /\ DOMAIN frames = 1 .. Len(frames)
         /\ DOMAIN frames' = 1 .. Len(frames) - 1
         /\ \A k \in 2 .. Len(frames) : Node(k - 1)' = Node(k)
         /\ 2 \in DOMAIN frames => frames'[1].left = frames[2].left \ {Node(1)}
         /\ \A k \in 3 .. Len(frames) : frames'[k - 1] = frames[k]
         /\ \A k \in DOMAIN frames : k >= 3 => lowlinks'[Node(k)] = lowlinks[Node(k)]
         /\ 2 \in DOMAIN frames =>
              /\ lowlinks'[Node(2)] <= lowlinks[Node(2)] /\ lowlinks'[Node(2)] <= lowlinks[Node(1)]
              /\ lowlinks'[Node(2)] \in {lowlinks[Node(2)], lowlinks[Node(1)]}
         /\ lowlinks' \in [Accounts -> 0 .. Unseen]
         /\ frames' \in Seq([node : Accounts, left : SUBSET Accounts])
  <1>0. /\ Unseen \in Nat /\ \A x \in Accounts : indices[x] \in Nat /\ lowlinks[x] \in Nat
        /\ \A k \in DOMAIN frames : Node(k) \in Accounts
        /\ \A k, l \in DOMAIN frames : k < l => indices[Node(l)] < indices[Node(k)]
    BY CallsKnown
  <1> DEFINE F == [node : Accounts, left : SUBSET Accounts]
             up == Tail(frames)
             v == Node(1)
  <1>1. frames \in Seq(F) /\ frames # <<>>
    BY DEF Leave, SearchTyped
  <1>2. /\ Current = frames[1] /\ frames[1] \in F /\ up \in Seq(F)
        /\ Len(frames) \in Nat \ {0} /\ Len(up) = Len(frames) - 1
        /\ DOMAIN frames = 1 .. Len(frames) /\ DOMAIN up = 1 .. Len(frames) - 1
        /\ \A i \in 1 .. Len(frames) - 1 : up[i] = frames[i + 1]
        /\ up = <<>> <=> Len(frames) = 1
    BY <1>1, Behind DEF Current
  <1> HIDE DEF up
  <1>3. /\ frames' = IF up = <<>> THEN up ELSE <<[up[1] EXCEPT !.left = @ \ {v}]>> \o Tail(up)
        /\ lowlinks' = IF up = <<>> THEN lowlinks
                       ELSE [lowlinks EXCEPT ![up[1].node] = Minimum(@, lowlinks[v])]
        /\ flows' = flows /\ indices' = indices /\ frames[1].left = {}
    BY <1>2 DEF Leave, Node, up
  <1>4. lowlinks \in [Accounts -> 0 .. Unseen]
    BY DEF SearchTyped
  <1>5. CASE Len(frames) = 1
    <2>1. frames' = up /\ lowlinks' = lowlinks
      BY <1>2, <1>3, <1>5
    <2> HIDE DEF F, v
    <2> QED
      BY <1>2, <1>3, <1>4, <1>5, <2>1 DEF F
  <1>6. CASE Len(frames) # 1
    <2> DEFINE head == [up[1] EXCEPT !.left = @ \ {v}]
    <2>1. 2 \in DOMAIN frames /\ up # <<>> /\ up[1] = frames[2] /\ up[1] \in F
      <3>1. 2 \in 1 .. Len(frames) /\ 1 \in 1 .. Len(frames) - 1 /\ up # <<>>
        BY <1>2, <1>6
      <3>2. up[1] = frames[1 + 1]
        BY <1>2, <3>1
      <3>3. frames[2] \in F
        <4> HIDE DEF F
        <4> QED
          BY <1>1, <1>2, <3>1
      <3> QED
        BY <1>2, <3>1, <3>2, <3>3
    <2>2. head \in F /\ head.node = Node(2) /\ head.left = frames[2].left \ {v}
      BY <2>1 DEF Node
    <2>3. /\ Tail(up) \in Seq(F) /\ Len(Tail(up)) = Len(frames) - 2
          /\ \A i \in 1 .. Len(frames) - 2 : Tail(up)[i] = up[i + 1]
      BY <1>2, <2>1, Behind
    <2>4. /\ frames' \in Seq(F) /\ DOMAIN frames' = 1 .. Len(Tail(up)) + 1
          /\ frames'[1] = head
          /\ \A i \in 2 .. Len(Tail(up)) + 1 : frames'[i] = Tail(up)[i - 1]
      <3>1. frames' = <<head>> \o Tail(up)
        BY <1>3, <2>1
      <3> HIDE DEF head, F
      <3> QED
        BY <2>2, <2>3, <3>1, Pushed
    <2> HIDE DEF head
    <2>5. DOMAIN frames' = 1 .. Len(frames) - 1
      BY <1>2, <2>3, <2>4
    <2>6. \A k \in 3 .. Len(frames) : frames'[k - 1] = frames[k]
      BY <1>2, <2>3, <2>4
    <2>7. \A k \in 2 .. Len(frames) : Node(k - 1)' = Node(k)
      BY <1>2, <2>2, <2>4, <2>6 DEF Node
    <2>8. lowlinks' = [lowlinks EXCEPT ![Node(2)] = Minimum(lowlinks[Node(2)], lowlinks[v])]
      BY <1>3, <2>1 DEF Node
    <2>9. Node(2) \in Accounts /\ v \in Accounts /\ lowlinks[Node(2)] \in Nat /\ lowlinks[v] \in Nat
      <3>1. 1 \in DOMAIN frames
        BY <1>2
      <3> QED
        BY <1>0, <2>1, <3>1
    <2>10. /\ lowlinks'[Node(2)] <= lowlinks[Node(2)] /\ lowlinks'[Node(2)] <= lowlinks[v]
           /\ lowlinks'[Node(2)] \in {lowlinks[Node(2)], lowlinks[v]}
           /\ lowlinks' \in [Accounts -> 0 .. Unseen]
      BY <1>4, <2>8, <2>9 DEF Minimum
    <2>11. \A k \in DOMAIN frames : k >= 3 => lowlinks'[Node(k)] = lowlinks[Node(k)]
      <3>1. \A k \in DOMAIN frames : k >= 3 => Node(k) # Node(2) /\ Node(k) \in Accounts
        <4>1. \A k \in DOMAIN frames : k >= 3 => indices[Node(k)] < indices[Node(2)]
          <5> SUFFICES ASSUME NEW k \in DOMAIN frames, k >= 3
                       PROVE  indices[Node(k)] < indices[Node(2)]
            OBVIOUS
          <5>1. 2 < k
            BY <1>2
          <5> QED
            BY <1>0, <2>1, <5>1
        <4> QED
          BY <1>0, <2>9, <4>1
      <3> QED
        BY <1>4, <2>8, <3>1
    <2> QED
      BY <1>2, <1>3, <2>1, <2>2, <2>4, <2>5, <2>6, <2>7, <2>10, <2>11
  <1> QED
    BY <1>5, <1>6

(* What the stack keeps.                                                   *)
LEMMA Popping ==
  ASSUME NetworkAssumption, SearchTyped, Numbered, Nested, Leave
  PROVE  LET v == Node(1) IN
         /\ lowlinks[v] # indices[v] => stack' = stack /\ sccs' = sccs
         /\ lowlinks[v] = indices[v] =>
              \E n \in 1 .. Len(stack) :
                /\ stack[n] = v /\ stack' \in Seq(Accounts) /\ Len(stack) \in Nat
                /\ DOMAIN stack' = 1 .. Len(stack) - n
                /\ \A i \in 1 .. Len(stack) - n : stack'[i] = stack[n + i]
                /\ \A x : OnStack(x)' <=> OnStack(x) /\ indices[x] < indices[v]
                /\ LET scc == SubSeq(stack, 1, n) IN
                   /\ scc \in Seq(Accounts) /\ Len(scc) = n /\ IsInjective(scc)
                   /\ ToSet(scc) = {x \in Accounts : OnStack(x) /\ indices[v] <= indices[x]}
                   /\ sccs' = IF n >= 2 THEN Append(sccs, scc) ELSE sccs
  <1>0. /\ Unseen \in Nat /\ \A x \in Accounts : indices[x] \in Nat
        /\ \A x : OnStack(x) => x \in Accounts
        /\ \A k \in DOMAIN frames : Node(k) \in Accounts /\ OnStack(Node(k))
        /\ DOMAIN frames = 1 .. Len(frames)
    BY CallsKnown
  <1>1. /\ stack \in Seq(Accounts) /\ Len(stack) \in Nat /\ DOMAIN stack = 1 .. Len(stack)
        /\ \A i \in 1 .. Len(stack) : stack[i] \in Accounts /\ OnStack(stack[i]) /\ indices[stack[i]] \in Nat
    BY <1>0 DEF SearchTyped, OnStack
  <1> DEFINE v == Node(1)
             n == CHOOSE i \in DOMAIN stack : stack[i] = v
  <1>2. 1 \in DOMAIN frames /\ Current.node = v
    BY <1>0, Leaving DEF Node, Current, Leave, SearchTyped
  <1>3. n \in 1 .. Len(stack) /\ stack[n] = v
    BY <1>0, <1>1, <1>2 DEF OnStack
  <1>4. IF lowlinks[v] = indices[v]
        THEN /\ stack' = SubSeq(stack, n + 1, Len(stack))
             /\ sccs' = IF n >= 2 THEN Append(sccs, SubSeq(stack, 1, n)) ELSE sccs
        ELSE stack' = stack /\ sccs' = sccs
    BY <1>2 DEF Leave
  <1> HIDE DEF n, v
  <1>5. \A i \in 1 .. Len(stack) : (i <= n <=> indices[v] <= indices[stack[i]])
    <2>1. \A i, j \in 1 .. Len(stack) : i < j => indices[stack[j]] < indices[stack[i]]
      BY <1>1 DEF Numbered
    <2> QED
      BY <1>1, <1>3, <2>1
  <1>6. ASSUME lowlinks[v] = indices[v]
        PROVE  /\ stack' \in Seq(Accounts) /\ DOMAIN stack' = 1 .. Len(stack) - n
               /\ \A i \in 1 .. Len(stack) - n : stack'[i] = stack[n + i]
    <2>1. stack' = SubSeq(stack, n + 1, Len(stack))
      BY <1>4, <1>6
    <2>2. /\ stack' \in Seq(Accounts) /\ Len(stack') = Len(stack) - n
          /\ \A i \in 1 .. Len(stack) - n : stack'[i] = stack[n + i]
      <3>1. stack \in Seq(Accounts) /\ n \in 1 .. Len(stack)
        BY <1>1, <1>3
      <3> QED
        BY <2>1, <3>1, Cut
    <2> QED
      BY <2>2
  <1>7. ASSUME lowlinks[v] = indices[v], NEW x
        PROVE  OnStack(x)' <=> OnStack(x) /\ indices[x] < indices[v]
    <2>1. ASSUME NEW i \in DOMAIN stack', stack'[i] = x
          PROVE  OnStack(x) /\ indices[x] < indices[v]
      <3>1. n + i \in 1 .. Len(stack) /\ ~(n + i <= n) /\ stack[n + i] = x
        BY <1>1, <1>3, <1>6, <1>7, <2>1
      <3>2. indices[v] \in Nat /\ indices[x] \in Nat
        BY <1>1, <1>3, <3>1
      <3> QED
        BY <1>1, <1>5, <3>1, <3>2
    <2>2. ASSUME NEW i \in DOMAIN stack, stack[i] = x, indices[x] < indices[v]
          PROVE  \E j \in DOMAIN stack' : stack'[j] = x
      <3>1. ~(indices[v] <= indices[stack[i]])
        BY <1>1, <1>3, <2>2
      <3>2. i - n \in 1 .. Len(stack) - n /\ n + (i - n) = i
        BY <1>1, <1>3, <1>5, <3>1
      <3>3. stack'[i - n] = x
        BY <1>6, <1>7, <2>2, <3>2
      <3> QED
        BY <1>6, <1>7, <3>2, <3>3
    <2> QED
      BY <2>1, <2>2 DEF OnStack
  <1> DEFINE scc == SubSeq(stack, 1, n)
  <1>8. scc \in Seq(Accounts) /\ Len(scc) = n /\ \A i \in 1 .. n : scc[i] = stack[i]
    BY <1>1, <1>3, Cut
  <1> HIDE DEF scc
  <1>9. DOMAIN scc = 1 .. n
    BY <1>8
  <1>10. IsInjective(scc)
    <2>1. \A i, j \in 1 .. Len(stack) : i < j => indices[stack[j]] < indices[stack[i]]
      BY <1>1 DEF Numbered
    <2>2. \A i, j \in 1 .. n : stack[i] = stack[j] => i = j
      BY <1>1, <1>3, <2>1
    <2> QED
      BY <1>3, <1>8, <1>9, <2>2 DEF IsInjective
  <1>11. ToSet(scc) = {x \in Accounts : OnStack(x) /\ indices[v] <= indices[x]}
    <2>1. ASSUME NEW i \in 1 .. n
          PROVE  scc[i] \in Accounts /\ OnStack(scc[i]) /\ indices[v] <= indices[scc[i]]
      <3>1. i \in 1 .. Len(stack) /\ i <= n
        BY <1>1, <1>3
      <3> QED
        BY <1>1, <1>5, <1>8, <3>1
    <2>2. ASSUME NEW x \in Accounts, OnStack(x), indices[v] <= indices[x]
          PROVE  \E i \in 1 .. n : scc[i] = x
      <3>1. PICK i \in 1 .. Len(stack) : stack[i] = x
        BY <1>1, <2>2 DEF OnStack
      <3>2. i \in 1 .. n
        BY <1>3, <1>5, <2>2, <3>1
      <3> QED
        BY <1>8, <3>1, <3>2
    <2> QED
      BY <1>9, <2>1, <2>2 DEF ToSet
  <1>12. ASSUME lowlinks[v] = indices[v]
         PROVE  sccs' = IF n >= 2 THEN Append(sccs, scc) ELSE sccs
    BY <1>4, <1>12 DEF scc
  <1>13. CASE lowlinks[v] # indices[v]
    BY <1>4, <1>13 DEF v
  <1>14. CASE lowlinks[v] = indices[v]
    BY <1>1, <1>3, <1>6, <1>7, <1>8, <1>10, <1>11, <1>12, <1>14 DEF v, scc
  <1> QED
    BY <1>13, <1>14

(* The components found, with the accounts a call takes off the stack.     *)
LEMMA ClaimedComponent ==
  ASSUME NetworkAssumption, TarjanInv, frames # <<>>, frames[1].left = {},
         lowlinks[Node(1)] = indices[Node(1)],
         NEW S, S = {x \in Accounts : OnStack(x) /\ indices[Node(1)] <= indices[x]}
  PROVE  S = Component(Node(1)) /\ Closed(S \cup Claimed) /\ S \cap Claimed = {} /\ Node(1) \in S
  <1> USE DEF TarjanInv
  <1> DEFINE v == Node(1)
  <1>0. /\ \A x \in Accounts : indices[x] \in Nat /\ lowlinks[x] \in Nat
        /\ DOMAIN frames = 1 .. Len(frames) /\ Len(frames) \in Nat /\ 1 \in DOMAIN frames
        /\ \A x : OnStack(x) => x \in Accounts /\ Seen(x)
        /\ \A k \in DOMAIN frames : /\ Node(k) \in Accounts /\ OnStack(Node(k)) /\ Seen(Node(k))
                                    /\ indices[Node(k)] <= indices[v]
        /\ \A k, l \in DOMAIN frames : k < l => indices[Node(l)] < indices[Node(k)]
    <2>1. 1 \in DOMAIN frames
      BY DEF SearchTyped
    <2> QED
      BY <2>1, CallsKnown
  <1> HIDE DEF v
  <1>1. v \in S /\ S \cap Claimed = {}
    BY <1>0 DEF Claimed, v
  <1>2. ASSUME NEW x \in S PROVE Reaches(x, v) /\ Reaches(v, x)
    <2>1. PICK k \in DOMAIN frames : indices[Node(k)] <= indices[x] /\ Reaches(x, Node(k))
      BY DEF OnePath
    <2>2. Reaches(Node(k), v)
      BY <1>0, <2>1 DEF OnePath, v
    <2>3. Reaches(v, x)
      BY <1>0 DEF OnePath, v
    <2> QED
      BY <1>0, <2>1, <2>2, <2>3, Reaching DEF v
  <1>3. ASSUME NEW y \in S, NEW z \in Accounts, <<y, z>> \in flows
        PROVE  z \in S \cup Claimed
    <2>1. ~ToLookAt(y, z)
      <3> SUFFICES ASSUME NEW k \in DOMAIN frames, Node(k) = y, z \in frames[k].left
                   PROVE  FALSE
        BY DEF ToLookAt
      <3>1. k # 1
        OBVIOUS
      <3>2. indices[Node(k)] < indices[v]
        BY <1>0, <3>1 DEF v
      <3> QED
        BY <1>0, <3>2 DEF v
    <2>2. Looked(y, z) /\ Seen(z)
      BY <1>0, <1>3, <2>1 DEF Looked, Explores
    <2>3. CASE OnStack(z)
      <3>1. PICK j \in 1 .. 1 : lowlinks[Node(j)] <= indices[z]
        BY <1>0, <2>2, <2>3 DEF LowEnough
      <3> QED
        BY <1>0, <2>3, <3>1
    <2>4. CASE ~OnStack(z)
      BY <2>2, <2>4 DEF Claimed
    <2> QED
      BY <2>3, <2>4
  <1>4. Closed(S \cup Claimed)
    <2> SUFFICES ASSUME NEW e \in flows, e[1] \in S \cup Claimed
                 PROVE  e[2] \in S \cup Claimed
      BY DEF Closed
    <2>1. e = <<e[1], e[2]>> /\ e[1] \in Accounts /\ e[2] \in Accounts
      BY DEF SearchTyped
    <2>2. CASE e[1] \in S
      BY <1>3, <2>1, <2>2
    <2>3. CASE e[1] \in Claimed
      BY <2>3 DEF Explores, Closed
    <2> QED
      BY <2>2, <2>3
  <1>5. Component(v) \subseteq S
    <2>1. S \cup Claimed \in SUBSET Accounts
      BY DEF Claimed
    <2>2. Component(v) \subseteq S \cup Claimed
      BY <1>1, <1>4, <2>1, ClosedKeeps
    <2>3. ASSUME NEW x \in Component(v), x \in Claimed PROVE FALSE
      <3>1. Reaches(x, v) /\ Claimed \in SUBSET Accounts /\ Closed(Claimed)
        BY DEF Component, Claimed, Explores
      <3>2. v \in Claimed
        BY <2>3, <3>1, Reaching
      <3> QED
        BY <1>1, <3>2
    <2> QED
      BY <2>2, <2>3
  <1>6. S \subseteq Component(v)
    BY <1>2 DEF Component
  <1> QED
    BY <1>1, <1>4, <1>5, <1>6 DEF v

(* Two of them and more.                                                   *)
LEMMA LargeEnough ==
  ASSUME NetworkAssumption, NEW v \in Accounts, NEW q \in Seq(Accounts),
         IsInjective(q), ToSet(q) = Component(v)
  PROVE  Len(q) \in Nat /\ Cardinality(Component(v)) = Len(q)
  <1>1. Len(q) \in Nat /\ DOMAIN q = 1 .. Len(q) /\ q \in [1 .. Len(q) -> Accounts]
    OBVIOUS
  <1>2. q \in Bijection(1 .. Len(q), ToSet(q))
    <2>1. q \in [1 .. Len(q) -> ToSet(q)]
      BY <1>1 DEF ToSet
    <2>2. \A a, b \in 1 .. Len(q) : q[a] = q[b] => a = b
      BY <1>1 DEF IsInjective
    <2>3. \A t \in ToSet(q) : \E a \in 1 .. Len(q) : q[a] = t
      BY <1>1 DEF ToSet
    <2> QED
      BY <2>1, <2>2, <2>3 DEF Bijection, Injection, Surjection, IsInjective
  <1>3. IsFiniteSet(1 .. Len(q)) /\ Cardinality(1 .. Len(q)) = Len(q)
    <2>1. \A n \in Nat : IsFiniteSet(1 .. n) /\ Cardinality(1 .. n) = n
      BY FS_Interval
    <2> QED
      BY Zenon, <1>1, <2>1
  <1>4. ExistsBijection(1 .. Len(q), ToSet(q))
    BY Zenon, <1>2 DEF ExistsBijection
  <1>5. Cardinality(ToSet(q)) = Cardinality(1 .. Len(q))
    BY Zenon, <1>3, <1>4, FS_Bijection
  <1> QED
    BY <1>1, <1>3, <1>5

(* And so does a return.  With the low link below the index there is a way *)
(* back to a call further down, which everything above the node can take;  *)
(* otherwise what is taken off the stack is a component.                   *)
LEMMA LeaveKeeps ==
  ASSUME NetworkAssumption, TarjanInv, Leave
  PROVE  TarjanInv'
  <1> USE DEF TarjanInv
  <1> DEFINE v == Node(1)
             S == {x \in Accounts : OnStack(x) /\ indices[v] <= indices[x]}
             popped == lowlinks[v] = indices[v]
  <1>0. /\ Unseen \in Nat /\ \A x \in Accounts : indices[x] \in Nat /\ lowlinks[x] \in Nat
        /\ \A x : OnStack(x) => x \in Accounts /\ Seen(x)
        /\ \A k \in DOMAIN frames : /\ Node(k) \in Accounts /\ OnStack(Node(k)) /\ Seen(Node(k))
                                    /\ frames[k].left \subseteq Targets(Node(k))
                                    /\ indices[Node(k)] <= indices[v]
                                    /\ lowlinks[Node(k)] <= indices[Node(k)]
        /\ \A k, l \in DOMAIN frames : k < l => indices[Node(l)] < indices[Node(k)]
    BY CallsKnown
  <1>1. /\ flows' = flows /\ indices' = indices
        /\ 1 \in DOMAIN frames /\ frames[1].left = {}
        /\ Len(frames) \in Nat /\ DOMAIN frames = 1 .. Len(frames)
        /\ DOMAIN frames' = 1 .. Len(frames) - 1
        /\ \A k \in 2 .. Len(frames) : Node(k - 1)' = Node(k)
        /\ 2 \in DOMAIN frames => frames'[1].left = frames[2].left \ {v}
        /\ \A k \in 3 .. Len(frames) : frames'[k - 1] = frames[k]
    BY Leaving
  <1>2. /\ \A k \in DOMAIN frames : k >= 3 => lowlinks'[Node(k)] = lowlinks[Node(k)]
        /\ 2 \in DOMAIN frames =>
              /\ lowlinks'[Node(2)] <= lowlinks[Node(2)] /\ lowlinks'[Node(2)] <= lowlinks[v]
              /\ lowlinks'[Node(2)] \in {lowlinks[Node(2)], lowlinks[v]}
        /\ lowlinks' \in [Accounts -> 0 .. Unseen]
        /\ frames' \in Seq([node : Accounts, left : SUBSET Accounts])
    BY Leaving
  <1>3. /\ ~popped => stack' = stack /\ sccs' = sccs
        /\ popped =>
              \E n \in 1 .. Len(stack) :
                /\ stack[n] = v /\ stack' \in Seq(Accounts) /\ Len(stack) \in Nat
                /\ DOMAIN stack' = 1 .. Len(stack) - n
                /\ \A i \in 1 .. Len(stack) - n : stack'[i] = stack[n + i]
                /\ \A x : OnStack(x)' <=> OnStack(x) /\ indices[x] < indices[v]
                /\ LET scc == SubSeq(stack, 1, n) IN
                   /\ scc \in Seq(Accounts) /\ Len(scc) = n /\ IsInjective(scc) /\ ToSet(scc) = S
                   /\ sccs' = IF n >= 2 THEN Append(sccs, scc) ELSE sccs
    BY Popping
  <1> HIDE DEF v, S, popped
  <1>4. /\ \A x, y : Reaches(x, y)' <=> Reaches(x, y)
        /\ \A x : Component(x)' = Component(x)
        /\ \A T : Closed(T)' <=> Closed(T)
    BY <1>1, SamePaths
  <1>5. /\ \A x : Seen(x)' <=> Seen(x)
        /\ Visited' = Visited
        /\ \A x : Targets(x)' = Targets(x)
    BY <1>1 DEF Seen, Visited, Targets
  <1>6. /\ \A x : OnStack(x)' => OnStack(x)
        /\ \A x \in Accounts : OnStack(x) /\ indices[x] < indices[v] => OnStack(x)'
        /\ popped => \A x : OnStack(x)' => indices[x] < indices[v]
        /\ ~popped => \A x : OnStack(x)' <=> OnStack(x)
        /\ stack' \in Seq(Accounts)
        /\ \A i, j \in DOMAIN stack' : i < j => indices[stack'[j]] < indices[stack'[i]]
    <2>1. /\ stack \in Seq(Accounts)
          /\ \A i, j \in DOMAIN stack : i < j => indices[stack[j]] < indices[stack[i]]
      BY DEF SearchTyped, Numbered
    <2>2. CASE ~popped
      BY <1>3, <2>1, <2>2 DEF OnStack
    <2>3. CASE popped
      <3>1. PICK n \in 1 .. Len(stack) :
                /\ stack' \in Seq(Accounts) /\ Len(stack) \in Nat
                /\ DOMAIN stack' = 1 .. Len(stack) - n
                /\ \A i \in 1 .. Len(stack) - n : stack'[i] = stack[n + i]
                /\ \A x : OnStack(x)' <=> OnStack(x) /\ indices[x] < indices[v]
        BY <1>3, <2>3
      <3>2. \A i \in DOMAIN stack' : n + i \in DOMAIN stack /\ stack'[i] = stack[n + i]
        BY <2>1, <3>1
      <3>3. \A i, j \in DOMAIN stack' : i < j => n + i < n + j
        BY <3>1
      <3>4. \A i, j \in DOMAIN stack' : i < j => indices[stack'[j]] < indices[stack'[i]]
        BY <2>1, <3>2, <3>3
      <3> QED
        BY <2>3, <3>1, <3>4
    <2> QED
      BY <2>2, <2>3
  <1>7. \A k \in 2 .. Len(frames) :
          /\ k \in DOMAIN frames /\ k - 1 \in DOMAIN frames' /\ Node(k - 1)' = Node(k)
          /\ Node(k) \in Accounts /\ indices[Node(k)] < indices[v]
          /\ lowlinks'[Node(k)] \in Nat /\ lowlinks'[Node(k)] <= lowlinks[Node(k)]
          /\ \E i \in DOMAIN stack' : stack'[i] = Node(k)
    <2> SUFFICES ASSUME NEW k \in 2 .. Len(frames)
                 PROVE  /\ k \in DOMAIN frames /\ k - 1 \in DOMAIN frames' /\ Node(k - 1)' = Node(k)
                        /\ Node(k) \in Accounts /\ indices[Node(k)] < indices[v]
                        /\ lowlinks'[Node(k)] \in Nat /\ lowlinks'[Node(k)] <= lowlinks[Node(k)]
                        /\ \E i \in DOMAIN stack' : stack'[i] = Node(k)
      OBVIOUS
    <2>1. k \in DOMAIN frames /\ k - 1 \in DOMAIN frames' /\ Node(k - 1)' = Node(k) /\ 1 < k
      BY <1>1
    <2>2. PICK x \in Accounts : x = Node(k) /\ OnStack(x) /\ indices[x] < indices[v]
      BY <1>0, <1>1, <2>1 DEF v
    <2>3. \E i \in DOMAIN stack' : stack'[i] = x
      BY <1>6, <2>2 DEF OnStack
    <2>6. lowlinks'[Node(k)] \in Nat /\ lowlinks'[Node(k)] <= lowlinks[Node(k)]
      <3>1. lowlinks[Node(k)] \in Nat /\ lowlinks'[Node(k)] \in Nat
        BY <1>0, <1>2, <2>2
      <3>2. k = 2 \/ k >= 3
        BY <1>1
      <3>3. lowlinks'[Node(k)] <= lowlinks[Node(k)]
        BY <1>2, <2>1, <3>1, <3>2
      <3> QED
        BY <3>1, <3>3
    <2> QED
      BY <2>1, <2>2, <2>3, <2>6
  <1>8. \A k \in DOMAIN frames' : k + 1 \in 2 .. Len(frames) /\ Node(k)' = Node(k + 1)
    <2> SUFFICES ASSUME NEW k \in DOMAIN frames'
                 PROVE  k + 1 \in 2 .. Len(frames) /\ Node(k)' = Node(k + 1)
      OBVIOUS
    <2>1. k + 1 \in 2 .. Len(frames) /\ (k + 1) - 1 = k
      BY <1>1
    <2>2. Node((k + 1) - 1)' = Node(k + 1)
      BY <1>1, <2>1
    <2> QED
      BY <2>1, <2>2
  <1>9. \A y, z \in Accounts : Looked(y, z)' => Looked(y, z) \/ (y = Node(2) /\ z = v /\ 2 \in DOMAIN frames)
    <2> SUFFICES ASSUME NEW y \in Accounts, NEW z \in Accounts, Looked(y, z)',
                        ~(y = Node(2) /\ z = v /\ 2 \in DOMAIN frames), ToLookAt(y, z)
                 PROVE  FALSE
      BY <1>1, <1>5 DEF Looked
    <2>1. PICK k \in DOMAIN frames : Node(k) = y /\ z \in frames[k].left
      BY DEF ToLookAt
    <2>2. k \in 2 .. Len(frames)
      BY <1>1, <2>1
    <2>3. k - 1 \in DOMAIN frames' /\ Node(k - 1)' = y
      BY <1>7, <2>1, <2>2
    <2>4. z \in frames'[k - 1].left
      <3>1. CASE k = 2
        BY <1>1, <2>1, <3>1
      <3>2. CASE k # 2
        BY <1>1, <2>1, <2>2, <3>2
      <3> QED
        BY <3>1, <3>2
    <2>5. ToLookAt(y, z)'
      BY <2>3, <2>4 DEF ToLookAt
    <2> QED
      BY <2>5 DEF Looked
  <1>10. Numbered'
    <2>1. \A i \in DOMAIN stack' : indices[stack'[i]] # Unseen
      <3>1. \A x : OnStack(x)' => indices[x] # Unseen
        BY <1>0, <1>6 DEF Seen
      <3> QED
        BY <3>1 DEF OnStack
    <2>2. /\ \A x \in Accounts : indices[x] # Unseen => indices[x] < Visited
          /\ \A x, y \in Accounts : indices[x] # Unseen /\ indices[x] = indices[y] => x = y
      BY DEF Numbered, Seen
    <2> QED
      BY <1>1, <1>5, <1>6, <2>1, <2>2 DEF Numbered, Seen, Unseen
  <1>11. Nested'
    <2>1. ASSUME NEW k \in DOMAIN frames'
          PROVE  /\ \E i \in DOMAIN stack' : stack'[i] = Node(k)'
                 /\ frames'[k].left \subseteq {w \in Accounts : <<Node(k)', w>> \in flows'}
                 /\ lowlinks'[Node(k)'] <= indices'[Node(k)']
      <3>1. k + 1 \in 2 .. Len(frames) /\ Node(k)' = Node(k + 1) /\ k + 1 \in DOMAIN frames
        BY <1>7, <1>8
      <3>2. frames'[k].left \subseteq frames[k + 1].left
        <4>1. CASE k = 1
          BY <1>1, <3>1, <4>1
        <4>2. CASE k # 1
          <5>1. k + 1 \in 3 .. Len(frames) /\ (k + 1) - 1 = k
            BY <1>1, <3>1, <4>2
          <5>2. frames'[(k + 1) - 1] = frames[k + 1]
            BY <1>1, <5>1
          <5> QED
            BY <5>1, <5>2
        <4> QED
          BY <4>1, <4>2
      <3>3. frames[k + 1].left \subseteq {w \in Accounts : <<Node(k + 1), w>> \in flows}
        BY <1>0, <3>1 DEF Targets
      <3>4. lowlinks'[Node(k + 1)] <= indices[Node(k + 1)]
        <4>1. Node(k + 1) \in Accounts /\ lowlinks[Node(k + 1)] <= indices[Node(k + 1)]
          BY <1>0, <3>1
        <4>2. /\ lowlinks'[Node(k + 1)] \in Nat
              /\ lowlinks'[Node(k + 1)] <= lowlinks[Node(k + 1)]
          BY <1>7, <3>1
        <4>3. lowlinks[Node(k + 1)] \in Nat /\ indices[Node(k + 1)] \in Nat
          BY <1>0, <4>1
        <4> QED
          BY <4>1, <4>2, <4>3
      <3>5. \E i \in DOMAIN stack' : stack'[i] = Node(k + 1)
        BY <1>7, <3>1
      <3> QED
        BY <1>1, <3>1, <3>2, <3>3, <3>4, <3>5
    <2>2. ASSUME NEW k \in DOMAIN frames', NEW l \in DOMAIN frames', k < l
          PROVE  indices'[Node(l)'] < indices'[Node(k)']
      <3>1. /\ k + 1 \in DOMAIN frames /\ l + 1 \in DOMAIN frames /\ k + 1 < l + 1
            /\ Node(k)' = Node(k + 1) /\ Node(l)' = Node(l + 1)
        BY <1>1, <1>7, <1>8, <2>2
      <3> QED
        BY <1>0, <1>1, <3>1
    <2>3. ASSUME NEW k \in DOMAIN frames', k + 1 \in DOMAIN frames'
          PROVE  Node(k)' \in frames'[k + 1].left
      <3>1. /\ k + 1 \in DOMAIN frames /\ (k + 1) + 1 \in DOMAIN frames
            /\ (k + 1) + 1 \in 3 .. Len(frames) /\ ((k + 1) + 1) - 1 = k + 1
            /\ Node(k)' = Node(k + 1)
        BY <1>1, <1>7, <1>8, <2>3
      <3>2. frames'[((k + 1) + 1) - 1] = frames[(k + 1) + 1]
        BY <1>1, <3>1
      <3>3. Node(k + 1) \in frames[(k + 1) + 1].left
        BY <3>1 DEF Nested
      <3> QED
        BY <3>1, <3>2, <3>3
    <2> QED
      BY <2>1, <2>2, <2>3 DEF Nested, OnStack, Targets
  <1>12. \A x \in Accounts : indices[v] \in Nat /\ indices[x] \in Nat /\ lowlinks[x] \in Nat /\ v \in Accounts
    BY <1>0, <1>1 DEF v
  <1>13. ASSUME NEW y \in Accounts, OnStack(y)'
         PROVE  \E k \in 2 .. Len(frames) : indices[Node(k)] <= indices[y] /\ Reaches(y, Node(k))
    <2>1. OnStack(y)
      BY <1>6, <1>13
    <2>2. PICK k \in DOMAIN frames : indices[Node(k)] <= indices[y] /\ Reaches(y, Node(k))
      BY <2>1 DEF OnePath
    <2>3. CASE k # 1
      BY <1>1, <2>2, <2>3
    <2>4. CASE k = 1
      <3>1. ~popped
        BY <1>6, <1>12, <1>13, <2>2, <2>4 DEF v
      <3>2. lowlinks[v] < indices[v]
        BY <1>0, <1>1, <1>12, <3>1 DEF v, popped
      <3>3. PICK z \in Accounts : OnStack(z) /\ lowlinks[v] = indices[z] /\ Reaches(v, z)
        BY <1>1 DEF LowFounded, v
      <3>4. PICK l \in DOMAIN frames : indices[Node(l)] <= indices[z] /\ Reaches(z, Node(l))
        BY <3>3 DEF OnePath
      <3>5. l \in 2 .. Len(frames) /\ Node(l) \in Accounts /\ indices[Node(l)] < indices[v]
        BY <1>0, <1>1, <1>12, <3>2, <3>3, <3>4 DEF v
      <3>6. indices[Node(l)] <= indices[y]
        BY <1>12, <2>2, <2>4, <3>5 DEF v
      <3>7. Reaches(y, Node(l))
        BY <1>12, <2>2, <2>4, <3>3, <3>4, <3>5, Reaching DEF v
      <3> QED
        BY <3>5, <3>6, <3>7
    <2> QED
      BY <2>3, <2>4
  <1>14. OnePath'
    <2>1. \A x, y \in Accounts : OnStack(x)' /\ OnStack(y)' /\ indices'[x] <= indices'[y] => Reaches(x, y)'
      BY <1>1, <1>4, <1>6 DEF OnePath
    <2>2. ASSUME NEW y \in Accounts, OnStack(y)'
          PROVE  \E k \in DOMAIN frames' : indices'[Node(k)'] <= indices'[y] /\ Reaches(y, Node(k)')
      <3>1. PICK k \in 2 .. Len(frames) : indices[Node(k)] <= indices[y] /\ Reaches(y, Node(k))
        BY <1>13, <2>2
      <3>2. k - 1 \in DOMAIN frames' /\ Node(k - 1)' = Node(k)
        BY <1>7, <3>1
      <3> QED
        BY <1>1, <3>1, <3>2
    <2> QED
      BY <1>4, <2>1, <2>2 DEF OnePath
  <1>15. LowFounded'
    <2>1. ASSUME NEW k \in 2 .. Len(frames)
          PROVE  \E z \in Accounts : /\ OnStack(z) /\ indices[z] < indices[v]
                                     /\ lowlinks'[Node(k)] = indices[z] /\ Reaches(Node(k), z)
      <3>0. k \in DOMAIN frames /\ 1 \in DOMAIN frames /\ Node(k) \in Accounts /\ indices[Node(k)] < indices[v]
        BY <1>1, <1>7
      <3>1. CASE lowlinks'[Node(k)] = lowlinks[Node(k)]
        <4>1. PICK z \in Accounts : OnStack(z) /\ lowlinks[Node(k)] = indices[z] /\ Reaches(Node(k), z)
          BY <3>0 DEF LowFounded
        <4>2. indices[z] < indices[v]
          BY <1>0, <1>12, <3>0, <4>1
        <4> QED
          BY <3>1, <4>1, <4>2
      <3>2. CASE lowlinks'[Node(k)] # lowlinks[Node(k)]
        <4>1. k = 2 /\ lowlinks'[Node(2)] = lowlinks[v] /\ lowlinks[v] <= lowlinks[Node(2)]
          <5>0. k = 2 \/ k >= 3
            BY <1>1
          <5>1. k = 2
            BY <1>2, <3>0, <3>2, <5>0
          <5>2. /\ lowlinks'[Node(2)] <= lowlinks[Node(2)]
                /\ lowlinks'[Node(2)] \in {lowlinks[Node(2)], lowlinks[v]}
            BY <1>2, <3>0, <5>1
          <5> QED
            BY <3>2, <5>1, <5>2
        <4>2. PICK z \in Accounts : OnStack(z) /\ lowlinks[v] = indices[z] /\ Reaches(v, z)
          BY <1>1 DEF LowFounded, v
        <4>3. indices[z] < indices[v]
          <5>1. lowlinks[Node(2)] <= indices[Node(2)] /\ indices[Node(2)] < indices[v] /\ Node(2) \in Accounts
            BY <1>0, <3>0, <4>1
          <5> QED
            BY <1>12, <4>1, <4>2, <5>1
        <4>4. Reaches(Node(2), v)
          <5>1. v \in frames[2].left
            BY <1>1, <3>0, <4>1 DEF Nested, v
          <5>2. <<Node(2), v>> \in flows
            BY <1>0, <3>0, <4>1, <5>1 DEF Targets
          <5> QED
            BY <5>2, Reaching
        <4>5. Reaches(Node(2), z)
          BY <1>12, <3>0, <4>1, <4>2, <4>4, Reaching
        <4> QED
          BY <4>1, <4>2, <4>3, <4>5
      <3> QED
        BY <3>1, <3>2
    <2>2. ASSUME NEW k \in DOMAIN frames'
          PROVE  \E z \in Accounts : OnStack(z)' /\ lowlinks'[Node(k)'] = indices'[z]
                                     /\ Reaches(Node(k)', z)
      <3>1. k + 1 \in 2 .. Len(frames) /\ Node(k)' = Node(k + 1)
        BY <1>8
      <3>2. PICK z \in Accounts : /\ OnStack(z) /\ indices[z] < indices[v]
                                  /\ lowlinks'[Node(k + 1)] = indices[z] /\ Reaches(Node(k + 1), z)
        BY <2>1, <3>1
      <3>3. OnStack(z)'
        BY <1>6, <3>2
      <3> QED
        BY <1>1, <3>1, <3>2, <3>3
    <2> QED
      BY <1>4, <2>2 DEF LowFounded
  <1>16. LowEnough'
    <2>1. ASSUME NEW k \in DOMAIN frames', NEW y \in Accounts, NEW z \in Accounts,
                 OnStack(y)', OnStack(z)', Looked(y, z)', indices'[Node(k)'] <= indices'[y]
          PROVE  \E j \in 1 .. k : lowlinks'[Node(j)'] <= indices'[z]
      <3>1. /\ k \in Nat /\ k + 1 \in 2 .. Len(frames) /\ Node(k)' = Node(k + 1)
            /\ k + 1 \in DOMAIN frames /\ 2 \in DOMAIN frames /\ 1 \in 1 .. k
        BY <1>1, <1>8
      <3>2. OnStack(y) /\ OnStack(z) /\ indices[Node(k + 1)] <= indices[y]
        BY <1>1, <1>6, <2>1, <3>1
      <3>3. 1 \in DOMAIN frames' /\ Node(1)' = Node(2) /\ Node(2) \in Accounts
        <4>1. 2 \in 2 .. Len(frames) /\ 2 - 1 = 1
          BY <1>1, <3>1
        <4> QED
          BY <1>1, <1>7, <1>8, <4>1
      <3>4. lowlinks'[Node(2)] \in Nat /\ lowlinks'[Node(2)] <= lowlinks[v]
        BY <1>1, <1>2, <1>7, <3>1
      <3>5. CASE Looked(y, z)
        <4>1. PICK j \in 1 .. k + 1 : lowlinks[Node(j)] <= indices[z]
          BY <3>1, <3>2, <3>5 DEF LowEnough
        <4>2. CASE j = 1
          <5>1. lowlinks'[Node(2)] <= indices[z]
            BY <1>12, <3>4, <4>1, <4>2 DEF v
          <5> QED
            BY <1>1, <3>1, <3>3, <5>1
        <4>3. CASE j # 1
          <5>1. j \in 2 .. Len(frames) /\ j - 1 \in 1 .. k
            BY <1>1, <3>1, <4>3
          <5>2. Node(j - 1)' = Node(j) /\ Node(j) \in Accounts /\ lowlinks'[Node(j)] \in Nat
                /\ lowlinks'[Node(j)] <= lowlinks[Node(j)]
            BY <1>7, <5>1
          <5>3. lowlinks'[Node(j - 1)'] <= indices'[z]
            BY <1>1, <1>12, <4>1, <5>2
          <5> QED
            BY <5>1, <5>3
        <4> QED
          BY <4>2, <4>3
      <3>6. CASE y = Node(2) /\ z = v
        <4>1. lowlinks[v] <= indices[v]
          BY <1>0, <1>1 DEF v
        <4>2. lowlinks'[Node(2)] <= indices'[z]
          BY <1>1, <1>12, <3>4, <3>6, <4>1
        <4> QED
          BY <3>1, <3>3, <4>2
      <3> QED
        BY <1>9, <2>1, <3>5, <3>6
    <2> QED
      BY <2>1 DEF LowEnough
  <1>17. CASE ~popped
    <2>1. Claimed' = Claimed
      BY <1>5, <1>6, <1>17 DEF Claimed
    <2>2. Explores'
      <3>1. \A y, z \in Accounts : Looked(y, z)' => Seen(z)'
        BY <1>0, <1>1, <1>5, <1>9 DEF Explores, v
      <3> QED
        BY <1>4, <2>1, <3>1 DEF Explores
    <2>3. Components'
      <3>1. \A x : Large(x)' <=> Large(x)
        BY <1>4 DEF Large
      <3> QED
        BY <1>3, <1>4, <1>17, <2>1, <3>1 DEF Components
    <2>4. SearchTyped'
      BY <1>1, <1>2, <1>3, <1>17 DEF SearchTyped, Unseen
    <2> QED
      BY <1>10, <1>11, <1>14, <1>15, <1>16, <2>2, <2>3, <2>4
  <1>18. CASE popped
    <2>0. S = Component(v) /\ Closed(S \cup Claimed) /\ S \cap Claimed = {} /\ v \in S
      <3>1. frames # <<>> /\ frames[1].left = {} /\ lowlinks[Node(1)] = indices[Node(1)]
        BY <1>1, <1>18 DEF popped, v
      <3>2. S = {x \in Accounts : OnStack(x) /\ indices[Node(1)] <= indices[x]}
        BY DEF S, v
      <3> QED
        BY <3>1, <3>2, ClaimedComponent DEF v
    <2>1. Claimed' = S \cup Claimed
      <3>1. ASSUME NEW x \in Accounts
            PROVE  Seen(x)' /\ ~OnStack(x)' <=> x \in S \/ (Seen(x) /\ ~OnStack(x))
        <4>1. OnStack(x)' <=> OnStack(x) /\ indices[x] < indices[v]
          BY <1>3, <1>18
        <4>2. ~(indices[x] < indices[v]) <=> indices[v] <= indices[x]
          BY <1>12
        <4>3. OnStack(x) => Seen(x)
          BY <1>0
        <4> QED
          BY <1>5, <4>1, <4>2, <4>3 DEF S
      <3>2. \A x \in S : x \in Accounts
        BY DEF S
      <3> QED
        BY <3>1, <3>2 DEF Claimed
    <2>2. Explores'
      <3>1. \A y, z \in Accounts : Looked(y, z)' => Seen(z)'
        BY <1>0, <1>1, <1>5, <1>9 DEF Explores, v
      <3>2. Closed(Claimed)'
        BY <1>1, <2>0, <2>1 DEF Closed
      <3> QED
        BY <3>1, <3>2 DEF Explores
    <2>3. PICK n \in 1 .. Len(stack), scc \in Seq(Accounts) :
             /\ Len(stack) \in Nat /\ Len(scc) = n /\ IsInjective(scc) /\ ToSet(scc) = S
             /\ sccs' = IF n >= 2 THEN Append(sccs, scc) ELSE sccs
      BY <1>3, <1>18
    <2>4. n \in Nat /\ Cardinality(Component(v)) = n
      BY <1>12, <2>0, <2>3, LargeEnough
    <2>5. SearchTyped'
      <3>1. sccs' \in Seq(Seq(Accounts))
        <4>1. sccs \in Seq(Seq(Accounts)) /\ scc \in Seq(Accounts)
          BY DEF SearchTyped
        <4>2. Append(sccs, scc) \in Seq(Seq(Accounts))
          BY <4>1, AppendProperties
        <4> QED
          BY <2>3, <4>1, <4>2
      <3> QED
        BY <1>1, <1>2, <1>6, <3>1 DEF SearchTyped, Unseen
    <2>6. Components'
      <3>0. \A x : Large(x)' <=> Large(x)
        BY <1>4 DEF Large
      <3>1. Large(v) <=> n >= 2
        BY <2>4 DEF Large
      <3>2. \A x \in S : Component(x) = S /\ (Large(x) <=> Large(v))
        <4>1. \A x \in Component(v) : Component(x) = Component(v)
          <5>1. v \in Accounts
            BY <1>0, <1>1 DEF v
          <5> QED
            BY <5>1, Classes
        <4> QED
          BY <2>0, <4>1 DEF Large
      <3>3. sccs \in Seq(Seq(Accounts)) /\ Len(sccs) \in Nat /\ DOMAIN sccs = 1 .. Len(sccs)
        BY DEF SearchTyped
      <3>4. CASE n < 2
        <4>1. sccs' = sccs /\ \A x \in S : ~Large(x)
          BY <2>3, <2>4, <3>1, <3>2, <3>4
        <4> QED
          BY <1>4, <2>1, <3>0, <4>1 DEF Components
      <3>5. CASE n >= 2
        <4>1. /\ DOMAIN sccs' = 1 .. Len(sccs) + 1
              /\ \A i \in 1 .. Len(sccs) : sccs'[i] = sccs[i]
              /\ sccs'[Len(sccs) + 1] = scc
          <5>1. sccs' = Append(sccs, scc)
            BY <2>3, <3>5
          <5> QED
            BY <3>3, <5>1, AppendProperties
        <4>2. \A i \in DOMAIN sccs' : i \in DOMAIN sccs \/ i = Len(sccs) + 1
          BY Zenon, <3>3, <4>1, OneMore
        <4>3. \A i \in DOMAIN sccs : i \in DOMAIN sccs' /\ sccs'[i] = sccs[i]
          BY <3>3, <4>1
        <4>4. Len(sccs) + 1 \in DOMAIN sccs'
          BY <3>3, <4>1
        <4>5. \A i \in DOMAIN sccs : ToSet(sccs[i]) # S
          <5> SUFFICES ASSUME NEW i \in DOMAIN sccs, ToSet(sccs[i]) = S
                       PROVE  FALSE
            OBVIOUS
          <5>1. PICK x \in Claimed : ToSet(sccs[i]) = Component(x)
            BY DEF Components
          <5>2. x \in S
            BY <5>1, Classes DEF Claimed
          <5> QED
            BY <2>0, <5>2
        <4>6. \A i \in DOMAIN sccs' :
                 /\ IsInjective(sccs'[i])
                 /\ \E x \in Claimed' : ToSet(sccs'[i]) = Component(x) /\ Large(x)
          <5> SUFFICES ASSUME NEW i \in DOMAIN sccs'
                       PROVE  /\ IsInjective(sccs'[i])
                              /\ \E x \in Claimed' : ToSet(sccs'[i]) = Component(x) /\ Large(x)
            OBVIOUS
          <5>1. CASE i \in DOMAIN sccs
            BY <2>1, <4>3, <5>1 DEF Components
          <5>2. CASE i = Len(sccs) + 1
            BY <2>0, <2>1, <2>3, <3>1, <3>5, <4>1, <5>2
          <5> QED
            BY <4>2, <5>1, <5>2
        <4>7. \A x \in Claimed' : Large(x) => \E i \in DOMAIN sccs' : ToSet(sccs'[i]) = Component(x)
          <5> SUFFICES ASSUME NEW x \in Claimed', Large(x)
                       PROVE  \E i \in DOMAIN sccs' : ToSet(sccs'[i]) = Component(x)
            OBVIOUS
          <5>1. CASE x \in S
            BY <2>3, <3>2, <4>1, <4>4, <5>1
          <5>2. CASE x \in Claimed
            <6>1. PICK i \in DOMAIN sccs : ToSet(sccs[i]) = Component(x)
              BY <5>2 DEF Components
            <6> QED
              BY <4>3, <6>1
          <5> QED
            BY <2>1, <5>1, <5>2
        <4>8. \A i, j \in DOMAIN sccs' : ToSet(sccs'[i]) = ToSet(sccs'[j]) => i = j
          <5> SUFFICES ASSUME NEW i \in DOMAIN sccs', NEW j \in DOMAIN sccs',
                              ToSet(sccs'[i]) = ToSet(sccs'[j])
                       PROVE  i = j
            OBVIOUS
          <5>1. CASE i \in DOMAIN sccs /\ j \in DOMAIN sccs
            <6>1. ToSet(sccs[i]) = ToSet(sccs[j])
              BY <4>3, <5>1
            <6> QED
              BY <5>1, <6>1 DEF Components
          <5>2. CASE i = Len(sccs) + 1 /\ j = Len(sccs) + 1
            BY <5>2
          <5>3. CASE i \in DOMAIN sccs /\ j = Len(sccs) + 1
            BY <2>3, <4>1, <4>3, <4>5, <5>3
          <5>4. CASE i = Len(sccs) + 1 /\ j \in DOMAIN sccs
            BY <2>3, <4>1, <4>3, <4>5, <5>4
          <5> QED
            BY <4>2, <5>1, <5>2, <5>3, <5>4
        <4> QED
          BY <1>4, <3>0, <4>6, <4>7, <4>8 DEF Components
      <3> QED
        BY <2>4, <3>4, <3>5
    <2> QED
      BY <1>10, <1>11, <1>14, <1>15, <1>16, <2>2, <2>5, <2>6
  <1> QED
    BY <1>17, <1>18

(* Before the search nothing is numbered, stacked or found.                *)
LEMMA NetworkInitKeeps ==
  ASSUME NetworkAssumption, NetworkInit
  PROVE  TarjanInv
  <1>0. Unseen \in Nat
    BY FS_CardinalityType DEF NetworkAssumption, Unseen
  <1>1. flows \subseteq Accounts \X Accounts
    BY DEF NetworkInit, Fetched, kSubset
  <1>2. /\ indices = [v \in Accounts |-> Unseen] /\ lowlinks = indices
        /\ stack = <<>> /\ frames = <<>> /\ sccs = <<>>
    BY DEF NetworkInit
  <1>3. SearchTyped
    BY <1>0, <1>1, <1>2 DEF SearchTyped
  <1>4. \A x \in Accounts : ~Seen(x)
    BY <1>2 DEF Seen
  <1>5. DOMAIN stack = {} /\ DOMAIN frames = {} /\ DOMAIN sccs = {} /\ \A x : ~OnStack(x)
    BY <1>2 DEF OnStack
  <1>6. Claimed = {}
    BY <1>4 DEF Claimed
  <1> QED
    BY <1>3, <1>4, <1>5, <1>6
    DEF TarjanInv, Numbered, Nested, OnePath, LowFounded, LowEnough, Explores, Components,
        Looked, Closed

(* Senders and receivers are accounts.                                     *)
LEMMA NodesTyped ==
  ASSUME SearchTyped
  PROVE  Nodes \in SUBSET Accounts
  BY DEF SearchTyped, Nodes

(* Every step of the search keeps the invariant.                           *)
LEMMA NetworkNextKeeps ==
  ASSUME NetworkAssumption, TarjanInv, [NetworkNext]_networkVars
  PROVE  TarjanInv'
  <1>1. CASE Root
    <2> DEFINE unseen == {v \in Nodes : indices[v] = Unseen}
    <2>1. frames = <<>> /\ unseen # {} /\ Enter(Least(unseen))
      BY <1>1 DEF Root
    <2>2. unseen \in SUBSET Accounts
      BY NodesTyped DEF TarjanInv
    <2>3. Least(unseen) \in unseen
      BY <2>1, <2>2, LeastIn
    <2>4. PICK w \in Accounts : w \in unseen /\ Enter(w)
      <3> HIDE DEF unseen
      <3> QED
        BY <2>1, <2>2, <2>3
    <2>5. ~Seen(w)
      BY <2>4 DEF Seen
    <2> QED
      BY <2>1, <2>4, <2>5, EnterKeeps
  <1>2. CASE Descend
    <2>1. PICK w \in Accounts : frames # <<>> /\ Neighbour(w) /\ indices[w] = Unseen /\ Enter(w)
      BY <1>2 DEF Descend
    <2>2. Current = frames[1] /\ frames[1].left \in SUBSET Accounts
      <3>1. frames \in Seq([node : Accounts, left : SUBSET Accounts]) /\ frames # <<>>
        BY <2>1 DEF TarjanInv, SearchTyped
      <3>2. Head(frames) = frames[1] /\ frames[1] \in [node : Accounts, left : SUBSET Accounts]
        BY <3>1, Behind
      <3> QED
        BY <3>2 DEF Current
    <2>3. w \in frames[1].left
      BY <2>1, <2>2, LeastIn DEF Neighbour
    <2>4. ~Seen(w)
      BY <2>1 DEF Seen
    <2> QED
      BY <2>1, <2>3, <2>4, EnterKeeps
  <1>3. CASE Look
    BY <1>3, LookKeeps
  <1>4. CASE Leave
    BY <1>4, LeaveKeeps
  <1>5. CASE UNCHANGED networkVars
    <2>1. /\ flows' = flows /\ indices' = indices /\ lowlinks' = lowlinks
          /\ stack' = stack /\ frames' = frames /\ sccs' = sccs
      BY <1>5 DEF networkVars
    <2>2. /\ \A x, y : Reaches(x, y)' <=> Reaches(x, y)
          /\ \A x : Component(x)' = Component(x)
          /\ \A S : Closed(S)' <=> Closed(S)
      BY <2>1, SamePaths
    <2>3. /\ \A k : Node(k)' = Node(k)
          /\ \A x : OnStack(x)' <=> OnStack(x)
          /\ \A x : Seen(x)' <=> Seen(x)
          /\ \A x : Targets(x)' = Targets(x)
          /\ Visited' = Visited /\ Unseen' = Unseen
      BY <2>1 DEF Node, OnStack, Seen, Targets, Visited, Unseen
    <2>4. /\ \A y, z : Looked(y, z)' <=> Looked(y, z)
          /\ Claimed' = Claimed /\ \A x : Large(x)' <=> Large(x)
      BY <2>1, <2>2, <2>3 DEF Looked, ToLookAt, Claimed, Large
    <2>5. SearchTyped' /\ Numbered'
      BY <2>1, <2>3 DEF TarjanInv, SearchTyped, Numbered, Seen
    <2>6. Nested'
      BY <2>1 DEF TarjanInv, Nested, OnStack, Targets, Node
    <2>7. OnePath'
      BY <2>1, <2>2, <2>3 DEF TarjanInv, OnePath
    <2>8. LowFounded'
      BY <2>1, <2>2, <2>3 DEF TarjanInv, LowFounded
    <2>9. LowEnough'
      BY <2>1, <2>3, <2>4 DEF TarjanInv, LowEnough
    <2>10. Explores'
      BY <2>2, <2>3, <2>4 DEF TarjanInv, Explores
    <2>11. Components'
      BY <2>1, <2>2, <2>4 DEF TarjanInv, Components
    <2> QED
      BY <2>5, <2>6, <2>7, <2>8, <2>9, <2>10, <2>11 DEF TarjanInv
  <1> QED
    BY <1>1, <1>2, <1>3, <1>4, <1>5 DEF NetworkNext

(* The invariant holds throughout (network_analysis.py:8-65).              *)
LEMMA Tarjan == NetworkSpec => []TarjanInv
  <1>1. NetworkInit => TarjanInv
    BY NetworkAssumption, NetworkInitKeeps
  <1>2. TarjanInv /\ [NetworkNext]_networkVars => TarjanInv'
    BY NetworkAssumption, NetworkNextKeeps
  <1> QED
    BY <1>1, <1>2, PTL DEF NetworkSpec

(* When the search is over nothing is left on the stack.                   *)
LEMMA AllClaimed ==
  ASSUME NetworkAssumption, TarjanInv, Analysed
  PROVE  Claimed = {x \in Accounts : Seen(x)} /\ Nodes \subseteq Claimed
  <1>1. DOMAIN frames = {}
    BY DEF Analysed
  <1>2. \A x : OnStack(x) => x \in Accounts
    BY DEF OnStack, TarjanInv, SearchTyped
  <1>3. \A x : ~OnStack(x)
    BY <1>1, <1>2 DEF TarjanInv, OnePath
  <1>4. Nodes \in SUBSET Accounts
    BY NodesTyped DEF TarjanInv
  <1> QED
    BY <1>3, <1>4 DEF Claimed, Analysed, Seen

(* An account without transfers is a component of its own.                 *)
LEMMA AloneOutside ==
  ASSUME NetworkAssumption, SearchTyped, NEW v \in Accounts, Large(v)
  PROVE  v \in Nodes
  <1> SUFFICES ASSUME v \notin Nodes
               PROVE  FALSE
    OBVIOUS
  <1>1. Closed({v})
    BY DEF Closed, Nodes
  <1>2. Component(v) = {v}
    BY <1>1, ClosedKeeps, Classes
  <1>3. Cardinality({v}) = 1
    BY FS_Singleton
  <1> QED
    BY <1>2, <1>3 DEF Large

(* What the invariant says of the components when the search is over.      *)
LEMMA ComponentsOf ==
  ASSUME NetworkAssumption, TarjanInv
  PROVE  ComponentsExact
  <1> SUFFICES ASSUME Analysed
               PROVE  /\ FoundComponents = {c \in {Component(v) : v \in Accounts} : Cardinality(c) >= 2}
                      /\ Cardinality(FoundComponents) = Len(sccs)
    BY DEF ComponentsExact
  <1> USE DEF TarjanInv
  <1>1. Claimed \in SUBSET Accounts /\ Nodes \subseteq Claimed
    BY AllClaimed
  <1>2. \A x \in Accounts : Large(x) => x \in Claimed
    BY <1>1, AloneOutside
  <1>3. ASSUME NEW c \in FoundComponents
        PROVE  \E x \in Accounts : c = Component(x) /\ Cardinality(c) >= 2
    BY <1>1 DEF FoundComponents, Components, Large
  <1>4. ASSUME NEW x \in Accounts, Cardinality(Component(x)) >= 2
        PROVE  Component(x) \in FoundComponents
    <2>1. PICK i \in DOMAIN sccs : ToSet(sccs[i]) = Component(x)
      BY <1>2, <1>4 DEF Components, Large
    <2> QED
      BY <2>1 DEF FoundComponents
  <1>5. Cardinality(FoundComponents) = Len(sccs)
    <2> DEFINE f == [i \in DOMAIN sccs |-> ToSet(sccs[i])]
    <2>1. Len(sccs) \in Nat /\ DOMAIN sccs = 1 .. Len(sccs)
      BY DEF SearchTyped
    <2>2. f \in Bijection(1 .. Len(sccs), FoundComponents)
      <3>1. f \in [1 .. Len(sccs) -> FoundComponents]
        BY <2>1 DEF FoundComponents
      <3>2. \A i, j \in 1 .. Len(sccs) : f[i] = f[j] => i = j
        BY <2>1 DEF Components
      <3>3. \A c \in FoundComponents : \E i \in 1 .. Len(sccs) : f[i] = c
        BY <2>1 DEF FoundComponents
      <3> HIDE DEF f
      <3> QED
        BY <3>1, <3>2, <3>3 DEF Bijection, Injection, Surjection, IsInjective
    <2> HIDE DEF f
    <2>3. IsFiniteSet(1 .. Len(sccs)) /\ Cardinality(1 .. Len(sccs)) = Len(sccs)
      <3>1. \A n \in Nat : IsFiniteSet(1 .. n) /\ Cardinality(1 .. n) = n
        BY FS_Interval
      <3> QED
        BY <2>1, <3>1
    <2> QED
      BY <2>1, <2>2, <2>3, FS_Bijection DEF ExistsBijection
  <1> QED
    BY <1>3, <1>4, <1>5

(* In every graph of transfers, the components found in memory are the     *)
(* sets of two or more accounts that can all reach each other, each found  *)
(* once (network_analysis.py:8-65).                                        *)
THEOREM ComponentsFound == NetworkSpec => []ComponentsExact
  <1>1. TarjanInv => ComponentsExact
    BY NetworkAssumption, ComponentsOf
  <1> QED
    BY <1>1, Tarjan, PTL

(* A path over at most so many nodes, and its last node.                   *)
LEMMA Lengths ==
  ASSUME NEW T, NEW n \in Nat, NEW p \in [1 .. n -> T]
  PROVE  Len(p) = n /\ DOMAIN p = 1 .. n /\ Last(p) = p[n] /\ p \in Seq(T)
  <1>1. p \in Seq(T) /\ Len(p) = n
    OBVIOUS
  <1> QED
    BY <1>1 DEF Last

(* The paths the search follows, spelled out.                              *)
LEMMA IsPath ==
  ASSUME NEW q \in Seq(Accounts), NEW p
  PROVE  p \in PathsOf(q) <=>
           \E n \in 1 .. Longest(q) :
             /\ p \in [1 .. n -> ToSet(q)] /\ p[1] = q[1]
             /\ \A a, b \in 1 .. n : p[a] = p[b] => a = b
             /\ \A i \in 1 .. n - 1 : <<p[i], p[i + 1]>> \in flows
  <1>1. Longest(q) \in Nat
    BY DEF Longest, Minimum
  <1>2. \A n \in 1 .. Longest(q) : p \in [1 .. n -> ToSet(q)] => Len(p) = n /\ DOMAIN p = 1 .. n
    BY <1>1, Lengths
  <1>3. ASSUME p \in PathsOf(q)
        PROVE  \E n \in 1 .. Longest(q) :
                 /\ p \in [1 .. n -> ToSet(q)] /\ p[1] = q[1]
                 /\ \A a, b \in 1 .. n : p[a] = p[b] => a = b
                 /\ \A i \in 1 .. n - 1 : <<p[i], p[i + 1]>> \in flows
    <2>1. /\ p \in UNION {[1 .. n -> ToSet(q)] : n \in 1 .. Longest(q)}
          /\ p[1] = q[1] /\ IsInjective(p)
          /\ \A i \in 1 .. Len(p) - 1 : <<p[i], p[i + 1]>> \in flows
      BY <1>3 DEF PathsOf
    <2>2. PICK n \in 1 .. Longest(q) : p \in [1 .. n -> ToSet(q)]
      BY <2>1
    <2>3. Len(p) = n /\ DOMAIN p = 1 .. n
      BY <1>2, <2>2
    <2> QED
      BY <2>1, <2>2, <2>3 DEF IsInjective
  <1>4. ASSUME NEW n \in 1 .. Longest(q), p \in [1 .. n -> ToSet(q)], p[1] = q[1],
               \A a, b \in 1 .. n : p[a] = p[b] => a = b,
               \A i \in 1 .. n - 1 : <<p[i], p[i + 1]>> \in flows
        PROVE  p \in PathsOf(q)
    <2>1. Len(p) = n /\ DOMAIN p = 1 .. n
      BY <1>2, <1>4
    <2>2. IsInjective(p)
      BY <1>4, <2>1 DEF IsInjective
    <2> QED
      BY <1>4, <2>1, <2>2 DEF PathsOf
  <1> QED
    BY <1>3, <1>4

(* No path is longer than there are nodes.                                 *)
LEMMA ShortPath ==
  ASSUME NEW C, IsFiniteSet(C), NEW n \in Nat, NEW p \in [1 .. n -> C],
         \A a, b \in 1 .. n : p[a] = p[b] => a = b
  PROVE  n <= Cardinality(C)
  <1>1. p \in Injection(1 .. n, C)
    BY DEF Injection, IsInjective
  <1>2. Cardinality(1 .. n) <= Cardinality(C)
    BY <1>1, FS_Injection
  <1>3. \A k \in Nat : Cardinality(1 .. k) = k
    BY FS_Interval
  <1> QED
    BY <1>2, <1>3

(* Every node of a component that is not too large ends a path.            *)
LEMMA PathsEverywhere ==
  ASSUME NetworkAssumption, flows \subseteq Accounts \X Accounts, NEW v \in Accounts,
         NEW q \in Seq(Accounts), IsInjective(q), ToSet(q) = Component(v), Len(q) <= 6, Len(q) >= 2,
         NEW x \in Component(v)
  PROVE  \E p \in PathsOf(q) : \E n \in 1 .. Longest(q) : p \in [1 .. n -> ToSet(q)] /\ p[n] = x
  <1> DEFINE C == ToSet(q)
             r == q[1]
             Ends(y) == \E p \in PathsOf(q) : \E n \in 1 .. Longest(q) :
                           p \in [1 .. n -> C] /\ p[n] = y
             Y == {y \in Accounts : Reaches(r, y) /\ (y \in C => Ends(y))}
  <1>1. /\ Len(q) \in Nat /\ Cardinality(C) = Len(q) /\ Longest(q) \in Nat /\ Len(q) <= Longest(q)
        /\ IsFiniteSet(C) /\ C \subseteq Accounts
    <2>1. Len(q) \in Nat /\ Cardinality(C) = Len(q)
      BY LargeEnough
    <2>2. C \subseteq Accounts
      BY DEF Component
    <2>3. IsFiniteSet(C)
      BY <2>2, FS_Subset DEF NetworkAssumption
    <2>4. Longest(q) \in Nat /\ Len(q) <= Longest(q)
      BY <2>1 DEF Longest, Minimum
    <2> QED
      BY <2>1, <2>2, <2>3, <2>4
  <1>2. r \in C
    BY <1>1 DEF ToSet
  <1>3. /\ \A y \in C : Reaches(r, y) /\ Reaches(y, r) /\ y \in Accounts
        /\ \A y \in Accounts : Reaches(r, y) /\ Reaches(y, r) => y \in C
    <2>1. Component(r) = C
      BY <1>2, Classes
    <2> QED
      BY <1>1, <2>1 DEF Component
  <1> HIDE DEF C, r
  <1>4. r \in Y
    <2> DEFINE p == [i \in 1 .. 1 |-> r]
    <2>1. p \in [1 .. 1 -> C] /\ p[1] = r /\ 1 \in 1 .. Longest(q)
      BY <1>1, <1>2
    <2>2. p \in PathsOf(q)
      <3> HIDE DEF p
      <3>1. /\ \A a, b \in 1 .. 1 : a = b
            /\ \A i \in 1 .. 1 - 1 : FALSE
        OBVIOUS
      <3> QED
        BY ZenonT(20), <2>1, <3>1, IsPath DEF C, r
    <2> HIDE DEF p
    <2> QED
      BY <1>1, <1>2, <1>3, <2>1, <2>2
  <1>5. ASSUME NEW y \in Y, NEW z \in Accounts, <<y, z>> \in flows
        PROVE  z \in Y
    <2>1. Reaches(r, z)
      BY <1>1, <1>2, <1>5, Reaching
    <2> SUFFICES ASSUME z \in C
                 PROVE  Ends(z)
      BY <2>1
    <2>2. y \in C
      <3>1. Reaches(y, z) /\ Reaches(z, r)
        BY <1>3, <1>5, Reaching
      <3>2. Reaches(y, r)
        BY <1>1, <1>2, <3>1, Reaching
      <3> QED
        BY <1>3, <3>2
    <2>3. PICK p \in PathsOf(q), n \in 1 .. Longest(q) : p \in [1 .. n -> C] /\ p[n] = y
      BY <2>2
    <2>4. /\ n \in Nat /\ p[1] = r /\ \A a, b \in 1 .. n : p[a] = p[b] => a = b
          /\ \A i \in 1 .. n - 1 : <<p[i], p[i + 1]>> \in flows
      <3>1. PICK m \in 1 .. Longest(q) :
                /\ p \in [1 .. m -> ToSet(q)] /\ p[1] = q[1]
                /\ \A a, b \in 1 .. m : p[a] = p[b] => a = b
                /\ \A i \in 1 .. m - 1 : <<p[i], p[i + 1]>> \in flows
        BY <2>3, IsPath
      <3>2. m = n
        BY <1>1, <2>3, <3>1, Lengths DEF C
      <3> QED
        BY <1>1, <3>1, <3>2 DEF r
    <2>5. CASE \E k \in 1 .. n : p[k] = z
      <3>1. PICK k \in 1 .. n : p[k] = z
        BY <2>5
      <3> DEFINE s == [i \in 1 .. k |-> p[i]]
      <3>2. k \in 1 .. Longest(q) /\ s \in [1 .. k -> C] /\ s[k] = z /\ s[1] = r
        BY <1>1, <2>3, <2>4, <3>1
      <3>3. \A i \in 1 .. k : i \in 1 .. n /\ s[i] = p[i]
        BY <2>4
      <3> HIDE DEF s
      <3>4. \A a, b \in 1 .. k : s[a] = s[b] => a = b
        BY <2>4, <3>3
      <3>5. \A i \in 1 .. k - 1 : <<s[i], s[i + 1]>> \in flows
        BY <2>4, <3>3
      <3>6. s \in PathsOf(q)
        BY <3>2, <3>4, <3>5, IsPath DEF C, r
      <3> QED
        BY <3>2, <3>6
    <2>6. CASE ~\E k \in 1 .. n : p[k] = z
      <3> DEFINE s == [i \in 1 .. n + 1 |-> IF i <= n THEN p[i] ELSE z]
      <3>1. s \in [1 .. n + 1 -> C] /\ s[n + 1] = z /\ s[1] = r /\ \A i \in 1 .. n : s[i] = p[i]
        BY <1>1, <2>3, <2>4
      <3> HIDE DEF s
      <3>2. \A a, b \in 1 .. n + 1 : s[a] = s[b] => a = b
        <4>1. \A a \in 1 .. n + 1 : a = n + 1 \/ a \in 1 .. n
          BY <2>4
        <4> QED
          BY <2>4, <2>6, <3>1, <4>1
      <3>3. \A i \in 1 .. (n + 1) - 1 : <<s[i], s[i + 1]>> \in flows
        <4> SUFFICES ASSUME NEW i \in 1 .. (n + 1) - 1
                     PROVE  <<s[i], s[i + 1]>> \in flows
          OBVIOUS
        <4>1. CASE i = n
          <5>1. n \in 1 .. n
            BY <1>1, <2>4
          <5>2. s[i] = y /\ s[i + 1] = z
            BY <2>3, <3>1, <4>1, <5>1
          <5> QED
            BY <1>5, <5>2
        <4>2. CASE i # n
          BY <2>4, <3>1, <4>2
        <4> QED
          BY <4>1, <4>2
      <3>4. n + 1 \in 1 .. Longest(q)
        <4>1. n + 1 \in Nat
          BY <2>4
        <4>2. n + 1 <= Cardinality(C)
          BY <1>1, <3>1, <3>2, <4>1, ShortPath
        <4> QED
          BY <1>1, <4>1, <4>2
      <3>5. s \in PathsOf(q)
        BY <3>1, <3>2, <3>3, <3>4, IsPath DEF C, r
      <3> QED
        BY <3>1, <3>4, <3>5
    <2> QED
      BY <2>5, <2>6
  <1>6. Closed(Y)
    <2> SUFFICES ASSUME NEW e \in flows, e[1] \in Y
                 PROVE  e[2] \in Y
      BY DEF Closed
    <2> HIDE DEF Y
    <2>1. e = <<e[1], e[2]>> /\ e[1] \in Accounts /\ e[2] \in Accounts
      OBVIOUS
    <2> QED
      BY <1>5, <2>1
  <1>7. x \in C /\ Y \in SUBSET Accounts
    BY DEF C
  <1>8. x \in Y
    <2> HIDE DEF Y
    <2> QED
      BY <1>3, <1>4, <1>6, <1>7, Reaching
  <1> QED
    BY <1>7, <1>8 DEF C

(* Money comes back to every node of a component of two or more.           *)
LEMMA ComesBack ==
  ASSUME NetworkAssumption, flows \subseteq Accounts \X Accounts, NEW v \in Accounts,
         NEW w \in Component(v), w # v
  PROVE  \E u \in Component(v) : u # v /\ <<u, v>> \in flows
  <1> SUFFICES ASSUME \A u \in Component(v) : u # v => <<u, v>> \notin flows
               PROVE  FALSE
    OBVIOUS
  <1>1. w \in Accounts /\ Reaches(v, w) /\ Reaches(w, v)
    BY DEF Component
  <1> DEFINE Z == {x \in Accounts : Reaches(w, x)} \ {v}
  <1>2. w \in Z /\ Z \in SUBSET Accounts
    BY <1>1, Reaching
  <1>3. ASSUME NEW x \in Z, NEW y \in Accounts, <<x, y>> \in flows
        PROVE  y \in Z
    <2>1. Reaches(x, y) /\ Reaches(w, y)
      BY <1>1, <1>3, Reaching
    <2>2. y # v
      <3> SUFFICES ASSUME y = v
                   PROVE  FALSE
        OBVIOUS
      <3>1. Reaches(v, x)
        BY <1>1, Reaching
      <3> QED
        BY <1>3, <2>1, <3>1 DEF Component
    <2> QED
      BY <2>1, <2>2
  <1>4. Closed(Z)
    <2> SUFFICES ASSUME NEW e \in flows, e[1] \in Z
                 PROVE  e[2] \in Z
      BY DEF Closed
    <2> HIDE DEF Z
    <2>1. e = <<e[1], e[2]>> /\ e[1] \in Accounts /\ e[2] \in Accounts
      OBVIOUS
    <2> QED
      BY <1>3, <2>1
  <1>5. v \notin Z
    OBVIOUS
  <1> HIDE DEF Z
  <1> QED
    BY <1>1, <1>2, <1>4, <1>5, Reaching

(* In a component of two to six accounts the search finds a circle ...     *)
LEMMA ClosableSome ==
  ASSUME NetworkAssumption, flows \subseteq Accounts \X Accounts, NEW v \in Accounts,
         NEW q \in Seq(Accounts), IsInjective(q), ToSet(q) = Component(v), Len(q) <= 6, Len(q) >= 2
  PROVE  Closable(q) # {}
  <1>1. Len(q) \in Nat /\ 1 \in DOMAIN q /\ 2 \in DOMAIN q
    OBVIOUS
  <1>2. q[1] \in Component(v) /\ q[2] \in Component(v) /\ q[1] # q[2]
    BY <1>1 DEF ToSet, IsInjective
  <1>3. q[1] \in Accounts /\ Component(q[1]) = Component(v)
    BY <1>2, Classes
  <1>4. PICK u \in Component(v) : u # q[1] /\ <<u, q[1]>> \in flows
    <2>1. q[2] \in Component(q[1]) /\ q[2] # q[1]
      BY <1>2, <1>3
    <2> QED
      BY <1>3, <2>1, ComesBack
  <1>5. PICK p \in PathsOf(q), n \in 1 .. Longest(q) : p \in [1 .. n -> ToSet(q)] /\ p[n] = u
    BY <1>4, PathsEverywhere
  <1>6. Longest(q) \in Nat
    BY <1>1 DEF Longest, Minimum
  <1>7. Len(p) = n /\ Last(p) = u /\ n \in Nat
    <2>1. n \in Nat
      BY <1>6
    <2> QED
      BY <1>5, <2>1, Lengths
  <1>8. p[1] = q[1]
    BY <1>5, IsPath
  <1>9. n # 1
    BY <1>4, <1>5, <1>8
  <1> QED
    BY <1>4, <1>5, <1>6, <1>7, <1>9 DEF Closable

(* ... and what it finds is one.                                           *)
LEMMA ClosableCircle ==
  ASSUME NEW q \in Seq(Accounts), NEW p \in Closable(q)
  PROVE  /\ Circle(p) /\ ToSet(p) \subseteq ToSet(q)
         /\ \E n \in Nat : /\ n >= 2 /\ p \in [1 .. n -> ToSet(q)]
                           /\ \A a, b \in 1 .. n : p[a] = p[b] => a = b
                           /\ \A i \in 1 .. n : <<p[i], p[Follows(i, n)]>> \in flows
  <1>1. p \in PathsOf(q) /\ Len(p) >= 2 /\ <<Last(p), q[1]>> \in flows
    BY DEF Closable
  <1>2. PICK n \in 1 .. Longest(q) :
          /\ p \in [1 .. n -> ToSet(q)] /\ p[1] = q[1]
          /\ \A a, b \in 1 .. n : p[a] = p[b] => a = b
          /\ \A i \in 1 .. n - 1 : <<p[i], p[i + 1]>> \in flows
    BY <1>1, IsPath
  <1>3. n \in Nat /\ Len(p) = n /\ DOMAIN p = 1 .. n /\ Last(p) = p[n]
    <2>1. n \in Nat
      BY DEF Longest, Minimum
    <2> QED
      BY ZenonT(20), <1>2, <2>1, Lengths
  <1>4. ASSUME NEW i \in 1 .. n
        PROVE  <<p[i], p[Follows(i, n)]>> \in flows
    <2>1. CASE i = n
      <3>1. Follows(i, n) = 1
        BY <1>3, <2>1 DEF Follows
      <3> QED
        BY <1>1, <1>2, <1>3, <2>1, <3>1
    <2>2. CASE i # n
      <3>1. i \in 1 .. n - 1 /\ Follows(i, n) = i + 1
        BY <1>3, <2>2 DEF Follows
      <3> QED
        BY <1>2, <3>1
    <2> QED
      BY <2>1, <2>2
  <1>5. ToSet(p) \subseteq ToSet(q)
    BY <1>2, <1>3 DEF ToSet
  <1>6. Circle(p)
    BY <1>2, <1>3, <1>4 DEF Circle, IsInjective
  <1> QED
    BY <1>1, <1>2, <1>3, <1>4, <1>5, <1>6

(* Going on around a circle of two to five one comes past every place.     *)
LEMMA Around ==
  ASSUME NEW n \in 2 .. 5, NEW J, J \subseteq 1 .. n, J # {}, \A i \in J : Follows(i, n) \in J
  PROVE  J = 1 .. n
  <1>1. \A i \in 1 .. n : Follows(i, n) = IF i = n THEN 1 ELSE i + 1
    <2>1. ASSUME NEW i \in 1 .. n, i = n
          PROVE  Follows(i, n) = 1
      BY <2>1 DEF Follows
    <2>2. ASSUME NEW i \in 1 .. n, i # n
          PROVE  Follows(i, n) = i + 1
      BY <2>2 DEF Follows
    <2> QED
      BY <2>1, <2>2
  <1>2. /\ \A i \in J : i \in 1 .. n /\ (i = n => 1 \in J) /\ (i # n => i + 1 \in J)
        /\ n \in {2, 3, 4, 5}
    BY <1>1
  <1>3. 1 \in J
    <2>1. 5 \in J => 1 \in J
      BY <1>2
    <2>2. 4 \in J => 1 \in J
      BY <1>2, <2>1
    <2>3. 3 \in J => 1 \in J
      BY <1>2, <2>2
    <2>4. 2 \in J => 1 \in J
      BY <1>2, <2>3
    <2>5. PICK i \in J : i \in 1 .. n
      OBVIOUS
    <2>6. i \in {1, 2, 3, 4, 5}
      BY <1>2, <2>5
    <2> QED
      BY <2>1, <2>2, <2>3, <2>4, <2>6
  <1>4. \A i \in 1 .. n : i \in J
    <2>1. 2 \in J /\ (n > 2 => 3 \in J)
      BY <1>2, <1>3
    <2>2. (n > 3 => 4 \in J) /\ (n > 4 => 5 \in J)
      BY <1>2, <2>1
    <2> QED
      BY <1>2, <1>3, <2>1, <2>2
  <1> QED
    BY <1>4

(* The accounts of a trail that ends where it began lie in one component,  *)
(* and are two at least.                                                   *)
LEMMA TrailInComponent ==
  ASSUME NetworkAssumption, flows \subseteq Accounts \X Accounts, \A e \in flows : e[1] # e[2],
         NEW t \in Trails
  PROVE  \E v \in Accounts : {e[1] : e \in ToSet(t)} \subseteq Component(v) /\ Large(v)
  <1>1. PICK n \in 2 .. 5 : t \in [1 .. n -> flows] /\ IsInjective(t)
                            /\ \A i \in DOMAIN t : t[i][2] = t[Follows(i, Len(t))][1]
    BY DEF Trails
  <1>2. Len(t) = n /\ DOMAIN t = 1 .. n
    BY <1>1, Lengths
  <1>3. \A i \in 1 .. n : /\ t[i] \in flows /\ t[i] = <<t[i][1], t[i][2]>>
                          /\ t[i][1] \in Accounts /\ t[i][1] # t[i][2]
                          /\ Follows(i, n) \in 1 .. n /\ t[i][2] = t[Follows(i, n)][1]
    <2>1. \A i \in 1 .. n : t[i] \in flows /\ t[i][2] = t[Follows(i, n)][1]
      BY <1>1, <1>2
    <2>2. \A e \in flows : e = <<e[1], e[2]>> /\ e[1] \in Accounts /\ e[1] # e[2]
      OBVIOUS
    <2>3. \A i \in 1 .. n : Follows(i, n) \in 1 .. n
      BY DEF Follows
    <2> QED
      BY <2>1, <2>2, <2>3
  <1>4. ASSUME NEW i \in 1 .. n, NEW j \in 1 .. n
        PROVE  Reaches(t[i][1], t[j][1])
    <2> SUFFICES ASSUME NEW T \in SUBSET Accounts, t[i][1] \in T, Closed(T)
                 PROVE  t[j][1] \in T
      BY DEF Reaches
    <2> DEFINE J == {k \in 1 .. n : t[k][1] \in T}
    <2>1. \A k \in J : Follows(k, n) \in J
      BY <1>3 DEF Closed
    <2>2. J \subseteq 1 .. n /\ J # {}
      OBVIOUS
    <2>3. J = 1 .. n
      <3> HIDE DEF J
      <3> QED
        BY <2>1, <2>2, Around
    <2> QED
      BY <2>3
  <1> DEFINE v == t[1][1]
             w == t[1][2]
  <1>5. v \in Accounts /\ \A i \in 1 .. n : t[i][1] \in Component(v)
    BY <1>3, <1>4 DEF Component
  <1>6. w \in Component(v) /\ w # v
    BY <1>3, <1>5
  <1> HIDE DEF v, w
  <1>7. Large(v)
    <2>1. Component(v) \subseteq Accounts /\ {v, w} \subseteq Component(v)
      BY <1>5, <1>6, Classes
    <2>2. IsFiniteSet(Component(v))
      BY <2>1, FS_Subset DEF NetworkAssumption
    <2>3. Cardinality({v, w}) <= Cardinality(Component(v))
      BY <2>1, <2>2, FS_Subset
    <2>4. Cardinality({v, w}) = 2
      <3>1. IsFiniteSet({v}) /\ Cardinality({v}) = 1
        BY FS_Singleton
      <3>2. Cardinality({v} \cup {w}) = Cardinality({v}) + 1
        BY <1>6, <3>1, FS_AddElement
      <3>3. {v} \cup {w} = {v, w}
        OBVIOUS
      <3>4. Cardinality({v, w}) = 1 + 1
        BY Zenon, <3>1, <3>2, <3>3
      <3> QED
        BY <3>4
    <2>5. Cardinality(Component(v)) \in Nat
      BY <2>2, FS_CardinalityType
    <2> QED
      BY <2>3, <2>4, <2>5 DEF Large
  <1>8. {e[1] : e \in ToSet(t)} \subseteq Component(v)
    BY <1>2, <1>5 DEF ToSet
  <1> QED
    BY <1>5, <1>7, <1>8

(* A circle of two to five accounts gives such a trail.                    *)
LEMMA TrailAlong ==
  ASSUME NEW n \in 2 .. 5, NEW C, NEW p \in [1 .. n -> C],
         \A a, b \in 1 .. n : p[a] = p[b] => a = b,
         \A i \in 1 .. n : <<p[i], p[Follows(i, n)]>> \in flows
  PROVE  \E t \in Trails : {e[1] : e \in ToSet(t)} \subseteq C
  <1> DEFINE t == [i \in 1 .. n |-> <<p[i], p[Follows(i, n)]>>]
  <1>1. \A i \in 1 .. n : Follows(i, n) \in 1 .. n
    BY DEF Follows
  <1>2. /\ t \in [1 .. n -> flows]
        /\ \A i \in 1 .. n : t[i][1] = p[i] /\ t[i][2] = t[Follows(i, n)][1]
    BY <1>1
  <1> HIDE DEF t
  <1>3. Len(t) = n /\ DOMAIN t = 1 .. n
    BY <1>2, Lengths
  <1>4. IsInjective(t)
    BY <1>2, <1>3 DEF IsInjective
  <1>5. t \in Trails
    BY <1>2, <1>3, <1>4 DEF Trails
  <1>6. {e[1] : e \in ToSet(t)} \subseteq C
    BY <1>2, <1>3 DEF ToSet
  <1> QED
    BY <1>5, <1>6

(* What the invariant says of the circles when the search is over.         *)
LEMMA CirclesOf ==
  ASSUME NetworkAssumption, TarjanInv, \A e \in flows : e[1] # e[2]
  PROVE  CirclesExact
  <1> SUFFICES ASSUME Analysed
               PROVE  /\ \A i \in DOMAIN sccs : \A p \in FlowsOf(sccs[i]) :
                           ToSet(p) \subseteq ToSet(sccs[i]) /\ (Circle(p) \/ Len(sccs[i]) > 6)
                      /\ \A c \in CypherCycles : \E scc \in FoundComponents : c \subseteq scc
                      /\ \A scc \in FoundComponents : Cardinality(scc) <= 5 => \E c \in CypherCycles : c \subseteq scc
    BY DEF CirclesExact
  <1>1. flows \subseteq Accounts \X Accounts /\ sccs \in Seq(Seq(Accounts)) /\ Claimed \subseteq Accounts
    BY DEF TarjanInv, SearchTyped, Claimed
  <1>2. ComponentsExact
    BY ComponentsOf
  <1>3. ASSUME NEW i \in DOMAIN sccs
        PROVE  /\ sccs[i] \in Seq(Accounts) /\ IsInjective(sccs[i]) /\ Len(sccs[i]) \in Nat
               /\ Cardinality(ToSet(sccs[i])) = Len(sccs[i]) /\ Len(sccs[i]) >= 2
               /\ \E v \in Accounts : ToSet(sccs[i]) = Component(v)
    <2>1. sccs[i] \in Seq(Accounts) /\ IsInjective(sccs[i])
      BY <1>1 DEF TarjanInv, Components
    <2>2. PICK v \in Claimed : ToSet(sccs[i]) = Component(v) /\ Large(v)
      BY DEF TarjanInv, Components
    <2>3. v \in Accounts
      BY <1>1, <2>2
    <2>4. Len(sccs[i]) \in Nat /\ Cardinality(Component(v)) = Len(sccs[i])
      BY <2>1, <2>2, <2>3, LargeEnough
    <2> QED
      BY <2>1, <2>2, <2>3, <2>4 DEF Large
  <1>4. ASSUME NEW i \in DOMAIN sccs, NEW p \in FlowsOf(sccs[i])
        PROVE  ToSet(p) \subseteq ToSet(sccs[i]) /\ (Circle(p) \/ Len(sccs[i]) > 6)
    <2>1. CASE Closable(sccs[i]) = {}
      <3>1. p = sccs[i]
        BY <2>1, <1>4 DEF FlowsOf
      <3>2. ~(Len(sccs[i]) <= 6)
        BY <1>1, <1>3, <2>1, ClosableSome
      <3> QED
        BY <1>3, <3>1, <3>2
    <2>2. CASE Closable(sccs[i]) # {}
      <3>1. p \in Closable(sccs[i])
        BY <2>2, <1>4 DEF FlowsOf
      <3> QED
        BY <1>3, <3>1, ClosableCircle
    <2> QED
      BY <2>1, <2>2
  <1>5. ASSUME NEW c \in CypherCycles
        PROVE  \E scc \in FoundComponents : c \subseteq scc
    <2>1. PICK t \in Trails : c = {e[1] : e \in ToSet(t)}
      BY <1>5 DEF CypherCycles
    <2>2. PICK v \in Accounts : {e[1] : e \in ToSet(t)} \subseteq Component(v) /\ Large(v)
      BY <1>1, TrailInComponent
    <2>3. Component(v) \in FoundComponents
      BY <1>2, <2>2 DEF ComponentsExact, Large
    <2> QED
      BY <2>1, <2>2, <2>3
  <1>6. ASSUME NEW scc \in FoundComponents, Cardinality(scc) <= 5
        PROVE  \E c \in CypherCycles : c \subseteq scc
    <2>1. PICK i \in DOMAIN sccs : scc = ToSet(sccs[i])
      BY DEF FoundComponents
    <2>2. Len(sccs[i]) <= 5 /\ Len(sccs[i]) <= 6
      BY <1>3, <1>6, <2>1
    <2>3. PICK p : p \in Closable(sccs[i])
      BY <1>1, <1>3, <2>2, ClosableSome
    <2>4. PICK n \in Nat : /\ n >= 2 /\ p \in [1 .. n -> scc]
                           /\ \A a, b \in 1 .. n : p[a] = p[b] => a = b
                           /\ \A k \in 1 .. n : <<p[k], p[Follows(k, n)]>> \in flows
      BY <1>3, <2>1, <2>3, ClosableCircle
    <2>5. IsFiniteSet(scc)
      <3>1. scc \subseteq Accounts
        BY <1>3, <2>1 DEF Component
      <3> QED
        BY <3>1, FS_Subset DEF NetworkAssumption
    <2>6. n <= Cardinality(scc) /\ Cardinality(scc) \in Nat
      BY <2>4, <2>5, ShortPath, FS_CardinalityType
    <2>7. n \in 2 .. 5
      BY <1>6, <2>4, <2>6
    <2>8. PICK t \in Trails : {e[1] : e \in ToSet(t)} \subseteq scc
      BY <2>4, <2>7, TrailAlong
    <2> QED
      BY <2>8 DEF CypherCycles
  <1> QED
    BY <1>4, <1>5, <1>6

(* In every graph of transfers, what is reported for a component lies in   *)
(* it, and is a circle unless the component has more than six accounts;    *)
(* what the graph database reports lies in the components, and is one      *)
(* circle at least in each of up to five (network_analysis.py:330-415).    *)
THEOREM CirclesReported == NetworkSpec => []CirclesExact
  <1> DEFINE Loopless == \A e \in flows : e[1] # e[2]
  <1>1. NetworkInit => Loopless
    BY DEF NetworkInit, Fetched, kSubset
  <1>2. Loopless /\ [NetworkNext]_networkVars => Loopless'
    BY DEF NetworkNext, Root, Descend, Look, Leave, Enter, networkVars
  <1>3. TarjanInv /\ Loopless => CirclesExact
    BY NetworkAssumption, CirclesOf
  <1> HIDE DEF Loopless
  <1> QED
    BY <1>1, <1>2, <1>3, Tarjan, PTL DEF NetworkSpec

-----------------------------------------------------------------------------
(* The ranking of intermediaries.                                          *)

(* A set of places that is not empty has a first one.                      *)
LEMMA Earliest ==
  ASSUME NEW n \in Nat, NEW S \in SUBSET (1 .. n), S # {}
  PROVE  \E i \in S : \A j \in S : i <= j
  <1> DEFINE h == [x \in S |-> 0 - x]
  <1>1. IsFiniteSet(S) /\ \A x \in S : h[x] \in Int
    <2>1. IsFiniteSet(1 .. n)
      BY FS_Interval
    <2>2. IsFiniteSet(S)
      BY <2>1, FS_Subset
    <2>3. \A x \in S : h[x] \in Int
      OBVIOUS
    <2> QED
      BY <2>2, <2>3
  <1>2. PICK x \in S : \A y \in S : h[y] <= h[x]
    <2> HIDE DEF h
    <2> QED
      BY <1>1, Largest
  <1> QED
    BY <1>2

(* Paths from v to t along the transfers of F.                             *)
Ways(F, v, t) ==
  {p \in Seq(Accounts) : /\ Len(p) >= 1 /\ p[1] = v /\ p[Len(p)] = t
                         /\ \A i \in 1 .. Len(p) - 1 : <<p[i], p[i + 1]>> \in F}

(* Every transfer of F leads one level further down.                       *)
Steep(F, d) ==
  /\ d \in [Accounts -> Int] /\ F \subseteq Accounts \X Accounts
  /\ \A e \in F : d[e[2]] = d[e[1]] + 1

(* What a path consists of.                                                *)
LEMMA WayIs ==
  ASSUME NEW F, NEW v, NEW t, NEW p \in Ways(F, v, t)
  PROVE  /\ p \in Seq(Accounts) /\ Len(p) \in Nat \ {0} /\ DOMAIN p = 1 .. Len(p)
         /\ p[1] = v /\ p[Len(p)] = t /\ v \in Accounts /\ t \in Accounts
         /\ \A i \in 1 .. Len(p) : p[i] \in Accounts
         /\ \A i \in 1 .. Len(p) - 1 : <<p[i], p[i + 1]>> \in F
  <1>1. /\ p \in Seq(Accounts) /\ Len(p) >= 1 /\ p[1] = v /\ p[Len(p)] = t
        /\ \A i \in 1 .. Len(p) - 1 : <<p[i], p[i + 1]>> \in F
    BY DEF Ways
  <1>2. Len(p) \in Nat \ {0} /\ DOMAIN p = 1 .. Len(p) /\ \A i \in 1 .. Len(p) : p[i] \in Accounts
    BY <1>1
  <1>3. 1 \in 1 .. Len(p) /\ Len(p) \in 1 .. Len(p)
    BY <1>2
  <1> QED
    BY <1>1, <1>2, <1>3

(* A path leads one level down with each transfer.                         *)
LEMMA Levels ==
  ASSUME NEW F, NEW d, Steep(F, d), NEW v, NEW t, NEW p \in Ways(F, v, t)
  PROVE  /\ \A i \in 1 .. Len(p) : d[p[i]] = d[v] + i - 1
         /\ d[v] \in Int /\ d[t] = d[v] + Len(p) - 1
  <1>0. /\ Len(p) \in Nat \ {0} /\ p[1] = v /\ p[Len(p)] = t
        /\ \A i \in 1 .. Len(p) : p[i] \in Accounts
        /\ \A i \in 1 .. Len(p) - 1 : <<p[i], p[i + 1]>> \in F
    BY WayIs
  <1>i. \A i \in 1 .. Len(p) : d[p[i]] \in Int
    BY <1>0 DEF Steep
  <1> DEFINE T == {i \in 1 .. Len(p) : d[p[i]] # d[v] + i - 1}
  <1>1. ASSUME T # {} PROVE FALSE
    <2>1. PICK i \in T : \A j \in T : i <= j
      <3>1. T \in SUBSET (1 .. Len(p))
        OBVIOUS
      <3> HIDE DEF T
      <3> QED
        BY <3>1, <1>0, <1>1, Earliest
    <2>2. i \in 1 .. Len(p) /\ d[p[i]] # d[v] + i - 1
      BY <2>1
    <2>3. d[v] \in Int
      BY <1>0, <1>i
    <2>4. i # 1
      BY <1>0, <2>2, <2>3
    <2>5. i - 1 \in 1 .. Len(p) /\ i - 1 \in 1 .. Len(p) - 1 /\ ~(i <= i - 1) /\ (i - 1) + 1 = i
      BY <1>0, <2>2, <2>4
    <2>6. d[p[i - 1]] = d[v] + (i - 1) - 1
      BY <2>1, <2>5
    <2>7. <<p[i - 1], p[i]>> \in F
      BY <1>0, <2>5
    <2>8. d[p[i]] = d[p[i - 1]] + 1
      BY <2>7 DEF Steep
    <2> QED
      BY <2>2, <2>3, <2>6, <2>8
  <1>2. \A i \in 1 .. Len(p) : d[p[i]] = d[v] + i - 1
    BY <1>1
  <1>3. Len(p) \in 1 .. Len(p) /\ 1 \in 1 .. Len(p)
    BY <1>0
  <1> QED
    BY <1>0, <1>2, <1>3, <1>i

(* There are finitely many, since the accounts of a path make it out.      *)
LEMMA WaysFinite ==
  ASSUME NetworkAssumption, NEW F, NEW d, Steep(F, d), NEW v, NEW t
  PROVE  /\ IsFiniteSet(Ways(F, v, t)) /\ Cardinality(Ways(F, v, t)) \in Nat
         /\ Cardinality(Ways(F, v, t)) <= Cardinality(SUBSET Accounts)
  <1> DEFINE W == Ways(F, v, t)
             f == [p \in W |-> {p[i] : i \in 1 .. Len(p)}]
  <1>1. ASSUME NEW p \in W, NEW q \in W, f[p] = f[q]
        PROVE  p = q
    <2>p. p \in Seq(Accounts) /\ Len(p) \in Nat \ {0} /\ DOMAIN p = 1 .. Len(p) /\ p[Len(p)] = t
      BY WayIs
    <2>q. q \in Seq(Accounts) /\ Len(q) \in Nat \ {0} /\ DOMAIN q = 1 .. Len(q) /\ q[Len(q)] = t
      BY WayIs
    <2>1. /\ d[v] \in Int /\ d[t] = d[v] + Len(p) - 1
          /\ \A i \in 1 .. Len(p) : d[p[i]] = d[v] + i - 1
      BY SMTT(30), Levels
    <2>2. /\ d[t] = d[v] + Len(q) - 1
          /\ \A i \in 1 .. Len(q) : d[q[i]] = d[v] + i - 1
      BY SMTT(30), Levels
    <2>3. Len(p) = Len(q)
      <3>1. d[t] \in Int /\ d[v] \in Int
        BY <2>p, <2>1
      <3>2. Len(p) \in Nat \ {0} /\ Len(q) \in Nat \ {0}
        BY <2>p, <2>q
      <3>3. d[t] = d[v] + Len(p) - 1 /\ d[t] = d[v] + Len(q) - 1
        BY <2>1, <2>2
      <3> QED
        BY Zenon, <3>1, <3>2, <3>3, SameLength
    <2>4. ASSUME NEW i \in 1 .. Len(p)
          PROVE  p[i] = q[i]
      <3>1. p[i] \in f[q]
        BY <1>1
      <3>2. PICK j \in 1 .. Len(q) : p[i] = q[j]
        BY <3>1
      <3>3. d[v] + i - 1 = d[v] + j - 1
        BY <2>1, <2>2, <3>2
      <3>4. i = j
        BY <2>1, <3>3, <2>p, <2>q
      <3> QED
        BY <3>2, <3>4
    <2> QED
      BY <2>p, <2>q, <2>3, <2>4, SeqEqual
  <1>2. f \in [W -> SUBSET Accounts]
    <2> SUFFICES ASSUME NEW p \in W, NEW i \in 1 .. Len(p)
                 PROVE  p[i] \in Accounts
      OBVIOUS
    <2> QED
      BY WayIs
  <1> HIDE DEF f, W
  <1>3. f \in Injection(W, SUBSET Accounts)
    BY <1>1, <1>2 DEF Injection, IsInjective
  <1>4. IsFiniteSet(SUBSET Accounts)
    BY FS_SUBSET DEF NetworkAssumption
  <1>5. IsFiniteSet(W) /\ Cardinality(W) <= Cardinality(SUBSET Accounts)
    BY <1>3, <1>4, FS_Injection
  <1> QED
    BY <1>5, FS_CardinalityType DEF W

(* Two sets that have nothing in common, the second of which is an image.  *)
LEMMA AddImage ==
  ASSUME NEW S, IsFiniteSet(S), NEW T, IsFiniteSet(T), NEW g,
         \A x, y \in T : g[x] = g[y] => x = y,
         \A x \in T : g[x] \notin S,
         NEW R, R = S \cup {g[x] : x \in T}
  PROVE  IsFiniteSet(R) /\ Cardinality(R) = Cardinality(S) + Cardinality(T)
  <1> DEFINE I == {g[x] : x \in T}
             w == [x \in T |-> 0]
             u == [x \in I |-> 0]
  <1>1. IsFiniteSet(I) /\ Cardinality(I) = Cardinality(T)
    <2>1. \A x \in T : w[x] \in Nat /\ u[g[x]] = w[x]
      OBVIOUS
    <2>2. I = {g[x] : x \in T}
      OBVIOUS
    <2> HIDE DEF I, w, u
    <2> QED
      BY <2>1, <2>2, SumImage
  <1>2. S \cap I = {} /\ R = S \cup I
    OBVIOUS
  <1> HIDE DEF I
  <1>3. /\ IsFiniteSet(S \cup I)
        /\ Cardinality(S \cup I) = Cardinality(S) + Cardinality(I) - Cardinality(S \cap I)
    BY <1>1, FS_Union
  <1>4. Cardinality(S \cap I) = 0 /\ Cardinality(S) \in Nat /\ Cardinality(T) \in Nat
    BY <1>2, FS_EmptySet, FS_CardinalityType
  <1> QED
    BY <1>1, <1>2, <1>3, <1>4

(* From an account to itself there is one path; to another, no path unless *)
(* it is further down.                                                     *)
LEMMA WaysSelf ==
  ASSUME NEW F, NEW d, Steep(F, d), NEW v \in Accounts
  PROVE  Ways(F, v, v) = {<<v>>} /\ Cardinality(Ways(F, v, v)) = 1
  <1>1. <<v>> \in Ways(F, v, v)
    <2>1. <<v>> \in Seq(Accounts) /\ Len(<<v>>) = 1 /\ <<v>>[1] = v /\ 1 .. Len(<<v>>) - 1 = {}
      OBVIOUS
    <2> QED
      BY <2>1 DEF Ways
  <1>2. ASSUME NEW p \in Ways(F, v, v)
        PROVE  p = <<v>>
    <2>1. d[v] \in Int /\ d[v] = d[v] + Len(p) - 1
      BY Levels
    <2>2. p \in Seq(Accounts) /\ Len(p) \in Nat \ {0} /\ p[1] = v
      BY WayIs
    <2>3. Len(p) = 1
      <3>1. \A a \in Int : \A n \in Nat : a = a + n - 1 => n = 1
        OBVIOUS
      <3> QED
        BY <2>1, <2>2, <3>1
    <2> QED
      BY <2>2, <2>3
  <1>3. Ways(F, v, v) = {<<v>>}
    BY <1>1, <1>2
  <1> QED
    BY <1>3, FS_Singleton

(* Paths between two accounts lead down.                                   *)
LEMMA WaysDown ==
  ASSUME NEW F, NEW d, Steep(F, d), NEW v, NEW t, v # t, Ways(F, v, t) # {}
  PROVE  /\ d[v] \in Int /\ d[t] \in Int /\ d[v] < d[t]
         /\ \A p \in Ways(F, v, t) : Len(p) >= 2
  <1>1. ASSUME NEW p \in Ways(F, v, t)
        PROVE  d[v] \in Int /\ d[t] \in Int /\ d[v] < d[t] /\ Len(p) >= 2
    <2>1. d[v] \in Int /\ d[t] = d[v] + Len(p) - 1
      BY Levels
    <2>2. p \in Seq(Accounts) /\ Len(p) \in Nat \ {0} /\ p[1] = v /\ p[Len(p)] = t
      BY WayIs
    <2>3. Len(p) # 1
      BY <2>2
    <2> QED
      BY <2>1, <2>2, <2>3
  <1> QED
    BY <1>1

(* One more transfer, to an account that nothing has left yet.             *)
Grown(F, G, v, w) == G = F \cup {<<v, w>>} /\ <<v, w>> \notin F /\ \A x : <<w, x>> \notin F

(* A path uses the new transfer last.                                      *)
LEMMA WaysLast ==
  ASSUME NEW F, NEW G, NEW d, Steep(G, d), NEW v, NEW w, Grown(F, G, v, w),
         NEW s, NEW x, NEW p \in Ways(G, s, x), NEW i \in 1 .. Len(p) - 1, <<p[i], p[i + 1]>> \notin F
  PROVE  x = w /\ i + 1 = Len(p)
  <1>g. G = F \cup {<<v, w>>} /\ <<v, w>> \notin F /\ \A y : <<w, y>> \notin F
    BY DEF Grown
  <1>0. Steep(F, d) /\ v \in Accounts /\ w \in Accounts /\ v # w
    <2>1. d[w] = d[v] + 1 /\ v \in Accounts /\ w \in Accounts /\ d[v] \in Int
      BY <1>g DEF Steep
    <2>2. Steep(F, d)
      BY <1>g DEF Steep
    <2> QED
      BY <2>1, <2>2
  <1>1. p[i] = v /\ p[i + 1] = w
    BY <1>g, WayIs
  <1>2. Len(p) \in Nat \ {0} /\ p[Len(p)] = x
    BY WayIs
  <1>3. CASE i + 1 < Len(p)
    <2>1. i + 1 \in 1 .. Len(p) - 1
      BY <1>2, <1>3
    <2>2. <<p[i + 1], p[(i + 1) + 1]>> \in G
      BY <1>g, <2>1, WayIs
    <2>3. <<w, p[(i + 1) + 1]>> # <<v, w>>
      BY <1>0
    <2> QED
      BY <1>g, <1>1, <2>2, <2>3
  <1> QED
    BY <1>1, <1>2, <1>3

(* Paths to other accounts stay, ...                                       *)
LEMMA WaysKept ==
  ASSUME NetworkAssumption, NEW F, NEW G, NEW d, Steep(G, d), NEW v, NEW w, Grown(F, G, v, w), NEW s,
         NEW x, x # w
  PROVE  Cardinality(Ways(G, s, x)) = Cardinality(Ways(F, s, x))
  <1>g. G = F \cup {<<v, w>>}
    BY DEF Grown
  <1>1. Ways(F, s, x) \subseteq Ways(G, s, x)
    BY <1>g DEF Ways
  <1>2. ASSUME NEW p \in Ways(G, s, x)
        PROVE  p \in Ways(F, s, x)
    <2>1. \A i \in 1 .. Len(p) - 1 : <<p[i], p[i + 1]>> \in F
      BY WaysLast
    <2> QED
      BY <2>1 DEF Ways
  <1>3. Ways(G, s, x) = Ways(F, s, x)
    BY <1>1, <1>2
  <1> QED
    BY Zenon, <1>3

(* ... and those to its receiver are joined by those to its sender.        *)
LEMMA WaysGrow ==
  ASSUME NetworkAssumption, NEW F, NEW G, NEW d, Steep(G, d), NEW v, NEW w, Grown(F, G, v, w), NEW s, s # w
  PROVE  Cardinality(Ways(G, s, w)) = Cardinality(Ways(F, s, w)) + Cardinality(Ways(F, s, v))
  <1>g. G = F \cup {<<v, w>>} /\ <<v, w>> \notin F /\ \A y : <<w, y>> \notin F
    BY DEF Grown
  <1>0. Steep(F, d) /\ v \in Accounts /\ w \in Accounts /\ v # w
    <2>1. d[w] = d[v] + 1 /\ v \in Accounts /\ w \in Accounts /\ d[v] \in Int
      BY <1>g DEF Steep
    <2>2. Steep(F, d)
      BY <1>g DEF Steep
    <2> QED
      BY <2>1, <2>2
  <1>1. Ways(F, s, w) \subseteq Ways(G, s, w)
    BY <1>g DEF Ways
  <1>2. ASSUME NEW p \in Ways(G, s, w), NEW i \in 1 .. Len(p) - 1, <<p[i], p[i + 1]>> \notin F
        PROVE  i + 1 = Len(p)
    BY <1>2, WaysLast
  <1>4. Cardinality(Ways(G, s, w)) = Cardinality(Ways(F, s, w)) + Cardinality(Ways(F, s, v))
    <2> DEFINE T == Ways(F, s, v)
               g == [p \in T |-> Append(p, w)]
    <2>1. ASSUME NEW p \in T
          PROVE  /\ g[p] \in Ways(G, s, w) /\ g[p] \notin Ways(F, s, w)
                 /\ Len(g[p]) = Len(p) + 1 /\ p \in Seq(Accounts) /\ Len(p) \in Nat
                 /\ \A i \in 1 .. Len(p) : g[p][i] = p[i]
      <3>1. /\ p \in Seq(Accounts) /\ Len(p) \in Nat \ {0} /\ p[1] = s /\ p[Len(p)] = v
            /\ \A i \in 1 .. Len(p) - 1 : <<p[i], p[i + 1]>> \in F
        BY WayIs
      <3>2. /\ g[p] \in Seq(Accounts) /\ Len(g[p]) = Len(p) + 1
            /\ \A i \in 1 .. Len(p) : g[p][i] = p[i]
            /\ g[p][Len(p) + 1] = w
        BY <3>1, <1>0
      <3> HIDE DEF g
      <3>3. g[p][1] = s /\ g[p][Len(g[p])] = w /\ Len(g[p]) >= 1
        BY <3>1, <3>2
      <3>4. <<g[p][Len(p)], g[p][Len(p) + 1]>> = <<v, w>>
        BY <3>1, <3>2
      <3>5. ASSUME NEW i \in 1 .. Len(g[p]) - 1
            PROVE  <<g[p][i], g[p][i + 1]>> \in G
        <4>1. CASE i = Len(p)
          BY <1>g, <4>1, <3>4
        <4>2. CASE i # Len(p)
          <5>1. i \in 1 .. Len(p) - 1 /\ i \in 1 .. Len(p) /\ i + 1 \in 1 .. Len(p)
            BY <3>1, <3>2, <4>2
          <5> QED
            BY <1>g, <3>1, <3>2, <5>1
        <4> QED
          BY <4>1, <4>2
      <3>6. g[p] \in Ways(G, s, w)
        BY <3>2, <3>3, <3>5 DEF Ways
      <3>7. g[p] \notin Ways(F, s, w)
        <4>1. Len(p) \in 1 .. Len(g[p]) - 1
          BY <3>1, <3>2
        <4> QED
          BY <1>g, <4>1, <3>4 DEF Ways
      <3> QED
        BY <3>1, <3>2, <3>6, <3>7
    <2>2. ASSUME NEW p \in T, NEW q \in T, g[p] = g[q]
          PROVE  p = q
      <3>1. Len(p) = Len(q) /\ p \in Seq(Accounts) /\ q \in Seq(Accounts)
        BY <2>1, <2>2
      <3>2. \A i \in 1 .. Len(p) : p[i] = q[i]
        BY <2>1, <2>2, <3>1
      <3> QED
        BY <3>1, <3>2, SeqEqual
    <2>3. ASSUME NEW q \in Ways(G, s, w), q \notin Ways(F, s, w)
          PROVE  \E p \in T : q = g[p]
      <3>1. /\ q \in Seq(Accounts) /\ Len(q) \in Nat \ {0} /\ q[1] = s /\ q[Len(q)] = w
            /\ \A i \in 1 .. Len(q) - 1 : <<q[i], q[i + 1]>> \in G
            /\ \A i \in 1 .. Len(q) : q[i] \in Accounts
        BY WayIs
      <3>2. \E i \in 1 .. Len(q) - 1 : <<q[i], q[i + 1]>> \notin F
        BY <2>3, <3>1 DEF Ways
      <3>3. \A i \in 1 .. Len(q) - 1 : i + 1 # Len(q) => <<q[i], q[i + 1]>> \in F
        BY <1>2
      <3>4. Len(q) - 1 \in 1 .. Len(q) - 1 /\ (Len(q) - 1) + 1 = Len(q)
            /\ <<q[Len(q) - 1], q[Len(q)]>> \notin F
        <4>1. PICK i \in 1 .. Len(q) - 1 : <<q[i], q[i + 1]>> \notin F
          BY <3>2
        <4>2. i + 1 = Len(q)
          BY <3>3, <4>1
        <4>3. i = Len(q) - 1
          BY <3>1, <4>2
        <4> QED
          BY <3>1, <4>1, <4>3
      <3>5. q[Len(q) - 1] = v
        BY <1>g, <3>1, <3>4
      <3> DEFINE n == Len(q) - 1
                 p == SubSeq(q, 1, n)
      <3>6. n \in 1 .. Len(q) /\ n \in Nat \ {0}
        <4>1. Len(q) \in Nat \ {0}
          BY <3>1
        <4> QED
          BY Zenon, <3>4, <4>1, OneLess
      <3>7. p \in Seq(Accounts) /\ Len(p) = n /\ \A i \in 1 .. n : p[i] = q[i]
        <4> HIDE DEF n
        <4> QED
          BY <3>1, <3>6, Cut
      <3> HIDE DEF p
      <3>8. p[1] = s /\ p[Len(p)] = v
        BY <3>1, <3>5, <3>6, <3>7
      <3>9. ASSUME NEW i \in 1 .. Len(p) - 1
            PROVE  <<p[i], p[i + 1]>> \in F
        <4>1. i \in 1 .. Len(q) - 1 /\ i + 1 # Len(q) /\ i \in 1 .. n /\ i + 1 \in 1 .. n
          BY <3>1, <3>7
        <4> QED
          BY <3>3, <3>7, <4>1
      <3>10. p \in T
        BY <3>6, <3>7, <3>8, <3>9 DEF Ways
      <3>11. q = Append(p, w)
        <4>1. Append(p, w) \in Seq(Accounts) /\ Len(Append(p, w)) = n + 1 /\ n + 1 = Len(q)
          BY <3>1, <3>7, <1>0
        <4>2. \A i \in 1 .. n + 1 : Append(p, w)[i] = IF i = n + 1 THEN w ELSE p[i]
          BY <3>7, <3>6, <1>0
        <4>3. \A i \in 1 .. Len(q) : Append(p, w)[i] = q[i]
          BY <4>1, <4>2, <3>1, <3>7
        <4> QED
          BY <4>1, <4>3, <3>1, SeqEqual
      <3> QED
        BY <3>10, <3>11
    <2>4. IsFiniteSet(Ways(F, s, w)) /\ IsFiniteSet(T)
      BY <1>0, WaysFinite
    <2>5. Ways(G, s, w) = Ways(F, s, w) \cup {g[p] : p \in T}
      <3> HIDE DEF g, T
      <3> QED
        BY <1>1, <2>1, <2>3
    <2>6. (\A x, y \in T : g[x] = g[y] => x = y) /\ \A x \in T : g[x] \notin Ways(F, s, w)
      BY <2>1, <2>2
    <2>7. T = Ways(F, s, v)
      OBVIOUS
    <2> HIDE DEF g, T
    <2>8. Cardinality(Ways(G, s, w)) = Cardinality(Ways(F, s, w)) + Cardinality(T)
      <3>1. PICK a : a = Ways(F, s, w)
        OBVIOUS
      <3>2. PICK r : r = Ways(G, s, w)
        OBVIOUS
      <3>3. IsFiniteSet(a) /\ \A x \in T : g[x] \notin a
        BY <2>4, <2>6, <3>1
      <3>4. r = a \cup {g[x] : x \in T}
        BY <2>5, <3>1, <3>2
      <3>5. Cardinality(r) = Cardinality(a) + Cardinality(T)
        BY <2>4, <2>6, <3>3, <3>4, AddImage
      <3> QED
        BY <3>1, <3>2, <3>5
    <2> QED
      BY <2>7, <2>8
  <1> QED
    BY <1>4

(* A sequence with an element put in front.                                *)
LEMMA Prepended ==
  ASSUME NEW T, NEW q \in Seq(T), NEW x \in T
  PROVE  /\ <<x>> \o q \in Seq(T) /\ Len(<<x>> \o q) = Len(q) + 1 /\ Len(q) \in Nat
         /\ (<<x>> \o q)[1] = x /\ \A i \in 1 .. Len(q) : (<<x>> \o q)[i + 1] = q[i]
  OBVIOUS

(* The paths whose second account is one of P.                             *)
Via(F, P, v, t) == {p \in Ways(F, v, t) : Len(p) >= 2 /\ p[2] \in P}

(* These are finitely many, and none from an account to itself.            *)
LEMMA ViaIs ==
  ASSUME NetworkAssumption, NEW F, NEW d, Steep(F, d), NEW P, NEW v \in Accounts, NEW t
  PROVE  /\ IsFiniteSet(Via(F, P, v, t)) /\ Cardinality(Via(F, P, v, t)) \in Nat
         /\ Via(F, P, v, v) = {} /\ Cardinality(Via(F, P, v, v)) = 0
         /\ P = {} => Via(F, P, v, t) = {} /\ Cardinality(Via(F, P, v, t)) = 0
  <1>1. IsFiniteSet(Ways(F, v, t))
    BY WaysFinite
  <1>2. Via(F, P, v, t) \subseteq Ways(F, v, t)
    BY DEF Via
  <1>3. IsFiniteSet(Via(F, P, v, t)) /\ Cardinality(Via(F, P, v, t)) \in Nat
    BY <1>1, <1>2, FS_Subset, FS_CardinalityType
  <1>4. Via(F, P, v, v) = {}
    <2>1. Ways(F, v, v) = {<<v>>} /\ Len(<<v>>) = 1
      BY WaysSelf
    <2> QED
      BY <2>1 DEF Via
  <1>5. P = {} => Via(F, P, v, t) = {}
    BY DEF Via
  <1> QED
    BY <1>3, <1>4, <1>5, FS_EmptySet

(* Whatever leaves v leads to one of them.                                 *)
LEMMA ViaAll ==
  ASSUME NEW F, NEW d, Steep(F, d), NEW P, NEW v, NEW t, v # t, \A x \in Accounts : <<v, x>> \in F => x \in P
  PROVE  Via(F, P, v, t) = Ways(F, v, t)
  <1>1. ASSUME NEW p \in Ways(F, v, t)
        PROVE  Len(p) >= 2 /\ p[2] \in P
    <2>1. Len(p) >= 2
      BY WaysDown
    <2>2. Len(p) \in Nat /\ p[1] = v /\ \A i \in 1 .. Len(p) - 1 : <<p[i], p[i + 1]>> \in F
      BY WayIs
    <2>3. 1 \in 1 .. Len(p) - 1 /\ 1 + 1 = 2
      BY <2>1, <2>2
    <2>4. <<v, p[2]>> \in F /\ p[2] \in Accounts
      BY <2>2, <2>3 DEF Steep
    <2> QED
      BY <2>1, <2>4
  <1> QED
    BY <1>1 DEF Via

(* One more account through which paths may begin.                         *)
LEMMA ViaGrow ==
  ASSUME NetworkAssumption, NEW F, NEW d, Steep(F, d), NEW P, NEW w \in Accounts, w \notin P,
         NEW Q, Q = P \cup {w}, NEW v \in Accounts, NEW t
  PROVE  Cardinality(Via(F, Q, v, t))
           = Cardinality(Via(F, P, v, t))
               + (IF <<v, w>> \in F THEN Cardinality(Ways(F, w, t)) ELSE 0)
  <1> DEFINE T == Ways(F, w, t)
             g == [q \in T |-> <<v>> \o q]
  <1>0. Via(F, P, v, t) \subseteq Via(F, Q, v, t)
    BY DEF Via
  <1>1. ASSUME NEW p \in Via(F, Q, v, t), p \notin Via(F, P, v, t)
        PROVE  <<v, w>> \in F /\ \E q \in T : p = g[q]
    <2>1. p \in Ways(F, v, t) /\ Len(p) >= 2 /\ p[2] = w
      BY <1>1 DEF Via
    <2>2. /\ p \in Seq(Accounts) /\ Len(p) \in Nat \ {0} /\ p[1] = v /\ p[Len(p)] = t
          /\ \A i \in 1 .. Len(p) - 1 : <<p[i], p[i + 1]>> \in F
      BY <2>1, WayIs
    <2>3. 1 \in 1 .. Len(p) - 1 /\ 1 \in 1 .. Len(p) /\ 1 + 1 = 2
      BY <2>1, <2>2
    <2>4. <<v, w>> \in F
      BY <2>1, <2>2, <2>3
    <2> DEFINE q == SubSeq(p, 2, Len(p))
               n == Len(p) - 1
    <2>5. q \in Seq(Accounts) /\ Len(q) = n /\ \A i \in 1 .. n : q[i] = p[i + 1]
      <3>1. /\ SubSeq(p, 1 + 1, Len(p)) \in Seq(Accounts) /\ Len(SubSeq(p, 1 + 1, Len(p))) = Len(p) - 1
            /\ \A i \in 1 .. Len(p) - 1 : SubSeq(p, 1 + 1, Len(p))[i] = p[1 + i]
        BY <2>2, <2>3, Cut
      <3>2. \A i \in 1 .. n : 1 + i = i + 1
        BY <2>2
      <3> QED
        BY <2>3, <3>1, <3>2
    <2> HIDE DEF q
    <2>6. n \in Nat \ {0} /\ n + 1 = Len(p)
      BY <2>1, <2>2
    <2>7. q[1] = w /\ q[Len(q)] = t
      BY <2>1, <2>2, <2>5, <2>6
    <2>8. ASSUME NEW i \in 1 .. Len(q) - 1
          PROVE  <<q[i], q[i + 1]>> \in F
      <3>1. i + 1 \in 1 .. Len(p) - 1 /\ i \in 1 .. n /\ i + 1 \in 1 .. n
        BY <2>2, <2>5
      <3> QED
        BY <2>2, <2>5, <3>1
    <2>9. q \in T
      BY <2>5, <2>6, <2>7, <2>8 DEF Ways
    <2>10. p = <<v>> \o q
      <3> DEFINE r == <<v>> \o q
      <3>1. /\ r \in Seq(Accounts) /\ Len(r) = Len(q) + 1 /\ r[1] = v
            /\ \A i \in 1 .. Len(q) : r[i + 1] = q[i]
        BY <2>5, Prepended
      <3> HIDE DEF r
      <3>2. ASSUME NEW i \in 1 .. Len(p)
            PROVE  p[i] = r[i]
        <4>1. CASE i = 1
          BY <2>2, <3>1, <4>1
        <4>2. CASE i # 1
          <5>1. i - 1 \in 1 .. n /\ (i - 1) + 1 = i
            BY <2>2, <4>2
          <5>2. r[(i - 1) + 1] = q[i - 1] /\ q[i - 1] = p[(i - 1) + 1]
            BY <2>5, <3>1, <5>1
          <5> QED
            BY <5>1, <5>2
        <4> QED
          BY <4>1, <4>2
      <3>3. Len(r) = Len(p)
        BY <2>5, <2>6, <3>1
      <3>4. p = r
        BY <2>2, <3>1, <3>2, <3>3, SeqEqual
      <3> QED
        BY <3>4 DEF r
    <2> QED
      BY <2>4, <2>9, <2>10
  <1>2. CASE <<v, w>> \notin F
    <2>1. Via(F, Q, v, t) = Via(F, P, v, t)
      BY <1>0, <1>1, <1>2
    <2>2. Cardinality(Via(F, P, v, t)) \in Nat
      BY ViaIs
    <2> QED
      BY <1>2, <2>1, <2>2
  <1>3. CASE <<v, w>> \in F
    <2>1. ASSUME NEW q \in T
          PROVE  /\ g[q] \in Via(F, Q, v, t) /\ g[q] \notin Via(F, P, v, t)
                 /\ q \in Seq(Accounts) /\ Len(q) \in Nat /\ Len(g[q]) = Len(q) + 1
                 /\ \A i \in 1 .. Len(q) : g[q][i + 1] = q[i]
      <3>1. /\ q \in Seq(Accounts) /\ Len(q) \in Nat \ {0} /\ q[1] = w /\ q[Len(q)] = t
            /\ \A i \in 1 .. Len(q) - 1 : <<q[i], q[i + 1]>> \in F
        BY WayIs
      <3>2. /\ g[q] \in Seq(Accounts) /\ Len(g[q]) = Len(q) + 1 /\ g[q][1] = v
            /\ \A i \in 1 .. Len(q) : g[q][i + 1] = q[i]
        BY <3>1, Prepended
      <3> HIDE DEF g
      <3>3. g[q][2] = w /\ g[q][Len(g[q])] = t /\ Len(g[q]) >= 2
        <4>1. 1 \in 1 .. Len(q) /\ Len(q) \in 1 .. Len(q) /\ 1 + 1 = 2
          BY <3>1
        <4> QED
          BY <3>1, <3>2, <4>1
      <3>4. ASSUME NEW i \in 1 .. Len(g[q]) - 1
            PROVE  <<g[q][i], g[q][i + 1]>> \in F
        <4>1. CASE i = 1
          BY <1>3, <3>2, <3>3, <4>1
        <4>2. CASE i # 1
          <5>1. i - 1 \in 1 .. Len(q) - 1 /\ i - 1 \in 1 .. Len(q) /\ i \in 1 .. Len(q) /\ (i - 1) + 1 = i
            BY <3>1, <3>2, <4>2
          <5>2. g[q][(i - 1) + 1] = q[i - 1] /\ g[q][i + 1] = q[i] /\ <<q[i - 1], q[(i - 1) + 1]>> \in F
            BY <3>1, <3>2, <5>1
          <5> QED
            BY <5>1, <5>2
        <4> QED
          BY <4>1, <4>2
      <3>5. g[q] \in Ways(F, v, t)
        BY <3>2, <3>3, <3>4 DEF Ways
      <3> QED
        BY <3>1, <3>2, <3>3, <3>5 DEF Via
    <2>2. ASSUME NEW x \in T, NEW y \in T, g[x] = g[y]
          PROVE  x = y
      <3>1. Len(x) = Len(y) /\ x \in Seq(Accounts) /\ y \in Seq(Accounts)
        BY <2>1, <2>2
      <3>2. \A i \in 1 .. Len(x) : x[i] = y[i]
        BY <2>1, <2>2, <3>1
      <3> QED
        BY <3>1, <3>2, SeqEqual
    <2>3. IsFiniteSet(Via(F, P, v, t)) /\ IsFiniteSet(T)
      BY WaysFinite, ViaIs
    <2>4. PICK a : a = Via(F, P, v, t)
      OBVIOUS
    <2>5. PICK r : r = Via(F, Q, v, t)
      OBVIOUS
    <2>6. T = Ways(F, w, t)
      OBVIOUS
    <2> HIDE DEF g, T
    <2>7. r = a \cup {g[q] : q \in T} /\ \A x \in T : g[x] \notin a
      <3>1. \A x \in T : g[x] \in r /\ g[x] \notin a
        BY Zenon, <2>1, <2>4, <2>5
      <3>2. \A x \in a : x \in r
        BY <1>0, <2>4, <2>5
      <3>3. \A x \in r : x \in a \/ \E q \in T : x = g[q]
        BY <1>0, <1>1, <2>4, <2>5
      <3> QED
        BY <3>1, <3>2, <3>3
    <2>8. Cardinality(r) = Cardinality(a) + Cardinality(T)
      BY <2>2, <2>3, <2>4, <2>7, AddImage
    <2> QED
      BY <1>3, <2>4, <2>5, <2>6, <2>8
  <1> QED
    BY <1>2, <1>3

(* Two paths that meet, as one.                                            *)
LEMMA Joined ==
  ASSUME NEW T, NEW a \in Seq(T), NEW b \in Seq(T), Len(a) >= 1, Len(b) >= 1, a[Len(a)] = b[1]
  PROVE  /\ a \o Tail(b) \in Seq(T) /\ Len(a \o Tail(b)) = Len(a) + Len(b) - 1
         /\ Len(a) \in Nat \ {0} /\ Len(b) \in Nat \ {0}
         /\ \A i \in 1 .. Len(a) : (a \o Tail(b))[i] = a[i]
         /\ \A i \in 1 .. Len(b) : (a \o Tail(b))[Len(a) + i - 1] = b[i]
  <1>1. Len(a) \in Nat \ {0} /\ Len(b) \in Nat \ {0}
    OBVIOUS
  <1>2. /\ Tail(b) \in Seq(T) /\ Len(Tail(b)) = Len(b) - 1
        /\ \A i \in 1 .. Len(b) - 1 : Tail(b)[i] = b[i + 1]
    BY <1>1
  <1> DEFINE c == Tail(b)
  <1> HIDE DEF c
  <1>3. /\ a \o c \in Seq(T) /\ Len(a \o c) = Len(a) + Len(b) - 1
        /\ \A i \in 1 .. Len(a) : (a \o c)[i] = a[i]
        /\ \A i \in 1 .. Len(c) : (a \o c)[Len(a) + i] = c[i]
    BY <1>1, <1>2 DEF c
  <1>4. ASSUME NEW i \in 1 .. Len(b)
        PROVE  (a \o c)[Len(a) + i - 1] = b[i]
    <2>1. CASE i = 1
      <3>1. Len(a) + i - 1 = Len(a) /\ Len(a) \in 1 .. Len(a)
        BY <1>1, <2>1
      <3> QED
        BY <1>3, <2>1, <3>1
    <2>2. CASE i # 1
      <3>1. i - 1 \in 1 .. Len(c) /\ i - 1 \in 1 .. Len(b) - 1 /\ (i - 1) + 1 = i
            /\ Len(a) + i - 1 = Len(a) + (i - 1)
        BY <1>1, <1>2, <2>2 DEF c
      <3>2. (a \o c)[Len(a) + (i - 1)] = c[i - 1] /\ c[i - 1] = b[(i - 1) + 1]
        BY <1>2, <1>3, <3>1 DEF c
      <3> QED
        BY <3>1, <3>2
    <2> QED
      BY <2>1, <2>2
  <1> QED
    BY <1>1, <1>3, <1>4 DEF c

(* A path through v is a path to v and one from there on.                  *)
Through(F, s, v, t) == {p \in Ways(F, s, t) : \E i \in 1 .. Len(p) : p[i] = v}

(* They are made of a path to v and one from v on.                         *)
LEMMA ThroughIs ==
  ASSUME NetworkAssumption, NEW F, NEW d, Steep(F, d), NEW s, NEW v, NEW t
  PROVE  /\ IsFiniteSet(Through(F, s, v, t))
         /\ Cardinality(Through(F, s, v, t))
              = Cardinality(Ways(F, s, v)) * Cardinality(Ways(F, v, t))
  <1> DEFINE T == Ways(F, s, v) \X Ways(F, v, t)
             g == [e \in T |-> e[1] \o Tail(e[2])]
  <1>1. ASSUME NEW e \in T
        PROVE  /\ g[e] \in Through(F, s, v, t)
               /\ e[1] \in Seq(Accounts) /\ e[2] \in Seq(Accounts)
               /\ Len(e[1]) \in Nat \ {0} /\ Len(e[2]) \in Nat \ {0}
               /\ d[s] \in Int /\ d[v] \in Int /\ d[t] \in Int
               /\ d[v] = d[s] + Len(e[1]) - 1 /\ d[t] = d[v] + Len(e[2]) - 1
               /\ \A i \in 1 .. Len(e[1]) : g[e][i] = e[1][i]
               /\ \A i \in 1 .. Len(e[2]) : g[e][Len(e[1]) + i - 1] = e[2][i]
    <2>1. PICK a \in Ways(F, s, v), b \in Ways(F, v, t) : e = <<a, b>> /\ e[1] = a /\ e[2] = b
      OBVIOUS
    <2>a. /\ a \in Seq(Accounts) /\ Len(a) \in Nat \ {0} /\ a[1] = s /\ a[Len(a)] = v
          /\ \A i \in 1 .. Len(a) - 1 : <<a[i], a[i + 1]>> \in F
      BY WayIs
    <2>b. /\ b \in Seq(Accounts) /\ Len(b) \in Nat \ {0} /\ b[1] = v /\ b[Len(b)] = t
          /\ \A i \in 1 .. Len(b) - 1 : <<b[i], b[i + 1]>> \in F
      BY WayIs
    <2>c. d[s] \in Int /\ d[v] = d[s] + Len(a) - 1 /\ d[v] \in Int /\ d[t] = d[v] + Len(b) - 1
      BY Levels
    <2> DEFINE p == a \o Tail(b)
    <2>2. /\ p \in Seq(Accounts) /\ Len(p) = Len(a) + Len(b) - 1
          /\ \A i \in 1 .. Len(a) : p[i] = a[i]
          /\ \A i \in 1 .. Len(b) : p[Len(a) + i - 1] = b[i]
      BY <2>a, <2>b, Joined
    <2>3. g[e] = p
      BY <2>1
    <2> HIDE DEF g, p
    <2>4. p[1] = s /\ p[Len(p)] = t /\ Len(p) >= 1 /\ Len(p) \in Nat
      <3>1. 1 \in 1 .. Len(a) /\ Len(b) \in 1 .. Len(b)
        BY <2>a, <2>b
      <3>2. p[1] = a[1] /\ p[Len(a) + Len(b) - 1] = b[Len(b)]
        BY <2>2, <3>1
      <3>3. p[1] = s /\ p[Len(p)] = t
        BY Zenon, <2>a, <2>b, <2>2, <3>2
      <3>4. Len(p) >= 1 /\ Len(p) \in Nat
        BY <2>a, <2>b, <2>2
      <3> QED
        BY <3>3, <3>4
    <2>5. ASSUME NEW i \in 1 .. Len(p) - 1
          PROVE  <<p[i], p[i + 1]>> \in F
      <3>1. CASE i < Len(a)
        <4>1. i \in 1 .. Len(a) - 1 /\ i \in 1 .. Len(a) /\ i + 1 \in 1 .. Len(a)
          BY <2>a, <3>1
        <4> QED
          BY <2>a, <2>2, <4>1
      <3>2. CASE ~(i < Len(a))
        <4> DEFINE j == i - Len(a) + 1
        <4>1. /\ j \in 1 .. Len(b) - 1 /\ j \in 1 .. Len(b) /\ j + 1 \in 1 .. Len(b)
              /\ Len(a) + j - 1 = i /\ Len(a) + (j + 1) - 1 = i + 1
          BY <2>a, <2>b, <2>2, <3>2
        <4> HIDE DEF j
        <4>2. p[Len(a) + j - 1] = b[j] /\ p[Len(a) + (j + 1) - 1] = b[j + 1]
          BY <2>2, <4>1
        <4> QED
          BY <2>b, <4>1, <4>2
      <3> QED
        BY <3>1, <3>2
    <2>6. p \in Ways(F, s, t)
      BY <2>2, <2>4, <2>5 DEF Ways
    <2>7. Len(a) \in 1 .. Len(p) /\ Len(a) \in 1 .. Len(a) /\ p[Len(a)] = v
      <3>1. Len(a) \in 1 .. Len(p) /\ Len(a) \in 1 .. Len(a)
        BY <2>a, <2>b, <2>2
      <3> QED
        BY <2>a, <2>2, <3>1
    <2>8. p \in Through(F, s, v, t)
      BY <2>6, <2>7 DEF Through
    <2>9. d[t] \in Int
      BY <2>b, <2>c
    <2> QED
      BY <2>1, <2>a, <2>b, <2>c, <2>2, <2>3, <2>8, <2>9
  <1>2. ASSUME NEW x \in T, NEW y \in T, g[x] = g[y]
        PROVE  x = y
    <2>x. /\ x[1] \in Seq(Accounts) /\ x[2] \in Seq(Accounts)
          /\ Len(x[1]) \in Nat \ {0} /\ Len(x[2]) \in Nat \ {0}
          /\ d[s] \in Int /\ d[v] \in Int /\ d[t] \in Int
          /\ d[v] = d[s] + Len(x[1]) - 1 /\ d[t] = d[v] + Len(x[2]) - 1
          /\ \A i \in 1 .. Len(x[1]) : g[x][i] = x[1][i]
          /\ \A i \in 1 .. Len(x[2]) : g[x][Len(x[1]) + i - 1] = x[2][i]
      BY <1>1
    <2>y. /\ y[1] \in Seq(Accounts) /\ y[2] \in Seq(Accounts)
          /\ Len(y[1]) \in Nat \ {0} /\ Len(y[2]) \in Nat \ {0}
          /\ d[v] = d[s] + Len(y[1]) - 1 /\ d[t] = d[v] + Len(y[2]) - 1
          /\ \A i \in 1 .. Len(y[1]) : g[y][i] = y[1][i]
          /\ \A i \in 1 .. Len(y[2]) : g[y][Len(y[1]) + i - 1] = y[2][i]
      BY <1>1
    <2>1. Len(x[1]) = Len(y[1]) /\ Len(x[2]) = Len(y[2])
      <3> HIDE DEF g
      <3>0. d[s] \in Int /\ d[v] \in Int /\ d[t] \in Int
        BY <2>x
      <3>1. Len(x[1]) \in Nat \ {0} /\ Len(y[1]) \in Nat \ {0}
        BY <2>x, <2>y
      <3>2. Len(x[2]) \in Nat \ {0} /\ Len(y[2]) \in Nat \ {0}
        BY <2>x, <2>y
      <3>3. d[v] = d[s] + Len(x[1]) - 1 /\ d[v] = d[s] + Len(y[1]) - 1
        BY <2>x, <2>y
      <3>4. d[t] = d[v] + Len(x[2]) - 1 /\ d[t] = d[v] + Len(y[2]) - 1
        BY <2>x, <2>y
      <3>5. Len(x[1]) = Len(y[1])
        BY <3>0, <3>1, <3>3
      <3>6. Len(x[2]) = Len(y[2])
        BY <3>0, <3>2, <3>4
      <3> QED
        BY <3>5, <3>6
    <2> HIDE DEF g
    <2>2. \A i \in 1 .. Len(x[1]) : x[1][i] = y[1][i]
      BY <1>2, <2>x, <2>y, <2>1
    <2>3. \A i \in 1 .. Len(x[2]) : x[2][i] = y[2][i]
      BY <1>2, <2>x, <2>y, <2>1
    <2>4. x[1] = y[1] /\ x[2] = y[2]
      BY <2>x, <2>y, <2>1, <2>2, <2>3, SeqEqual
    <2> QED
      BY <2>4
  <1>3. ASSUME NEW p \in Through(F, s, v, t)
        PROVE  \E e \in T : p = g[e]
    <2>1. p \in Ways(F, s, t) /\ \E i \in 1 .. Len(p) : p[i] = v
      BY DEF Through
    <2>2. PICK i \in 1 .. Len(p) : p[i] = v
      BY <2>1
    <2>3. /\ p \in Seq(Accounts) /\ Len(p) \in Nat \ {0} /\ p[1] = s /\ p[Len(p)] = t
          /\ \A j \in 1 .. Len(p) - 1 : <<p[j], p[j + 1]>> \in F
          /\ \A j \in 1 .. Len(p) : p[j] \in Accounts
      BY <2>1, WayIs
    <2> DEFINE a == SubSeq(p, 1, i)
               r == SubSeq(p, i + 1, Len(p))
               b == <<v>> \o r
    <2>4. /\ a \in Seq(Accounts) /\ Len(a) = i /\ \A j \in 1 .. i : a[j] = p[j]
          /\ r \in Seq(Accounts) /\ Len(r) = Len(p) - i /\ \A j \in 1 .. Len(p) - i : r[j] = p[i + j]
      BY <2>3, Cut
    <2> HIDE DEF a, r
    <2>5. /\ b \in Seq(Accounts) /\ Len(b) = Len(r) + 1 /\ b[1] = v
          /\ \A j \in 1 .. Len(r) : b[j + 1] = r[j]
      <3>1. v \in Accounts
        BY <2>2, <2>3
      <3>2. r \in Seq(Accounts)
        BY <2>4
      <3> QED
        BY <3>1, <3>2, Prepended
    <2> HIDE DEF b
    <2>6. Len(b) = Len(p) - i + 1 /\ \A j \in 1 .. Len(b) : b[j] = p[i + j - 1]
      <3>1. Len(b) = Len(p) - i + 1
        BY <2>3, <2>4, <2>5
      <3>2. ASSUME NEW j \in 1 .. Len(b)
            PROVE  b[j] = p[i + j - 1]
        <4>1. CASE j = 1
          BY <2>2, <2>5, <4>1
        <4>2. CASE j # 1
          <5>1. /\ j - 1 \in 1 .. Len(r) /\ j - 1 \in 1 .. Len(p) - i /\ (j - 1) + 1 = j
                /\ i + (j - 1) = i + j - 1
            BY <2>3, <2>4, <2>5, <4>2
          <5>2. b[(j - 1) + 1] = r[j - 1] /\ r[j - 1] = p[i + (j - 1)]
            BY <2>4, <2>5, <5>1
          <5> QED
            BY <5>1, <5>2
        <4> QED
          BY <4>1, <4>2
      <3> QED
        BY <3>1, <3>2
    <2>7. a \in Ways(F, s, v)
      <3>1. a[1] = s /\ a[Len(a)] = v /\ Len(a) >= 1
        BY <2>2, <2>3, <2>4
      <3>2. ASSUME NEW j \in 1 .. Len(a) - 1
            PROVE  <<a[j], a[j + 1]>> \in F
        <4>1. j \in 1 .. i /\ j + 1 \in 1 .. i /\ j \in 1 .. Len(p) - 1
          BY <2>3, <2>4
        <4> QED
          BY <2>3, <2>4, <4>1
      <3> QED
        BY <2>4, <3>1, <3>2 DEF Ways
    <2>8. b \in Ways(F, v, t)
      <3>1. b[Len(b)] = t /\ Len(b) >= 1
        <4>1. Len(b) \in 1 .. Len(b) /\ i + Len(b) - 1 = Len(p) /\ Len(b) >= 1
          BY <2>3, <2>6
        <4>2. b[Len(b)] = p[i + Len(b) - 1]
          BY <2>6, <4>1
        <4> QED
          BY <2>3, <4>1, <4>2
      <3>2. ASSUME NEW j \in 1 .. Len(b) - 1
            PROVE  <<b[j], b[j + 1]>> \in F
        <4>1. /\ j \in 1 .. Len(b) /\ j + 1 \in 1 .. Len(b) /\ i + j - 1 \in 1 .. Len(p) - 1
              /\ i + (j + 1) - 1 = (i + j - 1) + 1
          BY <2>3, <2>6
        <4>2. b[j] = p[i + j - 1] /\ b[j + 1] = p[i + (j + 1) - 1]
          BY <2>6, <4>1
        <4>3. <<p[i + j - 1], p[(i + j - 1) + 1]>> \in F
          BY <2>3, <4>1
        <4> QED
          BY <4>1, <4>2, <4>3
      <3> QED
        BY <2>5, <3>1, <3>2 DEF Ways
    <2>9. p = a \o Tail(b)
      <3> DEFINE c == a \o Tail(b)
      <3>1. Len(a) >= 1 /\ Len(b) >= 1 /\ a[Len(a)] = b[1]
        BY <2>2, <2>3, <2>4, <2>5, <2>6
      <3>2. /\ c \in Seq(Accounts) /\ Len(c) = Len(a) + Len(b) - 1
            /\ \A j \in 1 .. Len(a) : c[j] = a[j]
            /\ \A j \in 1 .. Len(b) : c[Len(a) + j - 1] = b[j]
        <4>1. a \in Seq(Accounts) /\ b \in Seq(Accounts)
          BY <2>4, <2>5
        <4> QED
          BY <3>1, <4>1, Joined
      <3> HIDE DEF c
      <3>3. ASSUME NEW k \in 1 .. Len(p)
            PROVE  p[k] = c[k]
        <4>1. CASE k <= i
          BY <2>4, <3>2, <4>1
        <4>2. CASE ~(k <= i)
          <5> DEFINE j == k - i + 1
          <5>1. j \in 1 .. Len(b) /\ i + j - 1 = k
            BY <2>3, <2>6, <4>2
          <5> HIDE DEF j
          <5>2. c[Len(a) + j - 1] = b[j] /\ b[j] = p[i + j - 1]
            BY <2>6, <3>2, <5>1
          <5> QED
            BY <2>4, <5>1, <5>2
        <4> QED
          BY <4>1, <4>2
      <3>4. Len(c) = Len(p)
        BY <2>3, <2>4, <2>6, <3>2
      <3>5. p = c
        BY <2>3, <3>2, <3>3, <3>4, SeqEqual
      <3> QED
        BY <3>5 DEF c
    <2>10. <<a, b>> \in T /\ g[<<a, b>>] = a \o Tail(b)
      BY <2>7, <2>8
    <2> HIDE DEF g, T
    <2> QED
      BY <2>9, <2>10
  <1>4. IsFiniteSet(Ways(F, s, v)) /\ IsFiniteSet(Ways(F, v, t))
    BY WaysFinite
  <1>5. IsFiniteSet(T) /\ Cardinality(T) = Cardinality(Ways(F, s, v)) * Cardinality(Ways(F, v, t))
    <2>1. PICK a : a = Ways(F, s, v)
      OBVIOUS
    <2>2. PICK b : b = Ways(F, v, t)
      OBVIOUS
    <2>3. IsFiniteSet(a \X b) /\ Cardinality(a \X b) = Cardinality(a) * Cardinality(b)
      BY <1>4, <2>1, <2>2, FS_Product
    <2> QED
      BY <2>1, <2>2, <2>3
  <1> HIDE DEF T, g
  <1>6. PICK r : r = Through(F, s, v, t)
    OBVIOUS
  <1>7. r = {} \cup {g[e] : e \in T}
    BY <1>1, <1>3, <1>6
  <1>8. IsFiniteSet({}) /\ Cardinality({}) = 0 /\ Cardinality(T) \in Nat
    BY <1>5, FS_EmptySet, FS_CardinalityType
  <1>9. IsFiniteSet(r) /\ Cardinality(r) = Cardinality({}) + Cardinality(T)
    BY <1>2, <1>5, <1>7, <1>8, AddImage
  <1> QED
    BY <1>5, <1>6, <1>8, <1>9

-----------------------------------------------------------------------------
(* The search from one source: a transfer is passed when its receiver has  *)
(* been looked at from its sender, and followed if it leads one level      *)
(* further down.                                                           *)
Passed(y, z) ==
  /\ dist[y] >= 0 /\ <<y, z>> \in flows
  /\ \A i \in 1 .. Len(met) : met[i] = y => i < taken \/ (i = taken /\ z \notin toward)
Followed == {e \in flows : Passed(e[1], e[2]) /\ dist[e[2]] = dist[e[1]] + 1}

(* The accounts that have been taken off the stack again.                  *)
Popped == {v \in Accounts : dist[v] >= 0 /\ \A i \in 1 .. Len(met) : met[i] # v}

(* What one shortest path to t is worth, by the numbers c of such paths,   *)
(* and those that go from v into P.                                        *)
Part(c, t) == IF c[t] = 0 THEN 0 ELSE Unit \div c[t]
Worths(F, P, c, v) == [t \in Accounts |-> Part(c, t) * Cardinality(Via(F, P, v, t))]
Worth(F, P, c, v) == SumOver(Worths(F, P, c, v), Accounts)

(* What each source has contributed to the centrality of v.                *)
Rows(v) ==
  [s \in Nodes |-> IF s \in starts \/ (s = origin /\ v \notin Popped) THEN 0 ELSE Shares(v, s)]

RankTyped ==
  /\ flows \subseteq Accounts \X Accounts
  /\ starts \subseteq Nodes /\ (origin = 0 \/ origin \in Nodes \ starts)
  /\ met \in Seq(Accounts) /\ taken \in 0 .. Len(met) /\ toward \subseteq Accounts
  /\ dist \in [Accounts -> Int]
  /\ counts \in [Accounts -> Nat] /\ delta \in [Accounts -> Nat] /\ cb \in [Accounts -> Nat]

(* The stack and the queue hold the accounts met by their levels, those in *)
(* the queue at most one level below the one taken last.                   *)
Queued ==
  /\ \A i \in 1 .. Len(met) : dist[met[i]] >= 0
  /\ \A i, j \in 1 .. Len(met) : i < j => met[i] # met[j] /\ dist[met[i]] <= dist[met[j]]
  /\ IF taken = 0 THEN Len(met) <= 1
     ELSE \A i \in 1 .. Len(met) : dist[met[i]] <= dist[met[taken]] + 1
  /\ toward # {} => taken # 0 /\ toward \subseteq Targets(met[taken])

(* The source alone is at level 0, and at the bottom of the stack.         *)
Rooted ==
  /\ \A v \in Accounts : dist[v] = 0 <=> v = origin
  /\ met # <<>> => met[1] = origin

(* No transfer passed leads more than one level down.                      *)
Widening ==
  \A y, z \in Accounts : Passed(y, z) => dist[z] >= 0 /\ dist[z] <= dist[y] + 1

(* The stack is emptied when the queue is empty, deepest level first.      *)
Emptied ==
  \A v \in Popped : /\ toward = {} /\ taken = Len(met)
                    /\ \A i \in 1 .. Len(met) : dist[met[i]] <= dist[v]

(* Shortest paths are counted, ...                                         *)
Tallied ==
  origin # 0 =>
    \A w \in Accounts : /\ counts[w] = Cardinality(Ways(Followed, origin, w))
                        /\ dist[w] >= 0 => counts[w] >= 1
(* ... dependencies are sums over the accounts taken off the stack, ...    *)
Owed == origin # 0 => \A v \in Accounts : delta[v] = counts[v] * Worth(Followed, Popped, counts, v)
(* ... and centralities are sums over the sources.                         *)
Gathered ==
  \A v \in Nodes : /\ \A s \in Nodes \ {v} : Rows(v)[s] \in Nat
                   /\ cb[v] = SumOver(Rows(v), Nodes \ {v})

RankInv ==
  /\ RankTyped /\ Queued /\ Rooted /\ Widening /\ Emptied
  /\ Tallied /\ Owed /\ Gathered

(* Senders and receivers are finitely many accounts.                       *)
LEMMA NodesIn ==
  ASSUME NetworkAssumption, flows \subseteq Accounts \X Accounts
  PROVE  /\ Nodes \subseteq Accounts /\ IsFiniteSet(Nodes) /\ 0 \notin Accounts
         /\ Cardinality(Accounts) \in Nat /\ IsFiniteSet(Accounts)
         /\ \A e \in flows : e = <<e[1], e[2]>> /\ e[1] \in Nodes /\ e[2] \in Nodes
                             /\ e[1] \in Accounts /\ e[2] \in Accounts
  <1>1. Nodes \subseteq Accounts
    BY DEF Nodes
  <1>2. Cardinality(Accounts) \in Nat /\ IsFiniteSet(Accounts) /\ 0 \notin Accounts
    <2>1. Cardinality(Accounts) \in Nat /\ IsFiniteSet(Accounts)
      BY FS_CardinalityType DEF NetworkAssumption
    <2>2. 0 \notin 1 .. Cardinality(Accounts)
      BY <2>1
    <2> QED
      BY <2>1, <2>2 DEF NetworkAssumption
  <1>3. IsFiniteSet(Nodes)
    BY <1>1, <1>2, FS_Subset
  <1>4. \A e \in flows : e = <<e[1], e[2]>> /\ e[1] \in Nodes /\ e[2] \in Nodes
    BY DEF Nodes
  <1> QED
    BY <1>1, <1>2, <1>3, <1>4

(* A transfer followed leads one level down.                               *)
LEMMA FollowedSteep ==
  ASSUME RankTyped
  PROVE  Steep(Followed, dist) /\ Followed \subseteq flows
  BY DEF RankTyped, Steep, Followed

(* When every account met has been taken, levels are distances.            *)
LEMMA Distances ==
  ASSUME RankTyped, Rooted, Widening, origin \in Accounts, toward = {}, taken = Len(met),
         NEW n \in Nat, NEW q \in [1 .. n -> Accounts], n >= 1, q[1] = origin,
         \A i \in 1 .. n - 1 : <<q[i], q[i + 1]>> \in flows
  PROVE  \A i \in 1 .. n : dist[q[i]] \in Nat /\ dist[q[i]] <= i - 1
  <1> DEFINE T == {i \in 1 .. n : ~(dist[q[i]] \in Nat /\ dist[q[i]] <= i - 1)}
  <1> SUFFICES ASSUME T # {} PROVE FALSE
    OBVIOUS
  <1>1. PICK i \in T : \A j \in T : i <= j
    <2>1. T \in SUBSET (1 .. n)
      OBVIOUS
    <2> HIDE DEF T
    <2> QED
      BY <2>1, Earliest
  <1>2. i # 1
    BY <1>1 DEF Rooted
  <1>3. i - 1 \in 1 .. n /\ i - 1 \in 1 .. n - 1 /\ (i - 1) + 1 = i /\ ~(i <= i - 1) /\ i \in 1 .. n
    BY <1>1, <1>2
  <1>4. dist[q[i - 1]] \in Nat /\ dist[q[i - 1]] <= (i - 1) - 1
    BY <1>1, <1>3
  <1>5. <<q[i - 1], q[i]>> \in flows
    BY <1>3
  <1>6. Passed(q[i - 1], q[i])
    <2>1. \A j \in 1 .. Len(met) : j < taken \/ j = taken
      BY DEF RankTyped
    <2>2. dist[q[i - 1]] >= 0
      BY <1>4
    <2> QED
      BY <1>5, <2>1, <2>2 DEF Passed
  <1>7. dist[q[i]] >= 0 /\ dist[q[i]] <= dist[q[i - 1]] + 1 /\ dist[q[i]] \in Int
    BY <1>3, <1>6 DEF Widening, RankTyped
  <1> QED
    BY <1>1, <1>3, <1>4, <1>7

(* The paths that are tried, spelled out.                                  *)
LEMMA BetweenIs ==
  ASSUME NetworkAssumption, NEW s, NEW t, NEW p
  PROVE  p \in Between(s, t) <=>
           \E n \in 2 .. Cardinality(Accounts) :
             /\ p \in [1 .. n -> Accounts] /\ Len(p) = n /\ DOMAIN p = 1 .. n /\ p \in Seq(Accounts)
             /\ \A a, b \in 1 .. n : p[a] = p[b] => a = b
             /\ p[1] = s /\ p[n] = t
             /\ \A i \in 1 .. n - 1 : <<p[i], p[i + 1]>> \in flows
  <1>0. Cardinality(Accounts) \in Nat
    BY FS_CardinalityType DEF NetworkAssumption
  <1>1. \A n \in 2 .. Cardinality(Accounts) : p \in [1 .. n -> Accounts] =>
          Len(p) = n /\ DOMAIN p = 1 .. n /\ Last(p) = p[n] /\ p \in Seq(Accounts)
    BY <1>0, Lengths
  <1>2. p \in Simple <=> \E n \in 2 .. Cardinality(Accounts) :
          p \in [1 .. n -> Accounts] /\ \A a, b \in DOMAIN p : p[a] = p[b] => a = b
    BY DEF Simple, IsInjective
  <1>3. p \in Between(s, t) <=>
          /\ p \in Simple /\ p[1] = s /\ Last(p) = t
          /\ \A i \in 1 .. Len(p) - 1 : <<p[i], p[i + 1]>> \in flows
    BY DEF Between
  <1> QED
    BY <1>1, <1>2, <1>3

(* When every account met has been taken, the paths counted are the        *)
(* shortest ones.                                                          *)
LEMMA ShortestAre ==
  ASSUME NetworkAssumption, RankTyped, Rooted, Widening, Tallied,
         origin \in Accounts, toward = {}, taken = Len(met),
         NEW t \in Accounts, t # origin
  PROVE  /\ dist[t] >= 0 => Shortest(origin, t) = Ways(Followed, origin, t)
         /\ dist[t] < 0 => Shortest(origin, t) = {}
         /\ \A p \in Shortest(origin, t) : \A i \in 1 .. Len(p) : dist[p[i]] >= 0
  <1>0. /\ Steep(Followed, dist) /\ Followed \subseteq flows /\ origin # 0
        /\ dist[origin] = 0 /\ dist[t] \in Int
    BY FollowedSteep, NodesIn DEF RankTyped, Rooted
  <1>1. ASSUME NEW p \in Between(origin, t)
        PROVE  /\ p \in Seq(Accounts) /\ Len(p) \in Nat /\ Len(p) >= 2
               /\ p[1] = origin /\ p[Len(p)] = t
               /\ \A i \in 1 .. Len(p) : p[i] \in Accounts /\ dist[p[i]] \in Nat /\ dist[p[i]] <= i - 1
               /\ \A i \in 1 .. Len(p) - 1 : <<p[i], p[i + 1]>> \in flows
    <2>1. PICK n \in 2 .. Cardinality(Accounts) :
             /\ p \in [1 .. n -> Accounts] /\ Len(p) = n /\ p \in Seq(Accounts)
             /\ p[1] = origin /\ p[n] = t
             /\ \A i \in 1 .. n - 1 : <<p[i], p[i + 1]>> \in flows
      BY BetweenIs
    <2>2. n \in Nat /\ n >= 2
      BY FS_CardinalityType DEF NetworkAssumption
    <2>3. \A i \in 1 .. n : dist[p[i]] \in Nat /\ dist[p[i]] <= i - 1
      <3>1. n >= 1 /\ p \in [1 .. n -> Accounts]
        BY <2>1, <2>2
      <3> QED
        BY ZenonT(20), <2>1, <2>2, <3>1, Distances
    <2>4. \A i \in 1 .. n : p[i] \in Accounts
      BY <2>1
    <2> QED
      BY Zenon, <2>1, <2>2, <2>3, <2>4
  <1>2. ASSUME NEW p \in Ways(Followed, origin, t)
        PROVE  p \in Between(origin, t) /\ Len(p) = dist[t] + 1
    <2>1. /\ p \in Seq(Accounts) /\ Len(p) \in Nat \ {0} /\ DOMAIN p = 1 .. Len(p)
          /\ p[1] = origin /\ p[Len(p)] = t
          /\ \A i \in 1 .. Len(p) : p[i] \in Accounts
          /\ \A i \in 1 .. Len(p) - 1 : <<p[i], p[i + 1]>> \in Followed
      BY WayIs
    <2>2. /\ \A i \in 1 .. Len(p) : dist[p[i]] = dist[origin] + i - 1
          /\ dist[t] = dist[origin] + Len(p) - 1
      BY <1>0, Levels
    <2>3. Len(p) >= 2
      BY <1>0, WaysDown
    <2>4. \A a, b \in 1 .. Len(p) : p[a] = p[b] => a = b
      <3>1. \A i \in 1 .. Len(p) : dist[p[i]] = i - 1
        BY <1>0, <2>1, <2>2
      <3>2. \A a, b \in Nat : a - 1 = b - 1 => a = b
        OBVIOUS
      <3> QED
        BY <2>1, <3>1, <3>2
    <2>5. p \in [1 .. Len(p) -> Accounts]
      BY <2>1
    <2>6. Len(p) <= Cardinality(Accounts) /\ Cardinality(Accounts) \in Nat
      <3>1. PICK n \in Nat : n = Len(p)
        BY <2>1
      <3>2. n <= Cardinality(Accounts)
        BY <2>4, <2>5, <3>1, ShortPath DEF NetworkAssumption
      <3> QED
        BY <3>1, <3>2, FS_CardinalityType DEF NetworkAssumption
    <2>7. Len(p) \in 2 .. Cardinality(Accounts)
      BY <2>1, <2>3, <2>6
    <2>8. p \in Between(origin, t)
      <3>1. \A i \in 1 .. Len(p) - 1 : <<p[i], p[i + 1]>> \in flows
        BY Zenon, <1>0, <2>1
      <3> QED
        BY ZenonT(20), <2>1, <2>4, <2>5, <2>7, <3>1, BetweenIs
    <2> QED
      BY <1>0, <2>1, <2>2, <2>8
  <1>3. ASSUME NEW p \in Between(origin, t), Len(p) <= dist[t] + 1
        PROVE  p \in Ways(Followed, origin, t)
    <2>0. /\ p \in Seq(Accounts) /\ Len(p) \in Nat /\ Len(p) >= 2
          /\ p[1] = origin /\ p[Len(p)] = t
          /\ \A i \in 1 .. Len(p) : p[i] \in Accounts /\ dist[p[i]] \in Nat /\ dist[p[i]] <= i - 1
          /\ \A i \in 1 .. Len(p) - 1 : <<p[i], p[i + 1]>> \in flows
      BY <1>1
    <2>1. ASSUME NEW i \in 1 .. Len(p) - 1
          PROVE  Passed(p[i], p[i + 1])
      <3>1. \A j \in 1 .. Len(met) : j < taken \/ j = taken
        BY DEF RankTyped
      <3>2. i \in 1 .. Len(p) /\ dist[p[i]] >= 0
        BY <2>0
      <3> QED
        BY <2>0, <3>1, <3>2 DEF Passed
    <2>2. ASSUME NEW i \in 1 .. Len(p) - 1
          PROVE  dist[p[i + 1]] <= dist[p[i]] + 1
      <3>1. i \in 1 .. Len(p) /\ i + 1 \in 1 .. Len(p)
        BY <2>0
      <3> QED
        BY <2>0, <2>1, <3>1 DEF Widening
    <2>3. \A i \in 1 .. Len(p) : dist[p[i]] = i - 1
      <3> DEFINE T == {i \in 1 .. Len(p) : dist[p[i]] # i - 1}
                 h == [i \in T |-> i]
      <3> SUFFICES ASSUME T # {} PROVE FALSE
        OBVIOUS
      <3>1. PICK i \in T : \A j \in T : h[j] <= h[i]
        <4>1. IsFiniteSet(T)
          <5>1. IsFiniteSet(1 .. Len(p))
            BY <2>0, FS_Interval
          <5> QED
            BY <5>1, FS_Subset
        <4>2. \A j \in T : h[j] \in Int
          OBVIOUS
        <4> HIDE DEF T, h
        <4> QED
          BY <4>1, <4>2, Largest
      <3>2. \A j \in T : j <= i
        BY <3>1
      <3>3. i # Len(p)
        <4>1. Len(p) \in 1 .. Len(p) /\ Len(p) \in Nat
          BY <2>0
        <4>a. dist[p[Len(p)]] <= Len(p) - 1 /\ dist[p[Len(p)]] \in Nat /\ p[Len(p)] = t
          BY Zenon, <2>0, <4>1
        <4>2. dist[t] <= Len(p) - 1 /\ dist[t] \in Int /\ Len(p) \in Nat
          BY <4>1, <4>a
        <4>3. ~(dist[t] < Len(p) - 1)
          BY <1>3, <4>2
        <4>4. dist[t] = Len(p) - 1
          BY <4>2, <4>3
        <4> QED
          BY Zenon, <2>0, <4>4
      <3>4. i \in 1 .. Len(p) - 1 /\ i + 1 \in 1 .. Len(p) /\ ~(i + 1 <= i) /\ i \in 1 .. Len(p)
        BY <2>0, <3>3
      <3>5. dist[p[i + 1]] = (i + 1) - 1 /\ dist[p[i]] # i - 1
        BY <3>2, <3>4
      <3>6. dist[p[i]] \in Nat /\ dist[p[i]] <= i - 1 /\ dist[p[i + 1]] <= dist[p[i]] + 1
        BY <2>0, <2>2, <3>4
      <3> QED
        BY <3>4, <3>5, <3>6
    <2>4. ASSUME NEW i \in 1 .. Len(p) - 1
          PROVE  <<p[i], p[i + 1]>> \in Followed
      <3>1. i \in 1 .. Len(p) /\ i + 1 \in 1 .. Len(p)
        BY <2>0
      <3>2. dist[p[i + 1]] = dist[p[i]] + 1
        BY <2>0, <2>3, <3>1
      <3> QED
        BY <2>0, <2>1, <3>2 DEF Followed
    <2> QED
      BY <2>0, <2>4 DEF Ways
  <1>4. ASSUME dist[t] >= 0
        PROVE  Shortest(origin, t) = Ways(Followed, origin, t)
    <2>1. Cardinality(Ways(Followed, origin, t)) >= 1
      BY <1>0, <1>4 DEF Tallied
    <2>2. PICK r : r \in Ways(Followed, origin, t)
      <3>1. Cardinality({}) = 0
        BY FS_EmptySet
      <3>2. Cardinality(Ways(Followed, origin, t)) # Cardinality({})
        BY <2>1, <3>1
      <3>3. Ways(Followed, origin, t) # {}
        BY Zenon, <3>2
      <3> QED
        BY <3>3
    <2>3. ASSUME NEW p \in Shortest(origin, t)
          PROVE  p \in Ways(Followed, origin, t)
      <3>1. p \in Between(origin, t) /\ Len(p) <= Len(r)
        BY <1>2, <2>2 DEF Shortest
      <3> QED
        BY <1>2, <1>3, <2>2, <3>1
    <2>4. ASSUME NEW p \in Ways(Followed, origin, t), NEW q \in Between(origin, t)
          PROVE  Len(p) <= Len(q)
      <3>1. Len(q) \in Nat /\ q[Len(q)] = t /\ Len(q) \in 1 .. Len(q) /\ dist[q[Len(q)]] <= Len(q) - 1
        BY <1>1
      <3> QED
        BY <1>0, <1>2, <3>1
    <2> QED
      BY <1>2, <2>3, <2>4 DEF Shortest
  <1>5. ASSUME NEW p \in Shortest(origin, t)
        PROVE  dist[t] >= 0 /\ \A i \in 1 .. Len(p) : dist[p[i]] >= 0
    <2>1. p \in Between(origin, t)
      BY DEF Shortest
    <2>2. /\ Len(p) \in Nat /\ Len(p) >= 2 /\ p[Len(p)] = t
          /\ \A i \in 1 .. Len(p) : dist[p[i]] \in Nat
      BY <1>1, <2>1
    <2>3. Len(p) \in 1 .. Len(p)
      BY <2>2
    <2> QED
      BY <2>2, <2>3
  <1>6. dist[t] < 0 => Shortest(origin, t) = {}
    BY <1>0, <1>5
  <1> QED
    BY <1>4, <1>5, <1>6

(* Nothing adds up to nothing.                                             *)
LEMMA SumNothing ==
  ASSUME NEW S, IsFiniteSet(S), NEW w, \A x \in S : w[x] = 0
  PROVE  SumOver(w, S) = 0
  <1>1. \A x \in S : w[x] \in Nat
    OBVIOUS
  <1>2. SumOver(w, {}) = SumOver(w, S)
    BY <1>1, SumZeros
  <1>3. IsFiniteSet({}) /\ \A x \in {} : w[x] \in Nat
    BY FS_EmptySet
  <1>4. SumOver(w, {}) = 0
    BY <1>3, SumParts
  <1> QED
    BY <1>2, <1>4

(* A factor may be taken out of the quotient of a number of paths that     *)
(* divides Unit.                                                           *)
LEMMA DividedOut ==
  \A U \in Nat : \A c \in Nat \ {0} : \A x \in Nat :
    U % c = 0 => (U * x) \div c = (U \div c) * x
  <1> SUFFICES ASSUME NEW U \in Nat, NEW c \in Nat \ {0}, NEW x \in Nat, U % c = 0
               PROVE  (U * x) \div c = (U \div c) * x
    OBVIOUS
  <1>1. U \div c \in Nat /\ U = c * (U \div c)
    OBVIOUS
  <1>2. PICK k \in Nat : k = U \div c
    BY <1>1
  <1>3. \A n \in Nat : (c * n) \div c = n
    OBVIOUS
  <1>4. U * x = c * (k * x) /\ k * x \in Nat
    <2>1. U = c * k
      BY <1>1, <1>2
    <2>2. (c * k) * x = c * (k * x) /\ k * x \in Nat
      OBVIOUS
    <2> QED
      BY <2>1, <2>2
  <1>5. (U * x) \div c = k * x
    BY <1>3, <1>4
  <1> QED
    BY Zenon, <1>2, <1>5

(* And the quotient times the number is Unit again.                        *)
LEMMA Divided ==
  ASSUME NEW U \in Nat, NEW c \in Nat \ {0}, U % c = 0, NEW x \in Nat
  PROVE  /\ U \div c \in Nat /\ U = c * (U \div c)
         /\ (U * x) \div c = (U \div c) * x
  <1>1. U \div c \in Nat /\ U = c * (U \div c)
    OBVIOUS
  <1>2. (U * x) \div c = (U \div c) * x
    BY Zenon, DividedOut
  <1> QED
    BY Zenon, <1>1, <1>2

(* The number of shortest paths to an account divides Unit.                *)
LEMMA PartIs ==
  ASSUME NetworkAssumption, UnitAssumption, RankTyped, Tallied, origin # 0, NEW t \in Accounts
  PROVE  /\ Part(counts, t) \in Nat /\ Unit \in Nat
         /\ counts[t] # 0 => /\ counts[t] \in Nat \ {0} /\ Unit % counts[t] = 0
                             /\ Part(counts, t) = Unit \div counts[t]
  <1>1. Unit \in Nat /\ \A n \in 1 .. Cardinality(SUBSET Accounts) : Unit % n = 0
    BY DEF UnitAssumption
  <1>2. counts[t] \in Nat /\ counts[t] = Cardinality(Ways(Followed, origin, t))
    BY DEF Tallied, RankTyped
  <1>3. Cardinality(Ways(Followed, origin, t)) <= Cardinality(SUBSET Accounts)
    BY FollowedSteep, WaysFinite
  <1>4. Cardinality(SUBSET Accounts) \in Nat
    BY FS_SUBSET, FS_CardinalityType DEF NetworkAssumption
  <1>5. ASSUME counts[t] # 0
        PROVE  counts[t] \in Nat \ {0} /\ Unit % counts[t] = 0
    BY <1>1, <1>2, <1>3, <1>4, <1>5
  <1>6. ASSUME counts[t] # 0
        PROVE  Unit \div counts[t] \in Nat
    BY <1>1, <1>5, <1>6, Divided
  <1> QED
    BY <1>1, <1>5, <1>6 DEF Part

(* The share of an account, when every account met has been taken.         *)
LEMMA ShareIs ==
  ASSUME NetworkAssumption, UnitAssumption, RankTyped, Rooted, Widening, Tallied,
         origin \in Accounts, toward = {}, taken = Len(met),
         NEW v \in Accounts, NEW t \in Accounts, t # origin
  PROVE  Share(v, origin, t) = IF dist[v] < 0 THEN 0
                               ELSE counts[v] * (Part(counts, t) * Cardinality(Ways(Followed, v, t)))
  <1>0. /\ Steep(Followed, dist) /\ origin # 0 /\ dist[origin] = 0
        /\ dist[t] \in Int /\ counts[v] \in Nat /\ dist[v] \in Int
    BY FollowedSteep, NodesIn DEF RankTyped, Rooted
  <1> DEFINE all == Shortest(origin, t)
             through == {p \in all : v \in ToSet(p)}
             m == Cardinality(Ways(Followed, v, t))
  <1>1. m \in Nat
    BY <1>0, WaysFinite
  <1>2. Share(v, origin, t) = IF all = {} THEN 0 ELSE (Unit * Cardinality(through)) \div Cardinality(all)
    BY DEF Share
  <1>3. CASE dist[t] < 0
    <2>1. all = {}
      BY <1>3, ShortestAre
    <2>2. Ways(Followed, origin, t) = {}
      BY <1>0, <1>3, WaysDown
    <2>3. counts[t] = 0
      <3>1. counts[t] = Cardinality(Ways(Followed, origin, t))
        BY <1>0 DEF Tallied
      <3> QED
        BY <2>2, <3>1, FS_EmptySet
    <2>4. Part(counts, t) = 0
      BY <2>3 DEF Part
    <2>5. counts[v] * (0 * m) = 0
      BY <1>0, <1>1
    <2> QED
      BY <1>2, <2>1, <2>4, <2>5
  <1>4. CASE dist[t] >= 0
    <2>1. all = Ways(Followed, origin, t)
      BY <1>4, ShortestAre
    <2>2. counts[t] = Cardinality(all) /\ counts[t] >= 1 /\ counts[t] \in Nat
      BY <1>0, <1>4, <2>1 DEF Tallied, RankTyped
    <2>3. all # {}
      <3>1. Cardinality({}) = 0
        BY FS_EmptySet
      <3>2. Cardinality(all) # Cardinality({})
        BY <2>2, <3>1
      <3> QED
        BY Zenon, <3>2
    <2>4. Share(v, origin, t) = (Unit * Cardinality(through)) \div counts[t]
      BY <1>2, <2>2, <2>3
    <2>5. /\ counts[t] \in Nat \ {0} /\ Unit % counts[t] = 0
          /\ Part(counts, t) = Unit \div counts[t] /\ Unit \in Nat
      <3>1. counts[t] # 0
        BY <2>2
      <3> QED
        BY <1>0, <3>1, PartIs, Zenon
    <2>6. \A p \in all : DOMAIN p = 1 .. Len(p)
      BY <2>1, WayIs
    <2>7. CASE dist[v] < 0
      <3>1. \A p \in all : \A i \in 1 .. Len(p) : dist[p[i]] >= 0
        BY ShortestAre
      <3>2. through = {}
        <4>1. ASSUME NEW p \in all, v \in ToSet(p) PROVE FALSE
          <5>1. PICK i \in 1 .. Len(p) : v = p[i]
            BY <2>6, <4>1 DEF ToSet
          <5>2. dist[v] >= 0
            BY <3>1, <5>1
          <5> QED
            BY <1>0, <2>7, <5>2
        <4> QED
          BY <4>1
      <3>3. Cardinality(through) = 0
        BY <3>2, FS_EmptySet
      <3>4. (Unit * 0) \div counts[t] = (Unit \div counts[t]) * 0
        <4>1. 0 \in Nat
          OBVIOUS
        <4> QED
          BY Zenon, DividedOut, <2>5, <4>1
      <3>5. Unit \div counts[t] \in Nat
        BY <2>5, Divided
      <3>6. (Unit \div counts[t]) * 0 = 0
        BY <3>5
      <3> QED
        BY <2>4, <2>7, <3>3, <3>4, <3>6
    <2>8. CASE dist[v] >= 0
      <3>1. through = Through(Followed, origin, v, t)
        BY <2>1, <2>6 DEF Through, ToSet
      <3>2. Cardinality(through) = Cardinality(Ways(Followed, origin, v)) * m
        BY <1>0, <3>1, ThroughIs
      <3>3. Cardinality(Ways(Followed, origin, v)) = counts[v]
        BY <1>0 DEF Tallied
      <3> HIDE DEF m, through, all
      <3>4. PICK x \in Nat : x = counts[v] * m
        BY <1>0, <1>1
      <3>5. Cardinality(through) = x
        BY <3>2, <3>3, <3>4
      <3>6. (Unit * x) \div counts[t] = (Unit \div counts[t]) * x
        <4>2. counts[t] \in Nat \ {0} /\ Unit % counts[t] = 0 /\ Unit \in Nat /\ x \in Nat
          BY <2>5
        <4> QED
          BY Zenon, DividedOut, <4>2
      <3>7. Share(v, origin, t) = Part(counts, t) * x
        BY <2>4, <2>5, <3>5, <3>6
      <3>8. Part(counts, t) \in Nat
        BY <1>0, PartIs
      <3>9. \A a, b, c \in Nat : a * (b * c) = b * (a * c)
        OBVIOUS
      <3>10. Part(counts, t) * (counts[v] * m) = counts[v] * (Part(counts, t) * m)
        BY <1>0, <1>1, <3>8, <3>9
      <3>11. Share(v, origin, t) = counts[v] * (Part(counts, t) * m)
        BY <3>4, <3>7, <3>10
      <3> QED
        BY <1>0, <2>8, <3>11 DEF m
    <2> QED
      BY <1>0, <2>7, <2>8
  <1> QED
    BY <1>0, <1>3, <1>4

(* The sums of the module as sums of functions.                            *)
LEMMA SharesSum ==
  ASSUME NEW v, NEW s, NEW w, \A t \in Nodes \ {v, s} : w[t] = Share(v, s, t)
  PROVE  Shares(v, s) = SumOver(w, Nodes \ {v, s})
  <1> DEFINE S == Nodes \ {v, s}
             plain(F) == F = [r \in SUBSET S |->
               IF r = {} THEN 0
               ELSE LET t == CHOOSE x \in r : TRUE IN Share(v, s, t) + F[r \ {t}]]
  <1>1. Shares(v, s) = (CHOOSE F : plain(F))[S]
    BY DEF Shares, MapThenSumSet, MapThenFoldSet
  <1>2. (CHOOSE F : plain(F)) = (CHOOSE F : Sums(F, S, w))
    <2>1. ASSUME NEW F PROVE plain(F) <=> Sums(F, S, w)
      <3>1. \A r \in SUBSET S : r # {} => (CHOOSE x \in r : TRUE) \in S
        OBVIOUS
      <3> QED
        BY <3>1 DEF Sums
    <2> HIDE DEF plain
    <2> QED
      BY <2>1, Zenon
  <1> QED
    BY <1>1, <1>2 DEF SumOver

(* The sum over the sources.                                               *)
LEMMA SourcesSum ==
  ASSUME NEW v, NEW w, \A s \in Nodes \ {v} : w[s] = Shares(v, s)
  PROVE  MapThenSumSet(LAMBDA s : Shares(v, s), Nodes \ {v}) = SumOver(w, Nodes \ {v})
  <1> DEFINE S == Nodes \ {v}
             plain(F) == F = [r \in SUBSET S |->
               IF r = {} THEN 0
               ELSE LET s == CHOOSE x \in r : TRUE IN Shares(v, s) + F[r \ {s}]]
  <1>1. MapThenSumSet(LAMBDA s : Shares(v, s), Nodes \ {v}) = (CHOOSE F : plain(F))[S]
    BY DEF MapThenSumSet, MapThenFoldSet
  <1>2. (CHOOSE F : plain(F)) = (CHOOSE F : Sums(F, S, w))
    <2>1. ASSUME NEW F PROVE plain(F) <=> Sums(F, S, w)
      <3>1. \A r \in SUBSET S : r # {} => (CHOOSE x \in r : TRUE) \in S
        OBVIOUS
      <3> QED
        BY <3>1 DEF Sums
    <2> HIDE DEF plain
    <2> QED
      BY <2>1, Zenon
  <1> QED
    BY <1>1, <1>2 DEF SumOver

(* What the paths are worth is a number.                                   *)
LEMMA WorthIs ==
  ASSUME NetworkAssumption, UnitAssumption, NEW F, NEW d, Steep(F, d), NEW P,
         NEW c \in [Accounts -> Nat], NEW v \in Accounts
  PROVE  /\ \A t \in Accounts :
              /\ Worths(F, P, c, v)[t] = Part(c, t) * Cardinality(Via(F, P, v, t))
              /\ Worths(F, P, c, v)[t] \in Nat /\ Part(c, t) \in Nat
         /\ Worth(F, P, c, v) \in Nat
         /\ P = {} => Worth(F, P, c, v) = 0
  <1>0. IsFiniteSet(Accounts)
    BY DEF NetworkAssumption
  <1>1. ASSUME NEW t \in Accounts
        PROVE  /\ Worths(F, P, c, v)[t] = Part(c, t) * Cardinality(Via(F, P, v, t))
               /\ Worths(F, P, c, v)[t] \in Nat /\ Part(c, t) \in Nat
               /\ P = {} => Worths(F, P, c, v)[t] = 0
    <2>1. Worths(F, P, c, v)[t] = Part(c, t) * Cardinality(Via(F, P, v, t))
      BY DEF Worths
    <2>2. Part(c, t) \in Nat
      <3>1. c[t] \in Nat /\ Unit \in Nat
        BY DEF UnitAssumption
      <3>2. \A n \in Nat \ {0} : Unit \div n \in Nat
        BY <3>1
      <3> QED
        BY <3>1, <3>2 DEF Part
    <2>3. Cardinality(Via(F, P, v, t)) \in Nat
      BY <1>0, ViaIs
    <2>4. P = {} => Cardinality(Via(F, P, v, t)) = 0
      BY <1>0, ViaIs
    <2>5. \A a, b \in Nat : a * b \in Nat /\ a * 0 = 0
      OBVIOUS
    <2> QED
      BY <2>1, <2>2, <2>3, <2>4, <2>5
  <1>2. Worth(F, P, c, v) \in Nat
    BY <1>0, <1>1, SumParts DEF Worth
  <1>3. P = {} => Worth(F, P, c, v) = 0
    BY <1>0, <1>1, SumNothing DEF Worth
  <1> QED
    BY <1>1, <1>2, <1>3

(* What the paths from the source contribute to an account that it does    *)
(* not reach, and to one below which the stack has been emptied.           *)
LEMMA Unreached ==
  ASSUME NetworkAssumption, UnitAssumption, RankTyped, Rooted, Widening, Tallied,
         origin \in Accounts, toward = {}, taken = Len(met),
         NEW v \in Accounts, dist[v] < 0
  PROVE  Shares(v, origin) = 0
  <1> DEFINE w == [t \in Nodes |-> Share(v, origin, t)]
             S == Nodes \ {v, origin}
  <1>1. Nodes \subseteq Accounts /\ IsFiniteSet(S)
    BY NodesIn, FS_Subset DEF RankTyped
  <1>2. \A t \in S : w[t] = 0
    BY <1>1, ShareIs
  <1>3. Shares(v, origin) = SumOver(w, S)
    BY SharesSum
  <1> HIDE DEF w, S
  <1> QED
    BY <1>1, <1>2, <1>3, SumNothing

(* The share of an account once all below it have been taken.              *)
LEMMA Contributed ==
  ASSUME NetworkAssumption, UnitAssumption, RankTyped, Rooted, Widening, Tallied,
         origin \in Accounts, toward = {}, taken = Len(met),
         NEW v \in Accounts, v # origin, dist[v] >= 0,
         \A x \in Accounts : <<v, x>> \in Followed => x \in Popped
  PROVE  /\ Shares(v, origin) = counts[v] * Worth(Followed, Popped, counts, v)
         /\ counts[v] * Worth(Followed, Popped, counts, v) \in Nat
  <1> DEFINE w == [t \in Nodes |-> Share(v, origin, t)]
             z == [t \in Nodes |-> 0]
             S == Nodes \ {v, origin}
  <1>0. /\ Steep(Followed, dist) /\ Followed \subseteq flows /\ origin # 0 /\ counts[v] \in Nat
        /\ counts \in [Accounts -> Nat] /\ dist[origin] = 0 /\ dist[v] \in Int /\ IsFiniteSet(Accounts)
    BY FollowedSteep, NodesIn DEF RankTyped, Rooted
  <1>1. Nodes \subseteq Accounts /\ IsFiniteSet(S) /\ S \subseteq Accounts /\ S \subseteq Nodes
    BY NodesIn, FS_Subset DEF RankTyped
  <1>2. \A t \in Accounts : v # t => Via(Followed, Popped, v, t) = Ways(Followed, v, t)
    BY <1>0, ViaAll
  <1>3. \A t \in S : w[t] = counts[v] * (Part(counts, t) * Cardinality(Ways(Followed, v, t)))
    <2> SUFFICES ASSUME NEW t \in S
                 PROVE  w[t] = counts[v] * (Part(counts, t) * Cardinality(Ways(Followed, v, t)))
      OBVIOUS
    <2>1. t \in Accounts /\ t # origin /\ w[t] = Share(v, origin, t)
      BY <1>1
    <2>2. ~(dist[v] < 0)
      BY <1>0
    <2>3. Share(v, origin, t) = IF dist[v] < 0 THEN 0
                                ELSE counts[v] * (Part(counts, t) * Cardinality(Ways(Followed, v, t)))
      BY <2>1, ShareIs
    <2> QED
      BY <2>1, <2>2, <2>3
  <1>4. \A t \in Accounts : Worths(Followed, Popped, counts, v)[t]
                             = Part(counts, t) * Cardinality(Via(Followed, Popped, v, t))
                            /\ Worths(Followed, Popped, counts, v)[t] \in Nat /\ Part(counts, t) \in Nat
    BY <1>0, WorthIs
  <1>5. \A t \in S : /\ w[t] = z[t] + counts[v] * Worths(Followed, Popped, counts, v)[t]
                      /\ z[t] \in Nat /\ Worths(Followed, Popped, counts, v)[t] \in Nat
    <2> SUFFICES ASSUME NEW t \in S
                 PROVE  /\ w[t] = z[t] + counts[v] * Worths(Followed, Popped, counts, v)[t]
                        /\ z[t] \in Nat /\ Worths(Followed, Popped, counts, v)[t] \in Nat
      OBVIOUS
    <2>1. t \in Accounts /\ v # t /\ z[t] = 0
      BY <1>1
    <2>2. /\ w[t] = counts[v] * Worths(Followed, Popped, counts, v)[t]
          /\ Worths(Followed, Popped, counts, v)[t] \in Nat
      <3> HIDE DEF w, S, z
      <3> QED
        BY <1>2, <1>3, <1>4, <2>1
    <2>3. \A a, b \in Nat : a * b = 0 + a * b
      OBVIOUS
    <2> HIDE DEF w, S, z
    <2> QED
      BY <1>0, <2>1, <2>2, <2>3
  <1>6. \A t \in S : z[t] = 0
    OBVIOUS
  <1>7. \A t \in Accounts \ S : Worths(Followed, Popped, counts, v)[t] = 0
    <2> SUFFICES ASSUME NEW t \in Accounts, t \notin S
                 PROVE  Worths(Followed, Popped, counts, v)[t] = 0
      OBVIOUS
    <2>1. Cardinality(Via(Followed, Popped, v, t)) = 0
      <3>1. CASE t = v
        BY <1>0, <3>1, ViaIs
      <3>2. CASE t # v
        <4>1. ASSUME NEW p \in Ways(Followed, v, t) PROVE FALSE
          <5>1. dist[v] < dist[t] /\ Len(p) >= 2
            BY <1>0, <3>2, WaysDown
          <5>2. t # origin
            BY <1>0, <5>1
          <5>3. Len(p) \in Nat /\ p[Len(p)] = t
                /\ \A i \in 1 .. Len(p) - 1 : <<p[i], p[i + 1]>> \in Followed
            BY WayIs
          <5>4. Len(p) - 1 \in 1 .. Len(p) - 1 /\ (Len(p) - 1) + 1 = Len(p)
            BY <5>1, <5>3
          <5>5. <<p[Len(p) - 1], t>> \in flows
            BY <1>0, <5>3, <5>4
          <5>6. t \in Nodes
            BY <5>5 DEF Nodes
          <5> QED
            BY <3>2, <5>2, <5>6
        <4>2. Via(Followed, Popped, v, t) = {}
          BY <1>2, <3>2, <4>1
        <4> QED
          BY <4>2, FS_EmptySet
      <3> QED
        BY <3>1, <3>2
    <2>2. \A a \in Nat : a * 0 = 0
      OBVIOUS
    <2> QED
      BY <1>4, <2>1, <2>2
  <1>8. Shares(v, origin) = SumOver(w, S)
    BY SharesSum
  <1> HIDE DEF w, S, z
  <1>9. SumOver(w, S) = SumOver(z, S) + counts[v] * SumOver(Worths(Followed, Popped, counts, v), S)
        /\ SumOver(Worths(Followed, Popped, counts, v), S) \in Nat
    <2>1. PICK h : h = Worths(Followed, Popped, counts, v)
      OBVIOUS
    <2>2. PICK k \in Nat : k = counts[v]
      BY <1>0
    <2>3. \A t \in S : z[t] \in Nat /\ h[t] \in Nat /\ w[t] = z[t] + k * h[t]
      BY <1>5, <2>1, <2>2
    <2>4. SumOver(w, S) = SumOver(z, S) + k * SumOver(h, S) /\ SumOver(h, S) \in Nat
      BY <1>1, <2>3, SumLinear
    <2> QED
      BY <2>1, <2>2, <2>4
  <1>10. SumOver(z, S) = 0
    BY <1>1, <1>6, SumNothing
  <1>11. SumOver(Worths(Followed, Popped, counts, v), S) = Worth(Followed, Popped, counts, v)
    BY <1>0, <1>1, <1>4, <1>7, SumZeros DEF Worth
  <1>12. \A a, b \in Nat : 0 + a * b = a * b /\ a * b \in Nat
    OBVIOUS
  <1> QED
    BY <1>0, <1>8, <1>9, <1>10, <1>11, <1>12

-----------------------------------------------------------------------------
(* Whatever is known of the graph alone stays.                             *)
LEMMA SharesSumNext ==
  ASSUME NEW v, NEW s, NEW w, \A t \in Nodes' \ {v, s} : w[t] = Share(v, s, t)'
  PROVE  Shares(v, s)' = SumOver(w, Nodes' \ {v, s})
  <1> DEFINE S == Nodes' \ {v, s}
             plain(F) == F = [r \in SUBSET S |->
               IF r = {} THEN 0
               ELSE LET t == CHOOSE x \in r : TRUE IN Share(v, s, t)' + F[r \ {t}]]
  <1>1. Shares(v, s)' = (CHOOSE F : plain(F))[S]
    BY DEF Shares, MapThenSumSet, MapThenFoldSet
  <1>2. (CHOOSE F : plain(F)) = (CHOOSE F : Sums(F, S, w))
    <2>1. ASSUME NEW F PROVE plain(F) <=> Sums(F, S, w)
      <3>1. \A r \in SUBSET S : r # {} => (CHOOSE x \in r : TRUE) \in S
        OBVIOUS
      <3>2. \A r \in SUBSET S : r # {} =>
               Share(v, s, CHOOSE x \in r : TRUE)' = w[CHOOSE x \in r : TRUE]
        BY Zenon, <3>1
      <3>3. [r \in SUBSET S |->
               IF r = {} THEN 0
               ELSE Share(v, s, CHOOSE x \in r : TRUE)' + F[r \ {CHOOSE x \in r : TRUE}]]
            = [r \in SUBSET S |->
               IF r = {} THEN 0
               ELSE w[CHOOSE x \in r : TRUE] + F[r \ {CHOOSE x \in r : TRUE}]]
        <4>1. ASSUME NEW r \in SUBSET S
              PROVE  (IF r = {} THEN 0
                      ELSE Share(v, s, CHOOSE x \in r : TRUE)' + F[r \ {CHOOSE x \in r : TRUE}])
                     = (IF r = {} THEN 0
                        ELSE w[CHOOSE x \in r : TRUE] + F[r \ {CHOOSE x \in r : TRUE}])
          <5>1. CASE r = {}
            BY Zenon, <5>1
          <5>2. CASE r # {}
            <6>1. Share(v, s, CHOOSE x \in r : TRUE)' = w[CHOOSE x \in r : TRUE]
              BY Zenon, <3>2, <5>2
            <6> QED
              BY Zenon, <6>1, <5>2
          <5> QED
            BY Zenon, <5>1, <5>2
        <4> QED
          BY Zenon, <4>1
      <3> QED
        BY Zenon, <3>3 DEF Sums
    <2> HIDE DEF plain
    <2> QED
      BY <2>1, Zenon
  <1> QED
    BY <1>1, <1>2 DEF SumOver

(* Both stay while the graph does.                                         *)
LEMMA GraphStays ==
  ASSUME flows' = flows
  PROVE  /\ Nodes' = Nodes /\ \A v : Targets(v)' = Targets(v)
         /\ \A v, s : Shares(v, s)' = Shares(v, s)
  <1>1. Nodes' = Nodes /\ \A v : Targets(v)' = Targets(v)
    BY DEF Nodes, Targets
  <1>2. ASSUME NEW v, NEW s, NEW t
        PROVE  Share(v, s, t)' = Share(v, s, t)
    <2>1. Between(s, t)' = Between(s, t)
      BY DEF Between
    <2>2. Shortest(s, t)' = Shortest(s, t)
      BY <2>1 DEF Shortest
    <2> QED
      BY Zenon, <2>2 DEF Share
  <1>3. ASSUME NEW v, NEW s
        PROVE  Shares(v, s)' = Shares(v, s)
    <2> DEFINE w == [t \in Nodes |-> Share(v, s, t)]
    <2>1. Shares(v, s) = SumOver(w, Nodes \ {v, s})
      BY SharesSum
    <2>2. Shares(v, s)' = SumOver(w, Nodes' \ {v, s})
      BY <1>1, <1>2, SharesSumNext
    <2> HIDE DEF w
    <2> QED
      BY Zenon, <1>1, <2>1, <2>2
  <1> QED
    BY <1>1, <1>3

(* Before the first search nothing has been counted.                       *)
LEMMA RankInit ==
  ASSUME NetworkAssumption, flows \subseteq Accounts \X Accounts, BetweennessInit
  PROVE  RankInv
  <1>0. /\ Nodes \subseteq Accounts /\ IsFiniteSet(Nodes) /\ 0 \notin Accounts
        /\ starts = Nodes /\ origin = 0 /\ met = <<>> /\ taken = 0 /\ toward = {}
        /\ dist = [v \in Accounts |-> -1] /\ counts = [v \in Accounts |-> 0]
        /\ delta = counts /\ cb = counts
    BY NodesIn DEF BetweennessInit
  <1>1. RankTyped
    BY <1>0 DEF RankTyped
  <1>2. Queued /\ Rooted
    <2>1. Len(met) = 0 /\ 1 .. Len(met) = {}
      BY <1>0
    <2>2. \A v \in Accounts : dist[v] # 0 /\ v # origin
      BY <1>0
    <2> QED
      BY <1>0, <2>1, <2>2 DEF Queued, Rooted
  <1>3. Widening /\ Emptied
    <2>1. \A v \in Accounts : ~(dist[v] >= 0)
      BY <1>0
    <2> QED
      BY <2>1 DEF Widening, Emptied, Passed, Popped
  <1>4. Tallied /\ Owed
    BY <1>0 DEF Tallied, Owed
  <1>5. ASSUME NEW v \in Nodes
        PROVE  /\ \A s \in Nodes \ {v} : Rows(v)[s] \in Nat
               /\ cb[v] = SumOver(Rows(v), Nodes \ {v})
    <2>1. \A s \in Nodes \ {v} : Rows(v)[s] = 0
      BY <1>0 DEF Rows
    <2>2. IsFiniteSet(Nodes \ {v})
      BY <1>0, FS_Subset
    <2>3. SumOver(Rows(v), Nodes \ {v}) = 0
      BY <2>1, <2>2, SumNothing
    <2> QED
      BY <1>0, <2>1, <2>3
  <1> QED
    BY <1>1, <1>2, <1>3, <1>4, <1>5 DEF RankInv, Gathered

(* A search starts at an account whose turn it is; what the one before has *)
(* left out contributes nothing.                                           *)
LEMMA StartKeeps ==
  ASSUME NetworkAssumption, UnitAssumption, RankInv, NEW s, StartFrom(s)
  PROVE  RankInv'
  <1>0. /\ flows \subseteq Accounts \X Accounts /\ starts \subseteq Nodes
        /\ met = <<>> /\ taken \in 0 .. Len(met) /\ starts # {} /\ s = Least(starts)
        /\ starts' = starts \ {s} /\ origin' = s /\ met' = <<s>>
        /\ dist' = [v \in Accounts |-> IF v = s THEN 0 ELSE -1]
        /\ counts' = [v \in Accounts |-> IF v = s THEN 1 ELSE 0]
        /\ delta' = [v \in Accounts |-> 0]
        /\ flows' = flows /\ taken' = taken /\ toward' = toward /\ cb' = cb
    BY DEF RankInv, RankTyped, StartFrom
  <1>1. /\ Nodes \subseteq Accounts /\ IsFiniteSet(Nodes) /\ 0 \notin Accounts
        /\ s \in starts /\ s \in Nodes /\ s \in Accounts /\ IsFiniteSet(Accounts)
    <2>1. Nodes \subseteq Accounts /\ IsFiniteSet(Nodes) /\ 0 \notin Accounts /\ IsFiniteSet(Accounts)
      BY <1>0, NodesIn
    <2>2. s \in starts
      BY <1>0, <2>1, LeastIn
    <2> QED
      BY <1>0, <2>1, <2>2
  <1>2. /\ Nodes' = Nodes /\ Len(met) = 0 /\ taken = 0 /\ toward = {}
        /\ Len(met') = 1 /\ met'[1] = s /\ 1 .. Len(met') = {1}
    <2>1. Len(met) = 0 /\ taken = 0 /\ Len(met') = 1 /\ met'[1] = s /\ 1 .. 1 = {1}
      BY <1>0
    <2> QED
      BY <1>0, <2>1, GraphStays DEF RankInv, Queued
  <1>3. RankTyped'
    <2>1. met' \in Seq(Accounts) /\ taken' \in 0 .. Len(met') /\ toward' \subseteq Accounts
      BY <1>0, <1>1, <1>2
    <2>2. cb' \in [Accounts -> Nat]
      BY <1>0 DEF RankInv, RankTyped
    <2>3. /\ dist' \in [Accounts -> Int] /\ counts' \in [Accounts -> Nat]
          /\ delta' \in [Accounts -> Nat]
      BY <1>0
    <2>4. flows' \subseteq Accounts \X Accounts /\ starts' \subseteq Nodes' /\ origin' \in Nodes' \ starts'
      BY <1>0, <1>1, <1>2
    <2> QED
      BY <2>1, <2>2, <2>3, <2>4 DEF RankTyped
  <1>4. \A v \in Accounts : dist'[v] >= 0 => v = s
    BY <1>0
  <1>5. dist'[s] = 0 /\ \A v \in Accounts : v # s => dist'[v] = -1
    BY <1>0, <1>1
  <1>6. Queued' /\ Rooted'
    BY <1>0, <1>1, <1>2, <1>5 DEF Queued, Rooted
  <1>7. \A y, z : ~Passed(y, z)'
    BY <1>0, <1>2, <1>4 DEF Passed
  <1>8. Popped' = {} /\ Followed' = {}
    BY <1>2, <1>4, <1>7 DEF Popped, Followed
  <1>9. Widening' /\ Emptied'
    BY <1>7, <1>8 DEF Widening, Emptied
  <1>10. Steep(Followed', dist')
    BY <1>3, <1>8 DEF Steep, RankTyped
  <1>11. Tallied'
    <2> SUFFICES ASSUME NEW w \in Accounts
                 PROVE  /\ counts'[w] = Cardinality(Ways(Followed', s, w))
                        /\ dist'[w] >= 0 => counts'[w] >= 1
      BY <1>0 DEF Tallied
    <2>1. CASE w = s
      <3>1. Cardinality(Ways(Followed', s, s)) = 1
        BY <1>1, <1>10, WaysSelf
      <3> QED
        BY <1>0, <1>1, <2>1, <3>1
    <2>2. CASE w # s
      <3>1. ~(dist'[s] < dist'[w])
        BY <1>5, <2>2
      <3>2. Ways(Followed', s, w) = {}
        BY <1>10, <2>2, <3>1, WaysDown
      <3>3. Cardinality(Ways(Followed', s, w)) = 0
        BY <3>2, FS_EmptySet
      <3> QED
        BY <1>0, <1>4, <2>2, <3>3
    <2> QED
      BY <2>1, <2>2
  <1>12. Owed'
    <2> SUFFICES ASSUME NEW v \in Accounts
                 PROVE  delta'[v] = counts'[v] * Worth(Followed', Popped', counts', v)
      BY DEF Owed
    <2>1. Worth(Followed', Popped', counts', v) = 0
      BY <1>3, <1>8, <1>10, WorthIs DEF RankTyped
    <2>2. counts'[v] \in Nat /\ delta'[v] = 0
      BY <1>0
    <2>3. \A a \in Nat : a * 0 = 0
      OBVIOUS
    <2> QED
      BY <2>1, <2>2, <2>3
  <1>13. ASSUME NEW v \in Nodes
         PROVE  /\ \A r \in Nodes \ {v} : Rows(v)'[r] \in Nat
                /\ cb'[v] = SumOver(Rows(v)', Nodes \ {v})
    <2>1. /\ \A r \in Nodes \ {v} : Rows(v)[r] \in Nat
          /\ cb[v] = SumOver(Rows(v), Nodes \ {v})
      BY DEF RankInv, Gathered
    <2>2. ASSUME NEW r \in Nodes \ {v}
          PROVE  Rows(v)'[r] = Rows(v)[r]
      <3>1. /\ Rows(v)'[r] = IF r \in starts' \/ (r = s /\ v \notin Popped') THEN 0 ELSE Shares(v, r)'
            /\ Rows(v)[r] = IF r \in starts \/ (r = origin /\ v \notin Popped) THEN 0 ELSE Shares(v, r)
            /\ Shares(v, r)' = Shares(v, r)
        BY <1>0, <1>2, GraphStays DEF Rows
      <3>2. CASE r \in starts
        BY <1>0, <1>8, <3>1, <3>2
      <3>3. CASE r \notin starts /\ ~(r = origin /\ v \notin Popped)
        <4>1. r # s /\ r \notin starts'
          BY <1>0, <1>1, <3>3
        <4> QED
          BY <3>1, <3>3, <4>1
      <3>4. CASE r \notin starts /\ r = origin /\ v \notin Popped
        <4>1. r # s /\ r \notin starts' /\ origin \in Accounts /\ v \in Accounts
          BY <1>0, <1>1, <3>4
        <4>2. dist[v] < 0
          <5>1. ~(dist[v] >= 0) /\ dist[v] \in Int
            BY <1>2, <3>4, <4>1 DEF Popped, RankInv, RankTyped
          <5> QED
            BY <5>1
        <4>3. taken = Len(met)
          BY <1>2
        <4>4. Shares(v, origin) = 0
          BY <1>2, <4>1, <4>2, <4>3, Unreached DEF RankInv
        <4> QED
          BY <3>1, <3>4, <4>1, <4>4
      <3> QED
        BY <3>2, <3>3, <3>4
    <2>3. IsFiniteSet(Nodes \ {v})
      BY <1>1, FS_Subset
    <2>4. SumOver(Rows(v), Nodes \ {v}) = SumOver(Rows(v)', Nodes \ {v})
      BY <2>1, <2>2, <2>3, SumSame
    <2> QED
      BY <1>0, <2>1, <2>2, <2>4
  <1>14. Gathered'
    BY <1>2, <1>13 DEF Gathered
  <1> QED
    BY <1>3, <1>6, <1>9, <1>11, <1>12, <1>14 DEF RankInv

(* Until an account is taken off the stack, centralities stay.             *)
LEMMA GatheredStays ==
  ASSUME Gathered, UNCHANGED <<flows, starts, origin, cb>>, Popped' = Popped
  PROVE  Gathered'
  <1>1. Nodes' = Nodes /\ \A v, s : Shares(v, s)' = Shares(v, s)
    BY GraphStays
  <1>2. \A v \in Nodes : Rows(v)' = Rows(v)
    BY <1>1 DEF Rows
  <1>3. ASSUME NEW v \in Nodes
        PROVE  /\ \A s \in Nodes' \ {v} : Rows(v)'[s] \in Nat
               /\ cb'[v] = SumOver(Rows(v)', Nodes' \ {v})
    <2>1. /\ \A s \in Nodes \ {v} : Rows(v)[s] \in Nat
          /\ cb[v] = SumOver(Rows(v), Nodes \ {v})
      BY DEF Gathered
    <2>2. Rows(v)' = Rows(v) /\ cb' = cb
      BY <1>2
    <2> QED
      BY Zenon, <1>1, <2>1, <2>2
  <1> QED
    BY <1>1, <1>3 DEF Gathered

(* The next account of the queue is taken.                                 *)
LEMMA TakeKeeps ==
  ASSUME NetworkAssumption, RankInv, TakeNext
  PROVE  RankInv'
  <1>0. /\ toward = {} /\ taken < Len(met) /\ taken' = taken + 1
        /\ toward' = Targets(met[taken + 1])
        /\ flows' = flows /\ starts' = starts /\ origin' = origin /\ met' = met
        /\ dist' = dist /\ counts' = counts /\ delta' = delta /\ cb' = cb
        /\ flows \subseteq Accounts \X Accounts
        /\ met \in Seq(Accounts) /\ taken \in 0 .. Len(met) /\ dist \in [Accounts -> Int]
    BY DEF TakeNext, RankInv, RankTyped
  <1>1. /\ Len(met) \in Nat /\ \A i \in 1 .. Len(met) : met[i] \in Accounts /\ dist[met[i]] \in Int
        /\ taken + 1 \in 1 .. Len(met) /\ taken \in Nat
    BY <1>0
  <1>2. Nodes' = Nodes /\ \A v : Targets(v)' = Targets(v)
    BY <1>0, GraphStays
  <1>3. RankTyped'
    <2>1. Targets(met[taken + 1]) \subseteq Accounts
      BY DEF Targets
    <2>2. taken' \in 0 .. Len(met')
      BY <1>0, <1>1
    <2> QED
      BY <1>0, <1>2, <2>1, <2>2 DEF RankInv, RankTyped
  <1>4. Queued'
    <2>1. /\ \A i \in 1 .. Len(met) : dist[met[i]] >= 0
          /\ \A i, j \in 1 .. Len(met) : i < j => met[i] # met[j] /\ dist[met[i]] <= dist[met[j]]
      BY DEF RankInv, Queued
    <2>2. \A i \in 1 .. Len(met) : dist[met[i]] <= dist[met[taken + 1]] + 1
      <3>1. CASE taken = 0
        <4>0. IF taken = 0 THEN Len(met) <= 1
              ELSE \A i \in 1 .. Len(met) : dist[met[i]] <= dist[met[taken]] + 1
          BY DEF RankInv, Queued
        <4>1. Len(met) = 1
          <5>1. Len(met) <= 1
            BY Zenon, <3>1, <4>0
          <5>2. Len(met) \in Nat /\ 0 < Len(met)
            BY <1>0, <1>1, <3>1
          <5>3. \A n \in Nat : 0 < n /\ n <= 1 => n = 1
            OBVIOUS
          <5> QED
            BY Zenon, <5>1, <5>2, <5>3
        <4>2. \A i \in 1 .. Len(met) : i = taken + 1
          BY <3>1, <4>1
        <4> QED
          BY <1>1, <4>2
      <3>2. CASE taken # 0
        <4>1. \A i \in 1 .. Len(met) : dist[met[i]] <= dist[met[taken]] + 1
          BY <3>2 DEF RankInv, Queued
        <4>2. taken \in 1 .. Len(met) /\ taken < taken + 1
          BY <1>0, <1>1, <3>2
        <4>3. dist[met[taken]] <= dist[met[taken + 1]]
          BY <1>1, <2>1, <4>2
        <4>4. dist[met[taken]] \in Int /\ dist[met[taken + 1]] \in Int
          BY <1>1, <4>2
        <4>5. \A i \in 1 .. Len(met) : dist[met[i]] \in Int
          BY <1>1
        <4> QED
          BY <4>1, <4>3, <4>4, <4>5
      <3> QED
        BY <3>1, <3>2
    <2>3. taken' # 0
      BY <1>0, <1>1
    <2>4. toward' \subseteq Targets(met[taken])'
      <3>1. met'[taken'] = met[taken + 1]
        BY Zenon, <1>0
      <3>2. Targets(met[taken])' = Targets(met[taken + 1])
        BY <1>0, <3>1 DEF Targets
      <3> QED
        BY <1>0, <3>2
    <2>5. met' = met /\ dist' = dist /\ taken' = taken + 1
      BY <1>0
    <2> QED
      BY <2>1, <2>2, <2>3, <2>4, <2>5 DEF Queued
  <1>5. Rooted'
    BY <1>0 DEF RankInv, Rooted
  <1>6. ASSUME NEW y, NEW z
        PROVE  Passed(y, z)' <=> Passed(y, z)
    <2> SUFFICES ASSUME <<y, z>> \in flows, NEW i \in 1 .. Len(met), met[i] = y
                 PROVE  (i < taken' \/ (i = taken' /\ z \notin toward'))
                          <=> (i < taken \/ (i = taken /\ z \notin toward))
      BY <1>0 DEF Passed
    <2>1. z \in Accounts
      BY <1>0
    <2>2. i = taken + 1 => z \in toward'
      BY <1>0, <2>1 DEF Targets
    <2> QED
      BY <1>0, <1>1, <2>2
  <1>7. Popped' = Popped /\ Followed' = Followed
    BY <1>0, <1>6 DEF Popped, Followed
  <1>8. Popped = {}
    BY <1>0, <1>1 DEF RankInv, Emptied
  <1>9. Widening' /\ Emptied'
    <2>1. Widening'
      BY <1>0, <1>6 DEF RankInv, Widening
    <2>2. Emptied'
      BY <1>7, <1>8 DEF Emptied
    <2> QED
      BY <2>1, <2>2
  <1>10. Tallied'
    <2>1. origin # 0 => \A w \in Accounts : /\ counts[w] = Cardinality(Ways(Followed, origin, w))
                                            /\ dist[w] >= 0 => counts[w] >= 1
      BY DEF RankInv, Tallied
    <2> QED
      BY Zenon, <1>0, <1>7, <2>1 DEF Tallied
  <1>11. Owed'
    <2>1. origin # 0 => \A v \in Accounts : delta[v] = counts[v] * Worth(Followed, Popped, counts, v)
      BY DEF RankInv, Owed
    <2> QED
      BY Zenon, <1>0, <1>7, <2>1 DEF Owed
  <1>12. Gathered'
    BY <1>0, <1>7, GatheredStays DEF RankInv
  <1> QED
    BY <1>3, <1>4, <1>5, <1>9, <1>10, <1>11, <1>12 DEF RankInv

(* A neighbour of the account taken last is looked at.                     *)
LEMMA LookAtKeeps ==
  ASSUME NetworkAssumption, UnitAssumption, RankInv, NEW v, NEW w, LookAt(v, w)
  PROVE  RankInv'
  <1>0. /\ flows' = flows /\ starts' = starts /\ origin' = origin /\ taken' = taken
        /\ delta' = delta /\ cb' = cb /\ toward' = toward \ {w}
    BY DEF LookAt
  <1>a. toward # {} /\ v = met[taken] /\ w = Least(toward)
    BY DEF LookAt
  <1>b. /\ dist[w] < 0 => met' = Append(met, w) /\ dist' = [dist EXCEPT ![w] = dist[v] + 1]
        /\ ~(dist[w] < 0) => met' = met /\ dist' = dist
    BY DEF LookAt
  <1>c. counts' = IF dist'[w] = dist[v] + 1 THEN [counts EXCEPT ![w] = @ + counts[v]] ELSE counts
    BY DEF LookAt
  <1>d. flows \subseteq Accounts \X Accounts /\ toward \subseteq Accounts
    BY DEF RankInv, RankTyped
  <1>e. met \in Seq(Accounts) /\ taken \in 0 .. Len(met) /\ dist \in [Accounts -> Int]
    BY DEF RankInv, RankTyped
  <1>f. counts \in [Accounts -> Nat]
    BY DEF RankInv, RankTyped
  <1>1. /\ Len(met) \in Nat /\ \A i \in 1 .. Len(met) : met[i] \in Accounts /\ dist[met[i]] \in Int
        /\ taken \in 1 .. Len(met) /\ toward \subseteq Targets(met[taken])
        /\ \A i \in 1 .. Len(met) : dist[met[i]] >= 0 /\ dist[met[i]] <= dist[v] + 1
        /\ \A i, j \in 1 .. Len(met) : i < j => met[i] # met[j] /\ dist[met[i]] <= dist[met[j]]
    <2>1. Len(met) \in Nat /\ \A i \in 1 .. Len(met) : met[i] \in Accounts /\ dist[met[i]] \in Int
      BY <1>e
    <2>2. taken # 0 /\ toward \subseteq Targets(met[taken])
      BY <1>a DEF RankInv, Queued
    <2>3. taken \in 1 .. Len(met)
      BY <1>e, <2>1, <2>2
    <2>4. /\ \A i \in 1 .. Len(met) : dist[met[i]] >= 0
          /\ \A i, j \in 1 .. Len(met) : i < j => met[i] # met[j] /\ dist[met[i]] <= dist[met[j]]
      BY DEF RankInv, Queued
    <2>5. \A i \in 1 .. Len(met) : dist[met[i]] <= dist[met[taken]] + 1
      BY <2>2 DEF RankInv, Queued
    <2> QED
      BY <1>a, <2>1, <2>2, <2>3, <2>4, <2>5
  <1>2. /\ w \in toward /\ v \in Accounts /\ w \in Accounts /\ <<v, w>> \in flows
        /\ dist[v] \in Int /\ dist[v] >= 0 /\ dist[w] \in Int
    <2>1. w \in toward
      BY <1>a, <1>d, LeastIn
    <2> QED
      BY <1>a, <1>1, <1>e, <2>1 DEF Targets
  <1>3. Nodes' = Nodes /\ \A x : Targets(x)' = Targets(x)
    BY <1>0, GraphStays
  <1>4. Popped = {}
    BY <1>a DEF RankInv, Emptied
  (* Positions and levels as they were, but for an account met for the     *)
  (* first time.                                                           *)
  <1>5. /\ met' \in Seq(Accounts) /\ Len(met') \in Nat /\ Len(met) <= Len(met')
        /\ \A i \in 1 .. Len(met) : met'[i] = met[i]
        /\ \A i \in 1 .. Len(met') : i \in 1 .. Len(met) \/ (i = Len(met) + 1 /\ met'[i] = w /\ dist[w] < 0)
        /\ dist' \in [Accounts -> Int]
        /\ \A x \in Accounts : dist[x] >= 0 => dist'[x] = dist[x]
        /\ \A x \in Accounts : x # w => dist'[x] = dist[x]
        /\ dist'[w] >= 0 /\ dist'[w] <= dist[v] + 1
        /\ dist[w] < 0 => dist'[w] = dist[v] + 1 /\ Len(met') = Len(met) + 1 /\ met'[Len(met) + 1] = w
        /\ dist[w] >= 0 => met' = met /\ dist' = dist
    <2>1. CASE dist[w] < 0
      <3>1. met' = Append(met, w) /\ dist' = [dist EXCEPT ![w] = dist[v] + 1]
        BY <1>b, <2>1
      <3>2. /\ met' \in Seq(Accounts) /\ Len(met') = Len(met) + 1
            /\ \A i \in 1 .. Len(met) : met'[i] = met[i]
            /\ met'[Len(met) + 1] = w
        BY <1>e, <1>1, <1>2, <3>1
      <3>3. /\ dist' \in [Accounts -> Int] /\ dist'[w] = dist[v] + 1
            /\ \A x \in Accounts : x # w => dist'[x] = dist[x]
        BY <1>e, <1>2, <3>1
      <3>4. \A i \in 1 .. Len(met') : i \in 1 .. Len(met) \/ i = Len(met) + 1
        BY Zenon, <1>1, <3>2, OneMore
      <3>5. Len(met') \in Nat /\ Len(met) <= Len(met')
        BY <1>1, <3>2
      <3>6. \A x \in Accounts : dist[x] >= 0 => dist'[x] = dist[x]
        BY <1>2, <2>1, <3>3
      <3>7. dist'[w] >= 0 /\ dist'[w] <= dist[v] + 1 /\ ~(dist[w] >= 0)
        BY <1>2, <2>1, <3>3
      <3>8. \A i \in 1 .. Len(met') :
              i \in 1 .. Len(met) \/ (i = Len(met) + 1 /\ met'[i] = w /\ dist[w] < 0)
        BY Zenon, <2>1, <3>2, <3>4
      <3> QED
        BY Zenon, <3>2, <3>3, <3>5, <3>6, <3>7, <3>8
    <2>2. CASE dist[w] >= 0
      <3>1. met' = met /\ dist' = dist
        BY <1>b, <1>2, <2>2
      <3>2. dist[w] <= dist[v] + 1
        <4>1. PICK i \in 1 .. Len(met) : met[i] = w
          BY <1>2, <1>4, <2>2 DEF Popped
        <4> QED
          BY <1>1, <4>1
      <3> QED
        BY <1>e, <1>1, <1>2, <2>2, <3>1, <3>2
    <2> QED
      BY <1>2, <2>1, <2>2
  <1>6. RankTyped'
    <2>1. counts' \in [Accounts -> Nat]
      BY <1>c, <1>f, <1>2
    <2>2. taken' \in 0 .. Len(met') /\ toward' \subseteq Accounts
      BY <1>0, <1>1, <1>5, <1>d
    <2> QED
      BY <1>0, <1>3, <1>5, <2>1, <2>2 DEF RankInv, RankTyped
  <1>7. \A i \in 1 .. Len(met') :
           /\ i \in 1 .. Len(met) => met'[i] = met[i] /\ dist'[met'[i]] = dist[met[i]] /\ met'[i] \in Accounts
           /\ i \notin 1 .. Len(met) => /\ i = Len(met) + 1 /\ met'[i] = w
                                        /\ dist[w] < 0 /\ dist'[met'[i]] = dist[v] + 1
    BY <1>1, <1>5
  <1>8. Queued'
    <2>1. \A i \in 1 .. Len(met') : /\ dist'[met'[i]] \in Int /\ dist'[met'[i]] >= 0
                                    /\ dist'[met'[i]] <= dist[v] + 1
      <3>1. ASSUME NEW i \in 1 .. Len(met'), i \in 1 .. Len(met)
            PROVE  /\ dist'[met'[i]] \in Int /\ dist'[met'[i]] >= 0
                   /\ dist'[met'[i]] <= dist[v] + 1
        BY Zenon, <1>1, <1>7, <3>1
      <3>2. ASSUME NEW i \in 1 .. Len(met'), i \notin 1 .. Len(met)
            PROVE  /\ dist'[met'[i]] \in Int /\ dist'[met'[i]] >= 0
                   /\ dist'[met'[i]] <= dist[v] + 1
        <4>1. dist'[met'[i]] = dist[v] + 1
          BY Zenon, <1>7, <3>2
        <4> QED
          BY <1>2, <4>1
      <3> QED
        BY <3>1, <3>2
    <2>2. ASSUME NEW i \in 1 .. Len(met'), NEW j \in 1 .. Len(met'), i < j
          PROVE  met'[i] # met'[j] /\ dist'[met'[i]] <= dist'[met'[j]]
      <3>1. i \in 1 .. Len(met)
        <4>1. i \notin 1 .. Len(met) => i = Len(met) + 1
          BY <1>7
        <4>2. j <= Len(met) + 1
          <5>1. j \in 1 .. Len(met) \/ j = Len(met) + 1
            BY <1>7
          <5> QED
            BY <1>1, <5>1
        <4> QED
          BY <1>1, <2>2, <4>1, <4>2
      <3>2. met'[i] = met[i] /\ dist'[met'[i]] = dist[met[i]]
        BY <1>7, <3>1
      <3>3. CASE j \in 1 .. Len(met)
        <4>1. met'[j] = met[j] /\ dist'[met'[j]] = dist[met[j]]
          BY <1>7, <3>3
        <4> QED
          BY <1>1, <2>2, <3>1, <3>2, <3>3, <4>1
      <3>4. CASE j \notin 1 .. Len(met)
        <4>1. met'[j] = w /\ dist[w] < 0 /\ dist'[met'[j]] = dist[v] + 1
          BY <1>7, <3>4
        <4>2. dist[met[i]] >= 0 /\ dist[met[i]] <= dist[v] + 1 /\ dist[met[i]] \in Int
          BY <1>1, <3>1
        <4>3. met[i] # w
          BY <1>2, <4>1, <4>2
        <4>4. dist[met[i]] <= dist'[met'[j]]
          BY <4>1, <4>2
        <4> QED
          BY Zenon, <3>2, <4>1, <4>3, <4>4
      <3> QED
        BY <3>3, <3>4
    <2>3. taken' # 0 /\ met'[taken'] = v /\ dist'[met'[taken']] = dist[v]
      <3>1. taken' = taken /\ taken \in 1 .. Len(met) /\ v = met[taken] /\ taken # 0
        BY <1>0, <1>a, <1>1
      <3>2. met'[taken] = v
        BY Zenon, <1>5, <3>1
      <3>3. dist'[v] = dist[v]
        BY Zenon, <1>2, <1>5
      <3> QED
        BY Zenon, <3>1, <3>2, <3>3
    <2>4. toward' \subseteq Targets(met[taken])'
      <3>1. Targets(met[taken])' = Targets(met[taken])
        BY <1>0, <1>a, <2>3 DEF Targets
      <3> QED
        BY <1>0, <1>1, <3>1
    <2>5. /\ \A i \in 1 .. Len(met') : dist'[met'[i]] >= 0
          /\ \A i \in 1 .. Len(met') : dist'[met'[i]] <= dist'[met'[taken']] + 1
      BY <2>1, <2>3
    <2> QED
      BY <2>2, <2>3, <2>4, <2>5 DEF Queued
  <1>9. Rooted'
    <2>1. (\A x \in Accounts : dist[x] = 0 <=> x = origin) /\ met # <<>> /\ met[1] = origin
      <3>1. met # <<>>
        BY <1>1
      <3> QED
        BY <3>1 DEF RankInv, Rooted
    <2>2. ASSUME NEW x \in Accounts
          PROVE  dist'[x] = 0 <=> x = origin
      <3>1. CASE dist[x] >= 0
        BY <1>5, <2>1, <3>1
      <3>2. CASE ~(dist[x] >= 0) /\ x # w
        BY <1>5, <2>1, <3>2
      <3>3. CASE ~(dist[x] >= 0) /\ x = w
        BY <1>2, <1>5, <2>1, <3>3
      <3> QED
        BY <3>1, <3>2, <3>3
    <2>3. met'[1] = met[1]
      BY <1>1, <1>5
    <2> QED
      BY <1>0, <2>1, <2>2, <2>3 DEF Rooted
  <1>10. ASSUME NEW y, NEW z
         PROVE  Passed(y, z)' <=> Passed(y, z) \/ (y = v /\ z = w)
    <2>1. CASE <<y, z>> \notin flows
      BY <1>0, <1>2, <2>1 DEF Passed
    <2>2. CASE <<y, z>> \in flows /\ y = w /\ dist[w] < 0
      <3>1. ~Passed(y, z)
        BY <1>2, <2>2 DEF Passed
      <3>2. Len(met) + 1 \in 1 .. Len(met') /\ met'[Len(met) + 1] = y
            /\ ~(Len(met) + 1 < taken') /\ Len(met) + 1 # taken'
        BY <1>0, <1>1, <1>5, <2>2
      <3>3. ~Passed(y, z)'
        BY <3>2 DEF Passed
      <3>4. y # v
        BY <1>2, <2>2
      <3> QED
        BY <3>1, <3>3, <3>4
    <2>3. CASE <<y, z>> \in flows /\ ~(y = w /\ dist[w] < 0)
      <3>1. y \in Accounts /\ z \in Accounts
        BY <1>d, <2>3
      <3>2. dist'[y] = dist[y]
        BY <1>2, <1>5, <2>3, <3>1
      <3>3. \A i \in 1 .. Len(met') : met'[i] = y => i \in 1 .. Len(met) /\ met[i] = y
        BY <1>5, <2>3
      <3>4. \A i \in 1 .. Len(met) : i \in 1 .. Len(met') /\ met'[i] = met[i]
        BY <1>1, <1>5
      <3>5. ASSUME NEW i \in 1 .. Len(met), met[i] = y
            PROVE  (i < taken' \/ (i = taken' /\ z \notin toward'))
                     <=> ((i < taken \/ (i = taken /\ z \notin toward)) \/ (i = taken /\ z = w))
        BY <1>0, <1>2
      <3>6. \A i \in 1 .. Len(met) : met[i] = y /\ i = taken => y = v
        BY <1>a
      <3>7. y = v => dist[y] >= 0 /\ \A i \in 1 .. Len(met) : met[i] = y => i = taken
        <4>1. \A i, j \in 1 .. Len(met) : i # j => met[i] # met[j]
          BY <1>1
        <4> QED
          BY <1>a, <1>1, <1>2, <4>1
      <3>8. Passed(y, z)' => Passed(y, z) \/ (y = v /\ z = w)
        <4> SUFFICES ASSUME Passed(y, z)', ~(y = v /\ z = w)
                     PROVE  Passed(y, z)
          OBVIOUS
        <4>1. dist[y] >= 0
          BY <3>2 DEF Passed
        <4>2. ASSUME NEW i \in 1 .. Len(met), met[i] = y
              PROVE  i < taken \/ (i = taken /\ z \notin toward)
          <5>1. i < taken' \/ (i = taken' /\ z \notin toward')
            BY <3>4, <4>2 DEF Passed
          <5> QED
            BY <3>5, <3>6, <4>2, <5>1
        <4> QED
          BY <2>3, <4>1, <4>2 DEF Passed
      <3>9. Passed(y, z) \/ (y = v /\ z = w) => Passed(y, z)'
        <4> SUFFICES ASSUME Passed(y, z) \/ (y = v /\ z = w)
                     PROVE  Passed(y, z)'
          OBVIOUS
        <4>1. dist'[y] >= 0
          BY <3>2, <3>7 DEF Passed
        <4>2. ASSUME NEW i \in 1 .. Len(met'), met'[i] = y
              PROVE  i < taken' \/ (i = taken' /\ z \notin toward')
          <5>1. i \in 1 .. Len(met) /\ met[i] = y
            BY <3>3, <4>2
          <5>2. (i < taken \/ (i = taken /\ z \notin toward)) \/ (i = taken /\ z = w)
            BY <3>7, <5>1 DEF Passed
          <5> QED
            BY <3>5, <5>1, <5>2
        <4> QED
          BY <1>0, <2>3, <4>1, <4>2 DEF Passed
      <3> QED
        BY <3>8, <3>9
    <2> QED
      BY <2>1, <2>2, <2>3
  <1>11. ~Passed(v, w)
    BY <1>a, <1>1, <1>2 DEF Passed
  <1>12. Popped' = {}
    <2> SUFFICES ASSUME NEW x \in Accounts, dist'[x] >= 0
                 PROVE  \E i \in 1 .. Len(met') : met'[i] = x
      BY DEF Popped
    <2>1. CASE dist[x] >= 0
      <3>1. PICK i \in 1 .. Len(met) : met[i] = x
        BY <1>4, <2>1 DEF Popped
      <3>2. i \in 1 .. Len(met') /\ met'[i] = x
        BY <1>1, <1>5, <3>1
      <3> QED
        BY <3>2
    <2>2. CASE ~(dist[x] >= 0)
      <3>1. x = w /\ dist[w] < 0
        BY <1>2, <1>5, <2>2
      <3>2. Len(met) + 1 \in 1 .. Len(met') /\ met'[Len(met) + 1] = w
        BY <1>1, <1>5, <3>1
      <3> QED
        BY <3>1, <3>2
    <2> QED
      BY <2>1, <2>2
  <1>13. Widening' /\ Emptied'
    <2>1. ASSUME NEW y \in Accounts, NEW z \in Accounts, Passed(y, z)'
          PROVE  dist'[z] >= 0 /\ dist'[z] <= dist'[y] + 1
      <3>1. CASE y = v /\ z = w
        BY <1>2, <1>5, <3>1
      <3>2. CASE Passed(y, z)
        <4>1. dist[y] >= 0 /\ dist[z] >= 0 /\ dist[z] <= dist[y] + 1
          BY <3>2 DEF Passed, RankInv, Widening
        <4> QED
          BY <1>5, <4>1
      <3> QED
        BY <1>10, <2>1, <3>1, <3>2
    <2> QED
      BY <1>12, <2>1 DEF Widening, Emptied
  <1>14. ASSUME NEW e \in flows, Passed(e[1], e[2])
         PROVE  dist'[e[1]] = dist[e[1]] /\ dist'[e[2]] = dist[e[2]]
    <2>1. e[1] \in Accounts /\ e[2] \in Accounts
      BY <1>d
    <2>2. dist[e[1]] >= 0 /\ dist[e[2]] >= 0
      BY <1>14, <2>1 DEF Passed, RankInv, Widening
    <2> QED
      BY <1>5, <2>1, <2>2
  <1>15. \A e \in flows : e = <<v, w>> <=> e[1] = v /\ e[2] = w
    BY <1>d
  <1>16. dist'[v] = dist[v]
    BY <1>2, <1>5
  <1>17. Followed' = IF dist'[w] = dist[v] + 1 THEN Followed \cup {<<v, w>>} ELSE Followed
    <2>1. ASSUME NEW e
          PROVE  e \in Followed' <=> e \in Followed \/ (dist'[w] = dist[v] + 1 /\ e = <<v, w>>)
      <3>1. CASE e \notin flows
        BY <1>0, <1>2, <3>1 DEF Followed
      <3>2. CASE e = <<v, w>>
        BY <1>0, <1>2, <1>10, <1>11, <1>16, <3>2 DEF Followed
      <3>3. CASE e \in flows /\ e # <<v, w>>
        <4>1. Passed(e[1], e[2])' <=> Passed(e[1], e[2])
          BY <1>10, <1>15, <3>3
        <4> QED
          BY <1>0, <1>14, <3>3, <4>1 DEF Followed
      <3> QED
        BY <3>1, <3>2, <3>3
    <2> QED
      BY <2>1
  <1>18. Steep(Followed', dist') /\ <<v, w>> \notin Followed
    <2>1. <<v, w>> \notin Followed
      BY <1>11 DEF Followed
    <2>2. Followed' \subseteq flows /\ \A e \in Followed' : dist'[e[2]] = dist'[e[1]] + 1
      BY <1>0 DEF Followed
    <2> QED
      BY <1>d, <1>0, <1>5, <2>1, <2>2 DEF Steep
  <1>19. dist'[w] = dist[v] + 1 => \A x : <<w, x>> \notin Followed
    <2> SUFFICES ASSUME dist'[w] = dist[v] + 1, NEW x, Passed(w, x)
                 PROVE  FALSE
      BY DEF Followed
    <2>1. dist[w] >= 0
      BY DEF Passed
    <2>2. dist[w] = dist[v] + 1
      BY <1>5, <2>1
    <2>3. PICK j \in 1 .. Len(met) : met[j] = w
      BY <1>2, <1>4, <2>1 DEF Popped
    <2>4. j <= taken
      BY <1>1, <2>3 DEF Passed
    <2>5. dist[w] <= dist[v]
      <3>1. CASE j = taken
        BY <1>a, <1>2, <2>3, <3>1
      <3>2. CASE j < taken
        BY <1>a, <1>1, <2>3, <3>2
      <3> QED
        BY <1>1, <2>4, <3>1, <3>2
    <2> QED
      BY <1>2, <2>2, <2>5
  <1>20. Tallied'
    <2> SUFFICES ASSUME origin # 0, NEW x \in Accounts
                 PROVE  /\ counts'[x] = Cardinality(Ways(Followed', origin, x))
                        /\ dist'[x] >= 0 => counts'[x] >= 1
      BY <1>0 DEF Tallied
    <2>1. \A y \in Accounts : /\ counts[y] = Cardinality(Ways(Followed, origin, y))
                              /\ dist[y] >= 0 => counts[y] >= 1
      BY DEF RankInv, Tallied
    <2>2. counts[x] \in Nat /\ counts[v] \in Nat /\ counts[v] >= 1
      BY <1>f, <1>2, <2>1
    <2>3. CASE dist'[w] # dist[v] + 1
      <3>1. Followed' = Followed /\ counts' = counts
        BY <1>c, <1>17, <2>3
      <3>2. dist' = dist
        BY <1>2, <1>5, <2>3
      <3>3. Cardinality(Ways(Followed', origin, x)) = Cardinality(Ways(Followed, origin, x))
        BY Zenon, <3>1
      <3> QED
        BY <2>1, <3>1, <3>2, <3>3
    <2>4. CASE dist'[w] = dist[v] + 1
      <3>0. PICK G : G = Followed'
        OBVIOUS
      <3>1. G = Followed \cup {<<v, w>>} /\ Steep(G, dist')
        BY <1>17, <1>18, <2>4, <3>0
      <3>2. counts' = [counts EXCEPT ![w] = @ + counts[v]]
        BY <1>c, <2>4
      <3>3. /\ \A y : y # w => Cardinality(Ways(G, origin, y)) = Cardinality(Ways(Followed, origin, y))
            /\ origin # w => Cardinality(Ways(G, origin, w))
                               = Cardinality(Ways(Followed, origin, w)) + Cardinality(Ways(Followed, origin, v))
        <4>1. PICK F : F = Followed
          OBVIOUS
        <4>d. PICK d : d = dist'
          OBVIOUS
        <4>2. Grown(F, G, v, w) /\ Steep(G, d)
          BY <1>18, <1>19, <2>4, <3>1, <4>1, <4>d DEF Grown
        <4>o. PICK o : o = origin
          OBVIOUS
        <4>3. ASSUME NEW y, y # w
              PROVE  Cardinality(Ways(G, o, y)) = Cardinality(Ways(F, o, y))
          BY <4>2, <4>3, WaysKept
        <4>4. ASSUME o # w
              PROVE  Cardinality(Ways(G, o, w)) = Cardinality(Ways(F, o, w)) + Cardinality(Ways(F, o, v))
          BY <4>2, <4>4, WaysGrow
        <4> QED
          BY <4>1, <4>o, <4>3, <4>4
      <3>4. origin # w
        <4>1. dist'[w] # 0
          BY <1>2, <2>4
        <4> QED
          BY <1>0, <1>2, <1>9, <4>1 DEF Rooted
      <3>5. CASE x = w
        <4>1. counts'[w] = counts[w] + counts[v]
          BY <1>f, <1>2, <3>2
        <4>2. Cardinality(Ways(G, origin, w)) = counts[w] + counts[v]
          BY <1>2, <2>1, <3>3, <3>4
        <4>3. counts[w] + counts[v] >= 1
          BY <2>2, <3>5
        <4> QED
          BY <3>0, <3>5, <4>1, <4>2, <4>3
      <3>6. CASE x # w
        <4>1. counts'[x] = counts[x] /\ dist'[x] = dist[x]
          BY <1>f, <1>5, <3>2, <3>6
        <4>2. Cardinality(Ways(G, origin, x)) = counts[x]
          BY <2>1, <3>3, <3>6
        <4> QED
          BY <2>1, <3>0, <4>1, <4>2
      <3> QED
        BY <3>5, <3>6
    <2> QED
      BY <2>3, <2>4
  <1>21. Owed'
    <2> SUFFICES ASSUME origin # 0, NEW x \in Accounts
                 PROVE  delta'[x] = counts'[x] * Worth(Followed', Popped', counts', x)
      BY <1>0 DEF Owed
    <2>1. Worth(Followed', Popped', counts', x) = 0
      BY <1>6, <1>12, <1>18, WorthIs DEF RankTyped
    <2>2. Worth(Followed, Popped, counts, x) = 0
      BY <1>f, <1>4, FollowedSteep, WorthIs DEF RankInv
    <2>3. delta[x] = counts[x] * Worth(Followed, Popped, counts, x)
      BY DEF RankInv, Owed
    <2>4. counts[x] \in Nat /\ counts'[x] \in Nat
      BY <1>f, <1>6 DEF RankTyped
    <2>5. \A a \in Nat : a * 0 = 0
      OBVIOUS
    <2> QED
      BY <1>0, <2>1, <2>2, <2>3, <2>4, <2>5
  <1>22. Gathered'
    <2>1. Popped' = Popped
      BY <1>4, <1>12
    <2> QED
      BY <1>0, <2>1, GatheredStays DEF RankInv
  <1> QED
    BY <1>6, <1>8, <1>9, <1>13, <1>20, <1>21, <1>22 DEF RankInv

(* Multiples share out evenly.                                             *)
LEMMA Quotient ==
  \A y \in Nat : \A c \in Nat \ {0} : (c * y) \div c = y
  <1> SUFFICES ASSUME NEW y \in Nat, NEW c \in Nat \ {0}
               PROVE  (c * y) \div c = y
    OBVIOUS
  <1>1. c % c = 0 /\ c \div c = 1 /\ c \in Nat /\ 1 * y = y
    OBVIOUS
  <1>2. (c * y) \div c = (c \div c) * y
    BY Zenon, <1>1, DividedOut
  <1> QED
    BY Zenon, <1>1, <1>2

(* One more account off the stack: what those before it are worth.         *)
Joins(F, P, w, Q) ==
  w \notin P /\ Q = P \cup {w} /\ \A x \in Accounts : <<w, x>> \in F => x \in P

(* An account joining the set adds its paths to its predecessors'.         *)
LEMMA WorthGrow ==
  ASSUME NEW F, NEW d, Steep(F, d), NEW P, NEW Q, NEW w \in Accounts,
         Joins(F, P, w, Q), NEW c \in [Accounts -> Nat], NEW v \in Accounts
  PROVE  /\ <<v, w>> \in F => Worth(F, Q, c, v) = Worth(F, P, c, v) + (Part(c, w) + Worth(F, P, c, w))
         /\ <<v, w>> \notin F => Worth(F, Q, c, v) = Worth(F, P, c, v)
  <1> USE NetworkAssumption, UnitAssumption
  <1>0. IsFiniteSet(Accounts)
    BY DEF NetworkAssumption
  <1>1. PICK f : f = Worths(F, P, c, v)
    OBVIOUS
  <1>2. PICK h : h = Worths(F, Q, c, v)
    OBVIOUS
  <1>3. PICK k : k = Worths(F, P, c, w)
    OBVIOUS
  <1>4. PICK r : r = Worth(F, P, c, v)
    OBVIOUS
  <1>5. PICK rr : rr = Worth(F, Q, c, v)
    OBVIOUS
  <1>6. PICK rw : rw = Worth(F, P, c, w)
    OBVIOUS
  <1>7. r = SumOver(f, Accounts) /\ rr = SumOver(h, Accounts) /\ rw = SumOver(k, Accounts)
    BY Zenon, <1>1, <1>2, <1>3, <1>4, <1>5, <1>6 DEF Worth
  <1>8. ASSUME NEW t \in Accounts
        PROVE  /\ f[t] = Part(c, t) * Cardinality(Via(F, P, v, t)) /\ f[t] \in Nat
               /\ h[t] = Part(c, t) * Cardinality(Via(F, Q, v, t)) /\ h[t] \in Nat
               /\ k[t] = Part(c, t) * Cardinality(Via(F, P, w, t)) /\ k[t] \in Nat
               /\ Part(c, t) \in Nat
    <2>1. /\ Worths(F, P, c, v)[t] = Part(c, t) * Cardinality(Via(F, P, v, t))
          /\ Worths(F, P, c, v)[t] \in Nat /\ Part(c, t) \in Nat
      BY WorthIs
    <2>2. /\ Worths(F, Q, c, v)[t] = Part(c, t) * Cardinality(Via(F, Q, v, t))
          /\ Worths(F, Q, c, v)[t] \in Nat
      BY WorthIs
    <2>3. /\ Worths(F, P, c, w)[t] = Part(c, t) * Cardinality(Via(F, P, w, t))
          /\ Worths(F, P, c, w)[t] \in Nat
      BY WorthIs
    <2> QED
      BY Zenon, <1>1, <1>2, <1>3, <2>1, <2>2, <2>3
  <1>9. ASSUME NEW t \in Accounts
        PROVE  /\ <<v, w>> \in F => Cardinality(Via(F, Q, v, t))
                                      = Cardinality(Via(F, P, v, t)) + Cardinality(Ways(F, w, t))
               /\ <<v, w>> \notin F => Cardinality(Via(F, Q, v, t)) = Cardinality(Via(F, P, v, t))
               /\ Cardinality(Via(F, P, v, t)) \in Nat /\ Cardinality(Ways(F, w, t)) \in Nat
    <2>1. Cardinality(Via(F, P, v, t)) \in Nat
      BY ViaIs
    <2>2. Cardinality(Ways(F, w, t)) \in Nat
      BY WaysFinite
    <2>3. Cardinality(Via(F, Q, v, t))
                    = Cardinality(Via(F, P, v, t)) + (IF <<v, w>> \in F THEN Cardinality(Ways(F, w, t)) ELSE 0)
      BY ViaGrow DEF Joins
    <2>4. \A n \in Nat : n + 0 = n
      OBVIOUS
    <2> QED
      BY Zenon, <2>1, <2>2, <2>3, <2>4
  <1>10. CASE <<v, w>> \notin F
    <2>1. ASSUME NEW t \in Accounts PROVE h[t] = f[t] /\ f[t] \in Nat
      <3>1. Cardinality(Via(F, Q, v, t)) = Cardinality(Via(F, P, v, t))
        BY Zenon, <1>9, <1>10
      <3> QED
        BY Zenon, <1>8, <3>1
    <2>2. rr = r /\ r \in Nat
      BY <1>0, <1>7, <2>1, SumSame, SumParts
    <2> QED
      BY <1>4, <1>5, <1>10, <2>2
  <1>11. CASE <<v, w>> \in F
    <2> DEFINE g == [t \in Accounts |-> Part(c, t) * Cardinality(Ways(F, w, t))]
    <2>1. ASSUME NEW t \in Accounts
          PROVE  g[t] = Part(c, t) * Cardinality(Ways(F, w, t)) /\ g[t] \in Nat
      <3>1. \A a, b \in Nat : a * b \in Nat
        OBVIOUS
      <3> QED
        BY <1>8, <1>9, <3>1
    <2> HIDE DEF g
    <2>2. ASSUME NEW t \in Accounts
          PROVE  h[t] = f[t] + g[t]
      <3>1. \A a, b, e \in Nat : a * (b + e) = a * b + a * e
        OBVIOUS
      <3>2. Cardinality(Via(F, Q, v, t)) = Cardinality(Via(F, P, v, t)) + Cardinality(Ways(F, w, t))
        BY Zenon, <1>9, <1>11
      <3>3. PICK a \in Nat : a = Part(c, t)
        BY <1>8
      <3>4. PICK b \in Nat : b = Cardinality(Via(F, P, v, t))
        BY <1>9
      <3>5. PICK e \in Nat : e = Cardinality(Ways(F, w, t))
        BY <1>9
      <3>6. h[t] = a * (b + e) /\ f[t] = a * b /\ g[t] = a * e
        BY Zenon, <1>8, <2>1, <3>2, <3>3, <3>4, <3>5
      <3> QED
        BY <3>1, <3>6
    <2>3. /\ SumOver(h, Accounts) = SumOver(f, Accounts) + SumOver(g, Accounts)
          /\ SumOver(f, Accounts) \in Nat /\ SumOver(g, Accounts) \in Nat
      <3> DEFINE S == Accounts
      <3>1. IsFiniteSet(S) /\ \A t \in S : f[t] \in Nat /\ g[t] \in Nat /\ h[t] = f[t] + g[t]
        BY <1>0, <1>8, <2>1, <2>2
      <3> HIDE DEF S
      <3>2. SumOver(h, S) = SumOver(f, S) + SumOver(g, S)
        BY <3>1, SumTwo
      <3>3. SumOver(f, S) \in Nat
        BY <3>1, SumParts
      <3>4. SumOver(g, S) \in Nat
        BY <3>1, SumParts
      <3> QED
        BY Zenon, <3>2, <3>3, <3>4 DEF S
    <2>4. k[w] = 0 /\ g[w] = Part(c, w)
      <3>1. Cardinality(Via(F, P, w, w)) = 0
        BY ViaIs
      <3>2. Cardinality(Ways(F, w, w)) = 1
        BY WaysSelf
      <3>3. Part(c, w) \in Nat /\ k[w] = Part(c, w) * 0 /\ g[w] = Part(c, w) * 1
        BY Zenon, <1>8, <2>1, <3>1, <3>2
      <3>4. \A a \in Nat : a * 0 = 0 /\ a * 1 = a
        OBVIOUS
      <3> QED
        BY Zenon, <3>3, <3>4
    <2>5. ASSUME NEW t \in Accounts, t # w
          PROVE  g[t] = k[t]
      <3>1. Via(F, P, w, t) = Ways(F, w, t)
        BY <2>5, ViaAll DEF Joins
      <3> QED
        BY Zenon, <1>8, <2>1, <3>1
    <2>6. SumOver(g, Accounts) + k[w] = SumOver(k, Accounts) + g[w] /\ SumOver(k, Accounts) \in Nat
      <3>1. \A t \in Accounts : k[t] \in Nat /\ g[t] \in Nat /\ (t # w => g[t] = k[t])
        BY <1>8, <2>1, <2>5
      <3> QED
        <4> DEFINE S == Accounts
        <4>1. IsFiniteSet(S) /\ w \in S /\ \A t \in S : k[t] \in Nat /\ g[t] \in Nat /\ (t # w => g[t] = k[t])
          BY Zenon, <1>0, <3>1
        <4> HIDE DEF S
        <4>2. SumOver(g, S) + k[w] = SumOver(k, S) + g[w] /\ SumOver(k, S) \in Nat
          BY <4>1, SumDiffers
        <4> QED
          BY Zenon, <4>2 DEF S
    <2>7. Part(c, w) \in Nat
      BY <1>8
    <2>8. rr = r + (Part(c, w) + rw)
      BY <1>7, <2>3, <2>4, <2>6, <2>7
    <2> QED
      BY <1>4, <1>5, <1>6, <1>11, <2>8
  <1> QED
    BY <1>10, <1>11

(* The deepest account is taken off the stack, and its dependency passed   *)
(* on to its predecessors and credited to it.                              *)
LEMMA AccumulateKeeps ==
  ASSUME NetworkAssumption, UnitAssumption, RankInv, NEW w, Accumulate(w)
  PROVE  RankInv'
  <1> DEFINE n == Len(met)
             D == Worth(Followed, Popped, counts, w)
  <1>0. /\ flows' = flows /\ starts' = starts /\ origin' = origin
        /\ toward' = toward /\ dist' = dist /\ counts' = counts
    BY DEF Accumulate
  <1>a. met # <<>> /\ toward = {} /\ taken = n /\ w = met[n]
    BY DEF Accumulate
  <1>b. met' = SubSeq(met, 1, n - 1) /\ taken' = n - 1
    BY DEF Accumulate
  <1>c. /\ delta' = [v \in Accounts |->
                       IF v \in Predecessors(w)
                       THEN delta[v] + (counts[v] * (Unit + delta[w])) \div counts[w]
                       ELSE delta[v]]
        /\ cb' = IF w # origin THEN [cb EXCEPT ![w] = @ + delta[w]] ELSE cb
    BY DEF Accumulate, Credited
  <1>d. /\ flows \subseteq Accounts \X Accounts /\ met \in Seq(Accounts)
        /\ dist \in [Accounts -> Int]
    BY DEF RankInv, RankTyped
  <1>e. /\ counts \in [Accounts -> Nat] /\ delta \in [Accounts -> Nat]
        /\ cb \in [Accounts -> Nat]
    BY DEF RankInv, RankTyped
  <1>1. /\ n \in Nat \ {0} /\ \A i \in 1 .. n : met[i] \in Accounts /\ dist[met[i]] \in Int
        /\ w \in Accounts /\ n \in 1 .. n
    <2>1. n \in Nat \ {0} /\ \A i \in 1 .. n : met[i] \in Accounts /\ dist[met[i]] \in Int
      BY <1>a, <1>d
    <2>2. n \in 1 .. n
      BY <2>1
    <2> QED
      BY <1>a, <2>1, <2>2
  <1>2. /\ \A i \in 1 .. n : dist[met[i]] >= 0
        /\ \A i, j \in 1 .. n : i < j => met[i] # met[j] /\ dist[met[i]] <= dist[met[j]]
    BY DEF RankInv, Queued
  <1>3. \A i \in 1 .. n : dist[met[i]] <= dist[w]
    <2>1. \A i \in 1 .. n : i < n \/ i = n
      BY <1>1
    <2> QED
      BY <1>a, <1>1, <1>2, <2>1
  <1>4. /\ Len(met') = n - 1 /\ n - 1 \in Nat /\ met' \in Seq(Accounts)
        /\ \A i \in 1 .. n - 1 : met'[i] = met[i] /\ i \in 1 .. n /\ i < n
    <2>1. 1 .. n - 1 \subseteq 1 .. n /\ n - 1 \in Nat
      BY <1>1
    <2>2. n - 1 \in 0 .. Len(met)
      BY <1>1
    <2>3. met' \in Seq(Accounts) /\ Len(met') = n - 1 /\ \A i \in 1 .. n - 1 : met'[i] = met[i]
      <3>1. 1 \in 1 .. Len(met) + 1 /\ n - 1 \in 1 - 1 .. Len(met) /\ (n - 1) - 1 + 1 = n - 1
        BY <1>1
      <3> HIDE DEF n
      <3>2. /\ met' \in Seq(Accounts) /\ Len(met') = (n - 1) - 1 + 1
            /\ \A i \in 1 .. (n - 1) - 1 + 1 : met'[i] = met[1 + i - 1]
        BY <1>b, <1>d, <3>1, SubSeqProperties
      <3>3. \A i \in 1 .. n - 1 : 1 + i - 1 = i
        OBVIOUS
      <3> QED
        BY Zenon, <3>1, <3>2, <3>3
    <2> QED
      BY <1>1, <2>1, <2>3
  <1>5. /\ origin \in Accounts /\ origin # 0 /\ met[1] = origin /\ dist[w] \in Int /\ dist[w] >= 0
        /\ origin \in Nodes \ starts /\ dist[origin] = 0
    <2>1. met[1] = origin
      BY <1>a DEF RankInv, Rooted
    <2>2. 1 \in 1 .. n
      BY <1>1
    <2>3. 0 \notin Accounts
      BY <1>d, NodesIn
    <2>4. origin \in Accounts /\ origin # 0
      BY <1>1, <2>1, <2>2, <2>3
    <2>5. origin \in Nodes \ starts /\ dist[origin] = 0
      BY <2>4 DEF RankInv, RankTyped, Rooted
    <2> QED
      BY <1>a, <1>1, <1>2, <2>1, <2>4, <2>5
  <1>6. Queued'
    <2>1. \A i \in 1 .. Len(met') : dist'[met'[i]] >= 0
      BY <1>0, <1>2, <1>4
    <2>2. \A i, j \in 1 .. Len(met') : i < j => met'[i] # met'[j] /\ dist'[met'[i]] <= dist'[met'[j]]
      BY <1>0, <1>2, <1>4
    <2>3. taken' = Len(met')
      BY <1>b, <1>4
    <2>4. ASSUME NEW i \in 1 .. Len(met'), taken' # 0
          PROVE  dist'[met'[i]] <= dist'[met'[taken']] + 1
      <3>1. i < n - 1 \/ i = n - 1
        BY <1>4
      <3>2. /\ n - 1 \in 1 .. n - 1 /\ i \in 1 .. n - 1
            /\ dist[met[i]] \in Int /\ dist[met[n - 1]] \in Int
        BY <1>1, <1>4, <1>b, <2>4
      <3>3. dist[met[i]] <= dist[met[n - 1]]
        BY <1>2, <1>4, <3>1, <3>2
      <3>4. met'[i] = met[i] /\ met'[n - 1] = met[n - 1]
        BY <1>4, <3>2
      <3>5. dist[met[i]] <= dist[met[n - 1]] + 1
        BY <3>2, <3>3
      <3> QED
        BY Zenon, <1>0, <1>b, <3>4, <3>5
    <2>5. taken' = 0 => Len(met') <= 1
      BY <2>3
    <2> QED
      BY <1>0, <1>a, <2>1, <2>2, <2>4, <2>5 DEF Queued
  <1>7. Rooted'
    <2>1. met' # <<>> => 1 \in 1 .. n - 1
      BY <1>4
    <2>2. met' # <<>> => met'[1] = origin
      BY <1>4, <1>5, <2>1
    <2>3. \A v \in Accounts : dist[v] = 0 <=> v = origin
      BY DEF RankInv, Rooted
    <2> QED
      BY <1>0, <2>2, <2>3 DEF Rooted
  <1>8. ASSUME NEW y, NEW z
        PROVE  /\ Passed(y, z)' <=> Passed(y, z)
               /\ Passed(y, z) <=> dist[y] >= 0 /\ <<y, z>> \in flows
    <2>1. \A i \in 1 .. Len(met) : i < taken \/ (i = taken /\ z \notin toward)
      BY <1>a, <1>1
    <2>2. \A i \in 1 .. Len(met') : i < taken' \/ (i = taken' /\ z \notin toward')
      BY <1>0, <1>a, <1>b, <1>4
    <2> QED
      BY <1>0, <2>1, <2>2 DEF Passed
  <1>9. Followed' = Followed
    BY <1>0, <1>8 DEF Followed
  <1>10. \A v : v \in Predecessors(w) <=> v \in Accounts /\ <<v, w>> \in Followed
    <2> SUFFICES ASSUME NEW v
                 PROVE  v \in Predecessors(w) <=> v \in Accounts /\ <<v, w>> \in Followed
      OBVIOUS
    <2>1. Passed(v, w) <=> dist[v] >= 0 /\ <<v, w>> \in flows
      BY <1>8
    <2> QED
      BY <2>1 DEF Predecessors, Followed
  <1>11. w \notin Popped /\ Popped' = Popped \cup {w}
    <2>1. w \notin Popped
      BY <1>a, <1>1 DEF Popped
    <2>2. ASSUME NEW x
          PROVE  x \in Popped' <=> x \in Popped \/ x = w
      <3>1. (\A i \in 1 .. Len(met') : met'[i] # x) <=> (\A i \in 1 .. n - 1 : met[i] # x)
        BY <1>4
      <3>2. (\A i \in 1 .. n : met[i] # x) <=> (\A i \in 1 .. n - 1 : met[i] # x) /\ w # x
        <4>1. \A i \in 1 .. n : i \in 1 .. n - 1 \/ i = n
          BY <1>1
        <4> QED
          BY <1>a, <1>1, <1>4, <4>1
      <3>3. \A i \in 1 .. n - 1 : met[i] # w
        BY <1>a, <1>1, <1>2, <1>4
      <3>4. x \in Popped' <=> x \in Accounts /\ dist[x] >= 0 /\ \A i \in 1 .. n - 1 : met[i] # x
        BY <1>0, <3>1 DEF Popped
      <3>5. x \in Popped <=> x \in Accounts /\ dist[x] >= 0 /\ \A i \in 1 .. n : met[i] # x
        BY DEF Popped
      <3> QED
        BY <1>1, <1>5, <3>2, <3>3, <3>4, <3>5
    <2>3. Popped' = Popped \cup {w}
      BY <2>2
    <2> QED
      BY <2>1, <2>3
  <1>12. Widening' /\ Emptied'
    <2>1. \A y, z \in Accounts : Passed(y, z) => dist[z] >= 0 /\ dist[z] <= dist[y] + 1
      BY DEF RankInv, Widening
    <2>2. Widening'
      BY <1>0, <1>8, <2>1 DEF Widening
    <2>3. toward' = {} /\ taken' = Len(met')
      BY <1>0, <1>a, <1>b, <1>4
    <2>4. ASSUME NEW v \in Popped', NEW i \in 1 .. Len(met')
          PROVE  dist'[met'[i]] <= dist'[v]
      <3>1. i \in 1 .. n /\ met'[i] = met[i]
        BY <1>4
      <3>2. v \in Popped \/ v = w
        BY <1>11
      <3>3. dist[met[i]] <= dist[v]
        <4>1. CASE v = w
          BY <1>3, <3>1, <4>1
        <4>2. CASE v \in Popped
          BY <3>1, <4>2 DEF RankInv, Emptied
        <4> QED
          BY <3>2, <4>1, <4>2
      <3> QED
        BY Zenon, <1>0, <3>1, <3>3
    <2> QED
      BY <2>2, <2>3, <2>4 DEF Emptied
  <1>13. \A x \in Accounts : <<w, x>> \in Followed => x \in Popped
    <2> SUFFICES ASSUME NEW x \in Accounts, <<w, x>> \in Followed, NEW i \in 1 .. n, met[i] = x
                 PROVE  FALSE
      <3>1. ASSUME NEW x \in Accounts, <<w, x>> \in Followed
            PROVE  dist[x] >= 0
        BY <1>5, <3>1 DEF Followed
      <3> QED
        BY <3>1 DEF Popped
    <2>1. dist[x] = dist[w] + 1
      BY DEF Followed
    <2>2. dist[x] <= dist[w]
      BY <1>3
    <2> QED
      BY <1>5, <2>1, <2>2
  <1>14. Steep(Followed, dist) /\ D \in Nat
    BY <1>1, <1>e, FollowedSteep, WorthIs DEF RankInv
  <1> HIDE DEF D, n
  <1>15. counts[w] \in Nat \ {0} /\ Part(counts, w) \in Nat /\ Unit = counts[w] * Part(counts, w)
         /\ delta[w] = counts[w] * D /\ delta[w] \in Nat /\ Unit \in Nat
    <2>1. counts[w] \in Nat /\ counts[w] >= 1
      BY <1>1, <1>5, <1>e DEF RankInv, Tallied
    <2>2. counts[w] # 0
      BY <2>1
    <2>3. Part(counts, w) \in Nat /\ Unit \in Nat /\ Unit % counts[w] = 0 /\ Part(counts, w) = Unit \div counts[w]
      BY <1>1, <1>5, <2>2, PartIs DEF RankInv
    <2>4. Unit = counts[w] * (Unit \div counts[w])
      BY <2>1, <2>2, <2>3, Divided
    <2>5. delta[w] = counts[w] * Worth(Followed, Popped, counts, w) /\ delta[w] \in Nat
      BY <1>1, <1>5, <1>e DEF RankInv, Owed
    <2> QED
      BY Zenon, <2>1, <2>2, <2>3, <2>4, <2>5 DEF D
  <1>16. ASSUME NEW v \in Accounts
         PROVE  /\ delta'[v] = delta[v] + (IF <<v, w>> \in Followed
                                            THEN counts[v] * (Part(counts, w) + D) ELSE 0)
                /\ delta'[v] \in Nat
    <2>1. delta[v] \in Nat /\ counts[v] \in Nat
      BY <1>e
    <2>2. (counts[v] * (counts[w] * Part(counts, w) + counts[w] * D)) \div counts[w]
             = counts[v] * (Part(counts, w) + D)
      <3>1. PICK a \in Nat : a = counts[v]
        BY <2>1
      <3>2. PICK c \in Nat \ {0} : c = counts[w]
        BY <1>15
      <3>3. PICK p \in Nat : p = Part(counts, w)
        BY <1>15
      <3>4. PICK q \in Nat : q = D
        BY <1>14
      <3>5. (a * (c * p + c * q)) \div c = a * (p + q)
        <4> DEFINE y == a * (p + q)
        <4>1. a * (c * p + c * q) = c * y /\ y \in Nat
          OBVIOUS
        <4> HIDE DEF y
        <4>2. (c * y) \div c = y
          BY Zenon, <4>1, Quotient
        <4> QED
          BY Zenon, <4>1, <4>2 DEF y
      <3> QED
        BY Zenon, <3>1, <3>2, <3>3, <3>4, <3>5
    <2>3. (counts[v] * (Unit + delta[w])) \div counts[w] = counts[v] * (Part(counts, w) + D)
      BY Zenon, <1>15, <2>2
    <2>4. delta'[v] = IF v \in Predecessors(w)
                      THEN delta[v] + (counts[v] * (Unit + delta[w])) \div counts[w] ELSE delta[v]
      BY <1>c
    <2>5. v \in Predecessors(w) <=> <<v, w>> \in Followed
      BY <1>10
    <2>6. \A a, b, c \in Nat : a * (b + c) \in Nat
      OBVIOUS
    <2>7. PICK r \in Nat : r = counts[v] * (Part(counts, w) + D)
      BY Zenon, <1>14, <1>15, <2>1, <2>6
    <2>8. delta'[v] = IF <<v, w>> \in Followed THEN delta[v] + r ELSE delta[v]
      BY Zenon, <2>3, <2>4, <2>5, <2>7
    <2>9. delta'[v] = delta[v] + (IF <<v, w>> \in Followed THEN r ELSE 0) /\ delta'[v] \in Nat
      BY <2>1, <2>8
    <2> QED
      BY Zenon, <2>7, <2>9
  <1>17. RankTyped'
    <2>1. delta' \in [Accounts -> Nat]
      <3>1. \A v \in Accounts : delta'[v] \in Nat
        BY <1>16
      <3>2. delta' = [v \in Accounts |-> delta'[v]]
        BY <1>c
      <3> QED
        BY <3>1, <3>2
    <2>2. cb' \in [Accounts -> Nat]
      BY <1>c, <1>e, <1>1, <1>15
    <2>3. taken' \in 0 .. Len(met') /\ toward' \subseteq Accounts
      BY <1>0, <1>a, <1>b, <1>4 DEF n
    <2>4. Nodes' = Nodes
      BY <1>0, GraphStays
    <2> QED
      BY <1>0, <1>4, <2>1, <2>2, <2>3, <2>4 DEF RankInv, RankTyped
  <1>18. Tallied'
    <2>1. origin # 0 => \A x \in Accounts : /\ counts[x] = Cardinality(Ways(Followed, origin, x))
                                            /\ dist[x] >= 0 => counts[x] >= 1
      BY DEF RankInv, Tallied
    <2> QED
      BY Zenon, <1>0, <1>9, <2>1 DEF Tallied
  <1>19. Owed'
    <2> SUFFICES ASSUME NEW v \in Accounts
                 PROVE  delta'[v] = counts[v] * Worth(Followed, Popped', counts, v)
      BY Zenon, <1>0, <1>9 DEF Owed
    <2>1. PICK b \in Nat : b = Worth(Followed, Popped, counts, v)
      BY <1>14, <1>e, WorthIs
    <2>2. PICK r \in Nat : r = Part(counts, w) + D
      BY <1>14, <1>15
    <2>3. delta[v] = counts[v] * b
      BY <1>5, <2>1 DEF RankInv, Owed
    <2>4. Worth(Followed, Popped', counts, v) = b + (IF <<v, w>> \in Followed THEN r ELSE 0)
      <3>1. PICK F : F = Followed
        OBVIOUS
      <3>2. PICK P : P = Popped
        OBVIOUS
      <3>3. PICK Q : Q = Popped'
        OBVIOUS
      <3>4. PICK c \in [Accounts -> Nat] : c = counts
        BY <1>e
      <3>5. PICK d : d = dist
        OBVIOUS
      <3>6. Steep(F, d) /\ Joins(F, P, w, Q)
        BY Zenon, <1>11, <1>13, <1>14, <3>1, <3>2, <3>3, <3>5 DEF Joins
      <3>w. w \in Accounts /\ c \in [Accounts -> Nat]
        BY <1>1
      <3>7. <<v, w>> \in F => Worth(F, Q, c, v) = Worth(F, P, c, v) + (Part(c, w) + Worth(F, P, c, w))
        BY <3>6, <3>w, WorthGrow
      <3>8. <<v, w>> \notin F => Worth(F, Q, c, v) = Worth(F, P, c, v)
        BY <3>6, <3>w, WorthGrow
      <3>9. b + 0 = b
        BY <2>1
      <3> QED
        BY Zenon, <2>1, <2>2, <3>1, <3>2, <3>3, <3>4, <3>7, <3>8, <3>9 DEF D
    <2>5. delta'[v] = delta[v] + (IF <<v, w>> \in Followed THEN counts[v] * r ELSE 0)
      BY Zenon, <1>16, <2>2
    <2>6. \A a, p, q \in Nat : a * p + 0 = a * (p + 0) /\ a * p + a * q = a * (p + q)
      OBVIOUS
    <2>7. PICK a \in Nat : a = counts[v]
      BY <1>e
    <2>8. CASE <<v, w>> \in Followed
      <3>1. delta'[v] = a * b + a * r /\ Worth(Followed, Popped', counts, v) = b + r
        BY Zenon, <2>3, <2>4, <2>5, <2>7, <2>8
      <3>2. a * b + a * r = a * (b + r)
        BY <2>6
      <3> QED
        BY Zenon, <2>7, <3>1, <3>2
    <2>9. CASE <<v, w>> \notin Followed
      <3>1. delta'[v] = a * b + 0 /\ Worth(Followed, Popped', counts, v) = b + 0
        BY Zenon, <2>3, <2>4, <2>5, <2>7, <2>9
      <3>2. a * b + 0 = a * (b + 0)
        BY <2>6
      <3> QED
        BY Zenon, <2>7, <3>1, <3>2
    <2> QED
      BY <2>8, <2>9
  <1>20. ASSUME NEW v \in Nodes
         PROVE  /\ \A s \in Nodes \ {v} : Rows(v)'[s] \in Nat
                /\ cb'[v] = SumOver(Rows(v)', Nodes \ {v})
    <2> DEFINE S == Nodes \ {v}
    <2>1. PICK f : f = Rows(v)
      OBVIOUS
    <2>2. PICK h : h = Rows(v)'
      OBVIOUS
    <2>3. /\ \A s \in S : f[s] \in Nat
          /\ cb[v] = SumOver(f, S)
      BY Zenon, <2>1 DEF RankInv, Gathered
    <2>4. v \in Accounts /\ IsFiniteSet(S)
      BY <1>d, NodesIn, FS_Subset
    <2>5. ASSUME NEW s \in S
          PROVE  /\ f[s] = IF s \in starts \/ (s = origin /\ v \notin Popped) THEN 0 ELSE Shares(v, s)
                 /\ h[s] = IF s \in starts \/ (s = origin /\ v \notin Popped') THEN 0 ELSE Shares(v, s)
      <3>1. Shares(v, s)' = Shares(v, s) /\ Nodes' = Nodes
        BY <1>0, GraphStays
      <3>2. f[s] = IF s \in starts \/ (s = origin /\ v \notin Popped) THEN 0 ELSE Shares(v, s)
        BY <2>1 DEF Rows
      <3>3. h[s] = IF s \in starts' \/ (s = origin' /\ v \notin Popped') THEN 0 ELSE Shares(v, s)'
        BY <2>2, <3>1 DEF Rows
      <3> QED
        BY Zenon, <1>0, <3>1, <3>2, <3>3
    <2>6. CASE v # w \/ w = origin
      <3>1. ASSUME NEW s \in S
            PROVE  h[s] = f[s]
        <4>1. s = origin => v # w
          BY <2>6
        <4>2. v # w => (v \in Popped' <=> v \in Popped)
          BY <1>11
        <4> QED
          BY Zenon, <2>5, <4>1, <4>2
      <3>2. cb'[v] = cb[v]
        BY <1>c, <1>e, <2>4, <2>6
      <3>3. \A s \in S : f[s] \in Nat /\ h[s] = f[s]
        BY Zenon, <2>3, <3>1
      <3> HIDE DEF S
      <3>4. SumOver(f, S) = SumOver(h, S)
        BY <2>4, <3>3, SumSame
      <3>5. \A s \in S : h[s] \in Nat
        BY Zenon, <3>3
      <3> QED
        BY Zenon, <2>2, <2>3, <3>2, <3>4, <3>5 DEF S
    <2>7. CASE v = w /\ w # origin
      <3>1. origin \in S /\ origin \notin starts
        BY <1>5, <2>7
      <3>2. w \notin Popped /\ w \in Popped'
        BY <1>11
      <3>3. f[origin] = 0 /\ h[origin] = Shares(w, origin)
        BY Zenon, <2>5, <2>7, <3>1, <3>2
      <3>4. Shares(w, origin) = delta[w]
        <4>1. Shares(w, origin) = counts[w] * D
          BY <1>1, <1>5, <1>13, <1>a, <2>7, Contributed DEF RankInv, D, n
        <4> QED
          BY Zenon, <1>15, <4>1
      <3>5. ASSUME NEW s \in S, s # origin
            PROVE  h[s] = f[s]
        BY Zenon, <2>5, <3>5
      <3>6. cb'[v] = cb[v] + delta[w]
        BY <1>c, <1>e, <2>4, <2>7
      <3>7. \A s \in S : f[s] \in Nat /\ h[s] \in Nat /\ (s # origin => h[s] = f[s])
        BY Zenon, <1>15, <2>3, <3>3, <3>4, <3>5
      <3> HIDE DEF S
      <3>8. SumOver(h, S) + f[origin] = SumOver(f, S) + h[origin]
        BY <2>4, <3>1, <3>7, SumDiffers
      <3>9. SumOver(h, S) \in Nat
        BY <2>4, <3>7, SumParts
      <3>10. SumOver(h, S) = SumOver(f, S) + delta[w]
        <4>1. SumOver(h, S) + 0 = SumOver(f, S) + delta[w]
          BY Zenon, <3>3, <3>4, <3>8
        <4>2. SumOver(h, S) + 0 = SumOver(h, S)
          BY <3>9
        <4> QED
          BY Zenon, <4>1, <4>2
      <3> QED
        BY Zenon, <2>2, <2>3, <3>6, <3>7, <3>10 DEF S
    <2> QED
      BY <2>6, <2>7
  <1>21. Gathered'
    <2>1. Nodes' = Nodes
      BY <1>0, GraphStays
    <2> QED
      BY Zenon, <1>20, <2>1 DEF Gathered
  <1> QED
    BY <1>6, <1>7, <1>12, <1>17, <1>18, <1>19, <1>21 DEF RankInv

(* The other search leaves all of this alone.                              *)
LEMMA RankStays ==
  ASSUME RankInv, flows' = flows, UNCHANGED rankVars
  PROVE  RankInv'
  <1>1. /\ flows' = flows /\ starts' = starts /\ origin' = origin /\ met' = met
        /\ taken' = taken /\ toward' = toward /\ dist' = dist /\ counts' = counts
        /\ delta' = delta /\ cb' = cb
    BY DEF rankVars
  <1>2. Nodes' = Nodes /\ \A v : Targets(v)' = Targets(v)
    BY <1>1, GraphStays
  <1>3. \A y, z : Passed(y, z)' <=> Passed(y, z)
    BY <1>1 DEF Passed
  <1>4. Followed' = Followed /\ Popped' = Popped
    BY <1>1, <1>3 DEF Followed, Popped
  <1>5. RankTyped'
    BY <1>1, <1>2 DEF RankInv, RankTyped
  <1>6. Queued'
    <2>1. Targets(met[taken])' = Targets(met[taken])
      BY <1>1 DEF Targets
    <2> QED
      BY <1>1, <2>1 DEF RankInv, Queued
  <1>7. Rooted' /\ Widening' /\ Emptied'
    BY <1>1, <1>3, <1>4 DEF RankInv, Rooted, Widening, Emptied
  <1>8. Tallied'
    <2>1. origin' = origin /\ counts' = counts /\ dist' = dist
      BY <1>1
    <2> QED
      BY Zenon, <1>4, <2>1 DEF RankInv, Tallied
  <1>9. Owed'
    <2>1. origin' = origin /\ counts' = counts /\ delta' = delta
      BY <1>1
    <2>2. \A v \in Accounts :
             Worth(Followed, Popped, counts, v)' = Worth(Followed, Popped, counts, v)
      BY Zenon, <1>4, <2>1 DEF Worth, Worths, Part
    <2> QED
      BY Zenon, <2>1, <2>2 DEF RankInv, Owed
  <1>10. Gathered'
    BY <1>1, <1>4, GatheredStays DEF RankInv
  <1> QED
    BY <1>5, <1>6, <1>7, <1>8, <1>9, <1>10 DEF RankInv

(* Every step of the two searches keeps the invariant.                     *)
LEMMA RankNextKeeps ==
  ASSUME NetworkAssumption, UnitAssumption, RankInv,
         [AnalysisNext]_<<networkVars, rankVars>>
  PROVE  RankInv'
  <1>1. CASE NetworkNext /\ UNCHANGED rankVars
    <2>1. flows' = flows
      BY <1>1 DEF NetworkNext, Root, Descend, Look, Leave, Enter
    <2> QED
      BY <1>1, <2>1, RankStays
  <1>2. CASE BetweennessNext
    <2>1. CASE \E s \in Accounts : StartFrom(s)
      BY <2>1, StartKeeps
    <2>2. CASE TakeNext
      BY <2>2, TakeKeeps
    <2>3. CASE \E v, w \in Accounts : LookAt(v, w)
      BY <2>3, LookAtKeeps
    <2>4. CASE \E w \in Accounts : Accumulate(w)
      BY <2>4, AccumulateKeeps
    <2> QED
      BY <1>2, <2>1, <2>2, <2>3, <2>4 DEF BetweennessNext
  <1>3. CASE UNCHANGED <<networkVars, rankVars>>
    <2>1. flows' = flows /\ UNCHANGED rankVars
      BY <1>3 DEF networkVars
    <2> QED
      BY <2>1, RankStays
  <1> QED
    BY <1>1, <1>2, <1>3 DEF AnalysisNext

(* The invariant holds throughout (network_analysis.py:68-124).            *)
LEMMA Brandes == AnalysisSpec => []RankInv
  <1>1. AnalysisInit => RankInv
    <2> SUFFICES ASSUME AnalysisInit
                 PROVE  RankInv
      OBVIOUS
    <2>1. flows \subseteq Accounts \X Accounts
      BY DEF AnalysisInit, NetworkInit, Fetched, kSubset
    <2> QED
      BY <2>1, NetworkAssumption, RankInit DEF AnalysisInit
  <1>2. RankInv /\ [AnalysisNext]_<<networkVars, rankVars>> => RankInv'
    BY NetworkAssumption, UnitAssumption, RankNextKeeps
  <1> QED
    BY <1>1, <1>2, PTL DEF AnalysisSpec

(* What the invariant says of the centralities when all have had a turn.   *)
LEMMA CentralityOf ==
  ASSUME NetworkAssumption, UnitAssumption, RankInv
  PROVE  CentralityExact
  <1> SUFFICES ASSUME Ranked, NEW v \in Nodes
               PROVE  cb[v] = MapThenSumSet(LAMBDA s : Shares(v, s), Nodes \ {v})
    BY DEF CentralityExact
  <1>1. /\ starts = {} /\ met = <<>> /\ Len(met) = 0 /\ taken = 0 /\ taken = Len(met)
        /\ toward = {}
    BY DEF Ranked, RankInv, RankTyped, Queued
  <1>2. Nodes \subseteq Accounts /\ 0 \notin Accounts
    BY NodesIn DEF RankInv, RankTyped
  <1>3. ASSUME NEW s \in Nodes \ {v}
        PROVE  Rows(v)[s] = Shares(v, s)
    <2>1. CASE s = origin /\ v \notin Popped
      <3>1. v \in Accounts /\ origin \in Accounts
        BY <1>2, <2>1
      <3>2. dist[v] < 0
        <4>1. ~(dist[v] >= 0)
          BY <1>1, <2>1, <3>1 DEF Popped
        <4>2. dist[v] \in Int
          BY <3>1 DEF RankInv, RankTyped
        <4> QED
          BY <4>1, <4>2
      <3>3. Shares(v, origin) = 0
        BY <1>1, <3>1, <3>2, Unreached DEF RankInv
      <3> QED
        BY Zenon, <2>1, <3>3 DEF Rows
    <2>2. CASE ~(s = origin /\ v \notin Popped)
      <3>1. s \notin starts
        BY <1>1
      <3> QED
        BY Zenon, <2>2, <3>1 DEF Rows
    <2> QED
      BY <2>1, <2>2
  <1>4. cb[v] = SumOver(Rows(v), Nodes \ {v})
    BY Zenon DEF RankInv, Gathered
  <1>5. PICK w : w = Rows(v)
    OBVIOUS
  <1>6. MapThenSumSet(LAMBDA s : Shares(v, s), Nodes \ {v}) = SumOver(w, Nodes \ {v})
    <2>1. \A s \in Nodes \ {v} : w[s] = Shares(v, s)
      BY Zenon, <1>3, <1>5
    <2> QED
      BY <2>1, SourcesSum
  <1> QED
    BY Zenon, <1>4, <1>5, <1>6

(* In every graph of transfers, the components and the circles are those   *)
(* above, and when every account has had its turn the centrality of an     *)
(* account is the sum, over all pairs of others, of the share of the       *)
(* shortest paths between them that lead through it                        *)
(* (network_analysis.py:8-124, 330-415).                                   *)
THEOREM NetworkAnalysed == AnalysisSpec => []NetworkExact
  <1>1. AnalysisInit => NetworkInit
    BY DEF AnalysisInit
  <1>2. [AnalysisNext]_<<networkVars, rankVars>> => [NetworkNext]_networkVars
    <2>1. BetweennessNext /\ UNCHANGED <<indices, lowlinks, stack, frames, sccs>> => UNCHANGED networkVars
      BY DEF BetweennessNext, StartFrom, TakeNext, LookAt, Accumulate, networkVars
    <2> QED
      BY <2>1 DEF AnalysisNext
  <1>3. AnalysisSpec => NetworkSpec
    BY <1>1, <1>2, PTL DEF AnalysisSpec, NetworkSpec
  <1>4. RankInv => CentralityExact
    BY NetworkAssumption, UnitAssumption, CentralityOf
  <1>5. ComponentsExact /\ CirclesExact /\ CentralityExact => NetworkExact
    BY DEF NetworkExact
  <1> QED
    BY <1>3, <1>4, <1>5, ComponentsFound, CirclesReported, Brandes, PTL
=============================================================================
