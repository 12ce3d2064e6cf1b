-------------------------------- MODULE Sums --------------------------------
(***************************************************************************)
(* Sums of natural numbers over finite sets.  MapThenSumSet adds the       *)
(* elements in the order in which CHOOSE names them; the lemmas here say   *)
(* that the order does not matter, and what a larger set comes to.  Each   *)
(* is proved from a smallest counterexample, a subset of a finite set.     *)
(***************************************************************************)
EXTENDS Integers, FiniteSets, FiniteSetTheorems, WellFoundedInduction, TLAPS

(* Of the finite sets in a non-empty collection one has none of the others *)
(* as a part.                                                              *)
LEMMA Smallest ==
  ASSUME NEW D, IsFiniteSet(D), NEW T, T \subseteq SUBSET D, T # {}
  PROVE  \E s \in T : \A r \in T : r \subseteq s => r = s
  <1>1. IsWellFoundedOn(StrictSubsetOrdering(D), SUBSET D)
    BY FS_StrictSubsetOrderingWellFounded, FS_FiniteSubsetsOfFinite
  <1>2. PICK s \in T : \A r \in T : ~(<<r, s>> \in StrictSubsetOrdering(D))
    BY <1>1, WFMin, Zenon
  <1> QED
    BY <1>2 DEF StrictSubsetOrdering

(* F has the sums of w over the parts of D, as the folds compute them.     *)
Sums(F, D, w) ==
  F = [s \in SUBSET D |->
         IF s = {} THEN 0
         ELSE LET x == CHOOSE x \in s : TRUE IN w[x] + F[s \ {x}]]

(* Whatever else they are defined for, the values over one set agree.      *)
LEMMA SumsAgree ==
  ASSUME NEW D, NEW E, NEW w, NEW v, NEW F, NEW G, Sums(F, D, w), Sums(G, E, v),
         NEW s, s \subseteq D, s \subseteq E, IsFiniteSet(s), \A x \in s : w[x] = v[x]
  PROVE  F[s] = G[s]
  <1> DEFINE T == {r \in SUBSET s : F[r] # G[r]}
  <1> SUFFICES ASSUME T # {} PROVE FALSE
    OBVIOUS
  <1>1. PICK r \in T : \A q \in T : q \subseteq r => q = r
    <2>1. T \subseteq SUBSET s
      OBVIOUS
    <2> HIDE DEF T
    <2> QED
      BY <2>1, Smallest, IsFiniteSet(s)
  <1>2. r # {}
    BY DEF Sums
  <1>3. PICK c \in r : c = CHOOSE x \in r : TRUE
    BY <1>2
  <1>4. F[r \ {c}] = G[r \ {c}]
    BY <1>1, <1>3
  <1>5. F[r] = w[c] + F[r \ {c}] /\ G[r] = v[c] + G[r \ {c}]
    <2>1. r \in SUBSET D /\ r \in SUBSET E
      OBVIOUS
    <2>2. F[r] = IF r = {} THEN 0
                 ELSE LET x == CHOOSE x \in r : TRUE IN w[x] + F[r \ {x}]
      BY <2>1 DEF Sums
    <2>3. G[r] = IF r = {} THEN 0
                 ELSE LET x == CHOOSE x \in r : TRUE IN v[x] + G[r \ {x}]
      BY <2>1 DEF Sums
    <2> QED
      BY <2>2, <2>3, <1>2, <1>3
  <1>6. w[c] = v[c]
    OBVIOUS
  <1> QED
    BY <1>4, <1>5, <1>6

(* The sum of w over S, as MapThenSumSet defines it.                       *)
SumOver(w, S) == (CHOOSE F : Sums(F, S, w))[S]

(* The recursion defines a function.                                       *)
LEMMA SumsExist ==
  ASSUME NEW D, IsFiniteSet(D), NEW w, \A x \in D : w[x] \in Nat
  PROVE  \E F \in [SUBSET D -> Nat] : Sums(F, D, w)
  <1> DEFINE T == {s \in SUBSET D : ~\E F \in [SUBSET s -> Nat] : Sums(F, s, w)}
  <1> SUFFICES ASSUME T # {} PROVE FALSE
    OBVIOUS
  <1>1. T \subseteq SUBSET D
    OBVIOUS
  <1>2. PICK s \in T : \A r \in T : r \subseteq s => r = s
    <2> HIDE DEF T
    <2> QED
      BY <1>1, Smallest, IsFiniteSet(D)
  <1> DEFINE G == [r \in SUBSET s |-> CHOOSE F : F \in [SUBSET r -> Nat] /\ Sums(F, r, w)]
             c(r) == CHOOSE x \in r : TRUE
             H == [r \in SUBSET s |->
                     IF r # s THEN G[r][r]
                     ELSE IF s = {} THEN 0 ELSE w[c(s)] + G[s \ {c(s)}][s \ {c(s)}]]
  <1>3. \A r \in SUBSET s : r # s => G[r] \in [SUBSET r -> Nat] /\ Sums(G[r], r, w)
    <2> TAKE r \in SUBSET s
    <2> HAVE r # s
    <2>1. \E F : F \in [SUBSET r -> Nat] /\ Sums(F, r, w)
      BY <1>2
    <2> QED
      BY <2>1, Zenon
  <1>4. \A r \in SUBSET s : r # {} => c(r) \in r
    OBVIOUS
  <1>5. \A r, q \in SUBSET s : r # s /\ q \subseteq r => G[r][q] = G[q][q]
    <2> TAKE r, q \in SUBSET s
    <2> HAVE r # s /\ q \subseteq r
    <2>1. Sums(G[r], r, w) /\ Sums(G[q], q, w)
      BY <1>3
    <2>2. IsFiniteSet(q)
      BY FS_Subset, <1>2
    <2> HIDE DEF G
    <2> QED
      BY <2>1, <2>2, SumsAgree
  <1> HIDE DEF G, c
  <1>6. \A r \in SUBSET s : r # s => G[r][r] \in Nat
    <2> TAKE r \in SUBSET s
    <2> HAVE r # s
    <2>1. G[r] \in [SUBSET r -> Nat]
      BY <1>3
    <2> QED
      BY <2>1
  <1>7. ASSUME NEW r \in SUBSET s
        PROVE  /\ H[r] \in Nat
               /\ H[r] = IF r = {} THEN 0 ELSE w[c(r)] + H[r \ {c(r)}]
    <2>1. CASE r = {} /\ r = s
      BY <2>1
    <2>2. CASE r = {} /\ r # s
      <3>1. H[r] = G[r][r]
        BY <2>2
      <3>2. G[r][r] = 0
        BY <2>2, <1>3 DEF Sums
      <3> QED
        BY <3>1, <3>2, <2>2
    <2>3. CASE r # {} /\ r = s
      <3>1. r \ {c(r)} \in SUBSET s /\ r \ {c(r)} # s
        BY <2>3, <1>4
      <3>2. H[r] = w[c(r)] + G[r \ {c(r)}][r \ {c(r)}]
        BY <2>3
      <3>3. H[r \ {c(r)}] = G[r \ {c(r)}][r \ {c(r)}]
        BY <3>1
      <3>4. w[c(r)] \in Nat
        BY <1>4, <2>3, <1>2
      <3> QED
        BY <3>1, <3>2, <3>3, <3>4, <1>6, <2>3
    <2>4. CASE r # {} /\ r # s
      <3>1. r \ {c(r)} \in SUBSET s /\ r \ {c(r)} # s /\ r \ {c(r)} \in SUBSET r
        BY <2>4, <1>4
      <3>2. H[r] = G[r][r] /\ H[r \ {c(r)}] = G[r \ {c(r)}][r \ {c(r)}]
        BY <2>4, <3>1
      <3>3. G[r][r] = w[c(r)] + G[r][r \ {c(r)}]
        BY <1>3, <2>4 DEF Sums, c
      <3>4. G[r][r \ {c(r)}] = G[r \ {c(r)}][r \ {c(r)}]
        BY <1>5, <3>1, <2>4
      <3> QED
        BY <3>2, <3>3, <3>4, <1>6, <2>4
    <2> QED
      BY <2>1, <2>2, <2>3, <2>4
  <1>8. Sums(H, s, w)
    <2>1. H \in [SUBSET s -> Nat]
      BY <1>7
    <2>2. H = [r \in SUBSET s |-> H[r]]
      OBVIOUS
    <2> HIDE DEF H
    <2> QED
      BY <1>7, <2>1, <2>2 DEF Sums, c
  <1>9. H \in [SUBSET s -> Nat]
    BY <1>7
  <1> QED
    BY <1>2, <1>8, <1>9, Zenon

(* A sum is a number; any element may be taken out first.                 *)
LEMMA SumParts ==
  ASSUME NEW S, IsFiniteSet(S), NEW w, \A x \in S : w[x] \in Nat
  PROVE  /\ SumOver(w, S) \in Nat
         /\ S = {} => SumOver(w, S) = 0
         /\ \A x \in S : SumOver(w, S) = w[x] + SumOver(w, S \ {x})
  <1>0. PICK F : F \in [SUBSET S -> Nat] /\ Sums(F, S, w)
    BY SumsExist
  <1>1. ASSUME NEW r \in SUBSET S
        PROVE  SumOver(w, r) = F[r]
    <2>1. IsFiniteSet(r)
      BY FS_Subset
    <2>2. PICK G : Sums(G, r, w)
      BY <2>1, SumsExist
    <2>3. Sums(CHOOSE H : Sums(H, r, w), r, w)
      BY <2>2, Zenon
    <2> QED
      BY <1>0, <2>1, <2>3, SumsAgree DEF SumOver
  <1>2. \A r \in SUBSET S : F[r] \in Nat
    BY <1>0
  <1> DEFINE T == {r \in SUBSET S : \E x \in r : F[r] # w[x] + F[r \ {x}]}
             c(r) == CHOOSE x \in r : TRUE
  <1>3. T = {}
    <2> SUFFICES ASSUME T # {} PROVE FALSE
      OBVIOUS
    <2>1. PICK s \in T : \A r \in T : r \subseteq s => r = s
      <3>1. T \subseteq SUBSET S
        OBVIOUS
      <3> HIDE DEF T
      <3> QED
        BY <3>1, Smallest
    <2>2. PICK x \in s : F[s] # w[x] + F[s \ {x}]
      BY <2>1
    <2>3. PICK y \in s : y = c(s)
      BY <2>2
    <2> HIDE DEF c
    <2>4. F[s] = w[y] + F[s \ {y}]
      BY <1>0, <2>1, <2>2, <2>3 DEF Sums, c
    <2>5. x # y
      BY <2>2, <2>4
    <2>a. /\ s \ {x} \in SUBSET S /\ s \ {x} \subseteq s /\ s \ {x} # s /\ y \in s \ {x}
          /\ s \ {y} \in SUBSET S /\ s \ {y} \subseteq s /\ s \ {y} # s /\ x \in s \ {y}
      BY <2>1, <2>2, <2>3, <2>5
    <2>b. s \ {x} \notin T /\ s \ {y} \notin T
      BY <2>1, <2>a
    <2>6. F[s \ {y}] = w[x] + F[(s \ {y}) \ {x}]
      BY <2>a, <2>b
    <2>7. F[s \ {x}] = w[y] + F[(s \ {x}) \ {y}]
      BY <2>a, <2>b
    <2>8. (s \ {x}) \ {y} = (s \ {y}) \ {x}
      OBVIOUS
    <2>c. F[s \ {x}] = w[y] + F[(s \ {y}) \ {x}]
      BY <2>7, <2>8
    <2>9. F[(s \ {y}) \ {x}] \in Nat /\ w[x] \in Nat /\ w[y] \in Nat
      BY <1>2, <2>1, <2>2, <2>3
    <2> QED
      BY <2>2, <2>4, <2>6, <2>c, <2>9
  <1>4. S = {} => F[S] = 0
    BY <1>0 DEF Sums
  <1>5. \A x \in S : F[S] = w[x] + F[S \ {x}]
    BY <1>3
  <1> QED
    BY <1>1, <1>2, <1>4, <1>5

(* A part sums up to no more than the whole.                              *)
LEMMA SumMonotone ==
  ASSUME NEW S, IsFiniteSet(S), NEW w, \A x \in S : w[x] \in Nat,
         NEW R, R \subseteq S
  PROVE  SumOver(w, R) <= SumOver(w, S)
  <1> DEFINE T == {s \in SUBSET S : R \subseteq s /\ ~(SumOver(w, R) <= SumOver(w, s))}
  <1> SUFFICES ASSUME T # {} PROVE FALSE
    OBVIOUS
  <1>1. PICK s \in T : \A r \in T : r \subseteq s => r = s
    <2>1. T \subseteq SUBSET S
      OBVIOUS
    <2> HIDE DEF T
    <2> QED
      BY <2>1, Smallest
  <1>2. IsFiniteSet(s) /\ IsFiniteSet(R)
    BY FS_Subset
  <1>3. s # R
    BY <1>1, <1>2, SumParts
  <1>4. PICK x \in s : x \notin R
    BY <1>1, <1>3
  <1>5. SumOver(w, R) <= SumOver(w, s \ {x})
    BY <1>1, <1>4
  <1>6. /\ SumOver(w, s) = w[x] + SumOver(w, s \ {x}) /\ w[x] \in Nat
        /\ SumOver(w, s \ {x}) \in Nat /\ SumOver(w, R) \in Nat
    <2>1. IsFiniteSet(s \ {x})
      BY <1>2, FS_Subset
    <2> QED
      BY <1>2, <2>1, SumParts
  <1> QED
    BY <1>1, <1>5, <1>6

(* The sum depends on the summands alone.                                  *)
LEMMA SumSame ==
  ASSUME NEW S, IsFiniteSet(S), NEW w, NEW v,
         \A x \in S : w[x] \in Nat /\ v[x] = w[x]
  PROVE  SumOver(w, S) = SumOver(v, S)
  <1>1. PICK F : Sums(F, S, w)
    BY SumsExist
  <1>2. PICK G : Sums(G, S, v)
    BY SumsExist
  <1>3. Sums(CHOOSE H : Sums(H, S, w), S, w) /\ Sums(CHOOSE H : Sums(H, S, v), S, v)
    BY <1>1, <1>2, Zenon
  <1> QED
    BY <1>3, SumsAgree DEF SumOver

(* Sums of natural numbers none of which is above n.                       *)
LEMMA SumBounded ==
  ASSUME NEW S, IsFiniteSet(S), NEW w, NEW n \in Nat, \A x \in S : w[x] \in 0..n
  PROVE  SumOver(w, S) \in Nat /\ SumOver(w, S) <= n * Cardinality(S)
  <1> DEFINE T == {s \in SUBSET S : ~(SumOver(w, s) <= n * Cardinality(s))}
  <1>1. SumOver(w, S) \in Nat
    BY SumParts
  <1> SUFFICES ASSUME T # {} PROVE FALSE
    BY <1>1
  <1>2. PICK s \in T : \A r \in T : r \subseteq s => r = s
    <2>1. T \subseteq SUBSET S
      OBVIOUS
    <2> HIDE DEF T
    <2> QED
      BY <2>1, Smallest
  <1>3. IsFiniteSet(s) /\ Cardinality(s) \in Nat
    BY <1>2, FS_Subset, FS_CardinalityType
  <1>4. CASE s = {}
    BY <1>2, <1>3, <1>4, SumParts, FS_EmptySet
  <1>5. CASE s # {}
    <2>1. PICK x \in s : TRUE
      BY <1>5
    <2>2. SumOver(w, s \ {x}) <= n * Cardinality(s \ {x})
      BY <1>2, <2>1
    <2>3. /\ IsFiniteSet(s \ {x}) /\ Cardinality(s \ {x}) = Cardinality(s) - 1
          /\ Cardinality(s \ {x}) \in Nat
      BY <1>3, <2>1, FS_RemoveElement, FS_CardinalityType
    <2>4. SumOver(w, s) = w[x] + SumOver(w, s \ {x}) /\ SumOver(w, s \ {x}) \in Nat
      BY <1>2, <1>3, <2>1, <2>3, SumParts
    <2>5. w[x] \in 0..n
      BY <1>2, <2>1
    <2>6. SumOver(w, s) <= n * Cardinality(s \ {x}) + n
      <3>1. n * Cardinality(s \ {x}) \in Nat
        BY <2>3
      <3> HIDE DEF T
      <3> QED
        BY <2>2, <2>4, <2>5, <3>1
    <2>7. n * Cardinality(s) = n * Cardinality(s \ {x}) + n
      <3>1. \A k \in Nat : n * (k + 1) = n * k + n
        OBVIOUS
      <3> QED
        BY <1>3, <2>3, <3>1
    <2> QED
      BY <1>2, <2>6, <2>7
  <1> QED
    BY <1>4, <1>5

(* One summand differs.                                                    *)
LEMMA SumDiffers ==
  ASSUME NEW S, IsFiniteSet(S), NEW x \in S, NEW w, NEW v,
         \A y \in S : w[y] \in Nat /\ v[y] \in Nat /\ (y # x => v[y] = w[y])
  PROVE  /\ SumOver(w, S) \in Nat /\ SumOver(v, S) \in Nat
         /\ SumOver(v, S) + w[x] = SumOver(w, S) + v[x]
  <1>1. /\ SumOver(w, S) = w[x] + SumOver(w, S \ {x})
        /\ SumOver(v, S) = v[x] + SumOver(v, S \ {x})
        /\ SumOver(w, S) \in Nat /\ SumOver(v, S) \in Nat
    BY SumParts
  <1>2. IsFiniteSet(S \ {x})
    BY FS_Subset
  <1>3. SumOver(w, S \ {x}) = SumOver(v, S \ {x}) /\ SumOver(w, S \ {x}) \in Nat
    BY <1>2, SumSame, SumParts
  <1> QED
    BY <1>1, <1>3

(* What contributes nothing may be left out.                               *)
LEMMA SumZeros ==
  ASSUME NEW S, IsFiniteSet(S), NEW w, \A x \in S : w[x] \in Nat,
         NEW R, R \subseteq S, \A x \in S \ R : w[x] = 0
  PROVE  SumOver(w, R) = SumOver(w, S)
  <1> DEFINE T == {s \in SUBSET S : R \subseteq s /\ SumOver(w, R) # SumOver(w, s)}
  <1> SUFFICES ASSUME T # {} PROVE FALSE
    OBVIOUS
  <1>1. PICK s \in T : \A r \in T : r \subseteq s => r = s
    <2>1. T \subseteq SUBSET S
      OBVIOUS
    <2> HIDE DEF T
    <2> QED
      BY <2>1, Smallest
  <1>2. IsFiniteSet(s)
    BY FS_Subset
  <1>3. PICK x \in s : x \notin R
    BY <1>1
  <1>4. SumOver(w, R) = SumOver(w, s \ {x})
    BY <1>1, <1>3
  <1>5. /\ SumOver(w, s) = w[x] + SumOver(w, s \ {x}) /\ w[x] = 0
        /\ SumOver(w, s \ {x}) \in Nat
    <2>1. IsFiniteSet(s \ {x})
      BY <1>2, FS_Subset
    <2> QED
      BY <1>2, <1>3, <2>1, SumParts
  <1> QED
    BY <1>1, <1>4, <1>5

(* Sums of sums and of multiples.                                          *)
LEMMA SumLinear ==
  ASSUME NEW S, IsFiniteSet(S), NEW f, NEW g, NEW h, NEW c \in Nat,
         \A x \in S : f[x] \in Nat /\ g[x] \in Nat /\ h[x] = f[x] + c * g[x]
  PROVE  /\ SumOver(f, S) \in Nat /\ SumOver(g, S) \in Nat /\ SumOver(h, S) \in Nat
         /\ SumOver(h, S) = SumOver(f, S) + c * SumOver(g, S)
  <1>0. \A a, b \in Nat : c * a \in Nat /\ c * (a + b) = c * a + c * b
    OBVIOUS
  <1>h. \A x \in S : h[x] \in Nat
    BY <1>0
  <1> DEFINE T == {s \in SUBSET S : SumOver(h, s) # SumOver(f, s) + c * SumOver(g, s)}
  <1>n. SumOver(f, S) \in Nat /\ SumOver(g, S) \in Nat /\ SumOver(h, S) \in Nat
    BY <1>h, SumParts
  <1> SUFFICES ASSUME T # {} PROVE FALSE
    BY <1>n
  <1>1. PICK s \in T : \A r \in T : r \subseteq s => r = s
    <2>1. T \subseteq SUBSET S
      OBVIOUS
    <2> HIDE DEF T
    <2> QED
      BY <2>1, Smallest
  <1>2. IsFiniteSet(s) /\ s \in SUBSET S
    BY <1>1, FS_Subset
  <1>3. CASE s = {}
    <2>1. SumOver(f, s) = 0 /\ SumOver(g, s) = 0 /\ SumOver(h, s) = 0
      BY <1>2, <1>3, SumParts
    <2>2. c * 0 = 0
      OBVIOUS
    <2> QED
      BY <1>1, <2>1, <2>2
  <1>4. CASE s # {}
    <2>1. PICK x \in s : TRUE
      BY <1>4
    <2>2. PICK r : r = s \ {x}
      OBVIOUS
    <2>3. SumOver(h, r) = SumOver(f, r) + c * SumOver(g, r)
      BY <1>1, <2>1, <2>2
    <2>4. IsFiniteSet(r) /\ r \in SUBSET S
      BY <1>2, <2>2, FS_Subset
    <2>5. SumOver(f, r) \in Nat /\ SumOver(g, r) \in Nat
      BY <2>4, SumParts
    <2>6. SumOver(f, s) = f[x] + SumOver(f, r) /\ f[x] \in Nat
      BY <1>2, <2>1, <2>2, SumParts
    <2>7. SumOver(g, s) = g[x] + SumOver(g, r) /\ g[x] \in Nat
      BY <1>2, <2>1, <2>2, SumParts
    <2>8. SumOver(h, s) = h[x] + SumOver(h, r) /\ h[x] = f[x] + c * g[x]
      BY <1>2, <1>h, <2>1, <2>2, SumParts
    <2>9. c * (g[x] + SumOver(g, r)) = c * g[x] + c * SumOver(g, r)
          /\ c * g[x] \in Nat /\ c * SumOver(g, r) \in Nat
      BY <1>0, <2>5, <2>7
    <2>10. SumOver(h, s) = SumOver(f, s) + c * SumOver(g, s)
      BY <2>3, <2>5, <2>6, <2>7, <2>8, <2>9
    <2> QED
      BY <1>1, <2>10
  <1> QED
    BY <1>3, <1>4

(* The sum of two weights.                                                 *)
LEMMA SumTwo ==
  ASSUME NEW S, IsFiniteSet(S), NEW f, NEW g, NEW h,
         \A x \in S : f[x] \in Nat /\ g[x] \in Nat /\ h[x] = f[x] + g[x]
  PROVE  SumOver(h, S) = SumOver(f, S) + SumOver(g, S)
  <1>1. PICK c \in Nat : c = 1
    OBVIOUS
  <1>2. \A x \in S : f[x] \in Nat /\ g[x] \in Nat /\ h[x] = f[x] + c * g[x]
    BY <1>1
  <1>3. SumOver(h, S) = SumOver(f, S) + c * SumOver(g, S)
    BY <1>2, SumLinear
  <1>4. SumOver(g, S) \in Nat
    BY <1>2, SumParts
  <1> QED
    BY <1>1, <1>3, <1>4

(* A sum over the images of an injection, with the same summands.          *)
LEMMA SumImage ==
  ASSUME NEW S, IsFiniteSet(S), NEW w, NEW v, NEW g,
         \A x \in S : w[x] \in Nat /\ v[g[x]] = w[x],
         \A x, y \in S : g[x] = g[y] => x = y,
         NEW R, R = {g[x] : x \in S}
  PROVE  /\ IsFiniteSet(R) /\ Cardinality(R) = Cardinality(S)
         /\ SumOver(v, R) = SumOver(w, S)
  <1> DEFINE I(s) == {g[x] : x \in s}
             T == {s \in SUBSET S : ~(/\ IsFiniteSet(I(s)) /\ Cardinality(I(s)) = Cardinality(s)
                                      /\ SumOver(v, I(s)) = SumOver(w, s))}
  <1> SUFFICES ASSUME T # {} PROVE FALSE
    OBVIOUS
  <1>1. PICK s \in T : \A r \in T : r \subseteq s => r = s
    <2>1. T \subseteq SUBSET S
      OBVIOUS
    <2> HIDE DEF T
    <2> QED
      BY <2>1, Smallest
  <1>2. IsFiniteSet(s) /\ \A x \in s : w[x] \in Nat
    BY <1>1, FS_Subset
  <1>3. CASE s = {}
    <2>1. I(s) = {}
      BY <1>3
    <2>2. SumOver(v, I(s)) = 0 /\ SumOver(w, s) = 0
      <3>1. \A x \in {} : v[x] \in Nat /\ w[x] \in Nat
        OBVIOUS
      <3>2. IsFiniteSet({})
        BY FS_EmptySet
      <3> QED
        BY <1>3, <2>1, <3>1, <3>2, SumParts
    <2> QED
      BY <1>1, <1>2, <1>3, <2>1, <2>2
  <1>4. CASE s # {}
    <2>1. PICK x \in s : TRUE
      BY <1>4
    <2> DEFINE r == s \ {x}
    <2>2. r \in SUBSET S /\ r \subseteq s /\ r # s /\ r \notin T
      BY <1>1, <2>1
    <2>3. IsFiniteSet(I(r)) /\ Cardinality(I(r)) = Cardinality(r)
          /\ SumOver(v, I(r)) = SumOver(w, r)
      BY <2>2
    <2>4. I(s) = I(r) \cup {g[x]} /\ g[x] \notin I(r) /\ I(s) \ {g[x]} = I(r)
      BY <1>1, <2>1
    <2>5. IsFiniteSet(I(s)) /\ Cardinality(I(s)) = Cardinality(I(r)) + 1
      <3>1. PICK a : a = I(r)
        OBVIOUS
      <3>2. PICK b : b = g[x]
        OBVIOUS
      <3>3. IsFiniteSet(a \cup {b}) /\ Cardinality(a \cup {b}) = Cardinality(a) + 1
        BY <2>3, <2>4, <3>1, <3>2, FS_AddElement
      <3> QED
        BY <2>4, <3>1, <3>2, <3>3
    <2>6. Cardinality(s) = Cardinality(r) + 1 /\ Cardinality(r) \in Nat
      <3>1. IsFiniteSet(r) /\ Cardinality(r) = Cardinality(s) - 1
        BY <1>2, <2>1, FS_RemoveElement
      <3>2. Cardinality(s) \in Nat /\ Cardinality(r) \in Nat
        BY <1>2, <3>1, FS_CardinalityType
      <3> QED
        BY <3>1, <3>2
    <2>7. SumOver(w, s) = w[x] + SumOver(w, r)
      BY <1>2, <2>1, SumParts
    <2>8. SumOver(v, I(s)) = v[g[x]] + SumOver(v, I(r))
      <3>1. \A y \in I(s) : v[y] \in Nat
        BY <1>1
      <3>2. g[x] \in I(s)
        BY <2>1
      <3> HIDE DEF I, r
      <3>3. \A z \in I(s) : SumOver(v, I(s)) = v[z] + SumOver(v, I(s) \ {z})
        BY <2>5, <3>1, SumParts
      <3> QED
        BY <2>4, <3>2, <3>3
    <2>9. v[g[x]] = w[x]
      BY <1>1, <2>1
    <2> HIDE DEF I, r
    <2> QED
      BY <1>1, <2>3, <2>5, <2>6, <2>7, <2>8, <2>9
  <1> QED
    BY <1>3, <1>4

(* A finite set of numbers that is not empty has a largest one.            *)
LEMMA Largest ==
  ASSUME NEW S, IsFiniteSet(S), S # {}, NEW h, \A x \in S : h[x] \in Int
  PROVE  \E x \in S : \A y \in S : h[y] <= h[x]
  <1> DEFINE above(x) == {y \in S : h[y] > h[x]}
             T == {above(x) : x \in S}
  <1>1. PICK s \in T : \A r \in T : r \subseteq s => r = s
    <2>1. T \subseteq SUBSET S /\ T # {}
      OBVIOUS
    <2> HIDE DEF T
    <2> QED
      BY <2>1, Smallest
  <1>2. PICK x \in S : s = above(x)
    BY <1>1
  <1>3. ASSUME NEW y \in S, h[y] > h[x]
        PROVE  FALSE
    <2>1. above(y) \subseteq s /\ y \in s /\ y \notin above(y)
      BY <1>2, <1>3
    <2>2. above(y) \in T
      OBVIOUS
    <2> QED
      BY <1>1, <2>1, <2>2
  <1> QED
    BY <1>3
=============================================================================
