------------------------------ MODULE SumLemmas ------------------------------
(***************************************************************************)
(* Sums of numbers over finite sets and folds over sequences, as the       *)
(* community modules define them: what is to be known of                   *)
(* SumFunctionOnSet(w, S), the sum of w[x] over the x in S, and of         *)
(* FoldLeft(op, base, seq).  Both definitions are recursive, so their      *)
(* value has to be shown to exist first.  Each claim is proved by its      *)
(* smallest counterexample: a subset of S of which it fails, although of   *)
(* every smaller one it holds.                                             *)
(***************************************************************************)
EXTENDS Integers, FiniteSets, Sequences, FiniteSetsExt, Functions, SequencesExt, FiniteSetTheorems,
        SequenceTheorems, WellFoundedInduction, TLAPS

\* The element the folds take of a set first.
Pick(s) == CHOOSE x \in s : TRUE

\* g sums w over every subset of S, taking the elements in the order Pick does.
Sums(g, w, S) ==
  g = [s \in SUBSET S |-> IF s = {} THEN 0 ELSE w[Pick(s)] + g[s \ {Pick(s)}]]

\* Among subsets of a finite set one is smallest: where a proof by induction
\* on a set starts from, as the least one of which the claim would fail.
LEMMA SmallestSubset ==
  ASSUME NEW S, IsFiniteSet(S), NEW X, X \subseteq SUBSET S, X # {}
  PROVE  \E m \in X : \A y \in X : y \subseteq m => y = m
<1>1. IsWellFoundedOn(StrictSubsetOrdering(S), SUBSET S)
  BY FS_StrictSubsetOrderingWellFounded, FS_FiniteSubsetsOfFinite
<1>2. PICK m \in X : \A y \in X : ~(<<y, m>> \in StrictSubsetOrdering(S))
  BY <1>1, WFMin
<1>3. QED
  BY <1>2 DEF StrictSubsetOrdering

\* Numbers.
Numbers(D) == \A i \in D : i \in Nat

\* A finite set of numbers that is not empty has its greatest.
LEMMA MaxIsIn ==
  ASSUME NEW s, Numbers(s), IsFiniteSet(s), s # {}
  PROVE  Max(s) \in s /\ \A y \in s : Max(s) >= y
<1> DEFINE above(x) == {y \in s : y >= x}
           X == {above(x) : x \in s}
<1>1. X \subseteq SUBSET s /\ X # {}
  OBVIOUS
<1>2. PICK m \in X : \A y \in X : y \subseteq m => y = m
  <2> HIDE DEF X
  <2>1. QED
    BY <1>1, SmallestSubset
<1>3. PICK x \in s : m = above(x)
  OBVIOUS
<1>4. \A y \in s : x >= y
  <2>1. SUFFICES ASSUME NEW y \in s, y > x
                 PROVE  FALSE
    BY DEF Numbers
  <2>2. above(y) \subseteq m /\ above(y) \in X
    BY <1>3, <2>1 DEF Numbers
  <2>3. above(y) = m
    BY <1>2, <2>2
  <2>4. x \in m /\ x \notin above(y)
    BY <1>3, <2>1 DEF Numbers
  <2>5. QED
    BY <2>3, <2>4
<1>5. QED
  BY <1>4, Zenon DEF Max

\* What a function gives for the elements of a finite set is a finite set.
LEMMA ImageIsFinite ==
  ASSUME NEW S, IsFiniteSet(S), NEW f
  PROVE  IsFiniteSet({f[x] : x \in S})
<1> DEFINE T == {f[x] : x \in S}
           g == [x \in S |-> f[x]]
<1>1. g \in Surjection(S, T)
  BY DEF Surjection
<1>2. QED
  BY <1>1, FS_Surjection

\* What such a g sums over one subset.
LEMMA SumsApply ==
  ASSUME NEW g, NEW w, NEW S, Sums(g, w, S), NEW s, s \subseteq S
  PROVE  /\ s = {} => g[s] = 0
         /\ s # {} => /\ Pick(s) \in s /\ s \ {Pick(s)} \subseteq S
                      /\ g[s] = w[Pick(s)] + g[s \ {Pick(s)}]
<1>1. g[s] = IF s = {} THEN 0 ELSE w[Pick(s)] + g[s \ {Pick(s)}]
  BY Zenon DEF Sums
<1>2. s # {} => Pick(s) \in s
  BY Zenon DEF Pick
<1>3. QED
  BY <1>1, <1>2

\* Two such functions agree wherever both are defined.
LEMMA SumsAgree ==
  ASSUME NEW S, IsFiniteSet(S), NEW T, S \subseteq T, NEW w, NEW g, NEW h,
         Sums(g, w, S), Sums(h, w, T)
  PROVE  \A s \in SUBSET S : g[s] = h[s]
<1> DEFINE X == {s \in SUBSET S : g[s] # h[s]}
<1>1. SUFFICES ASSUME X # {}
               PROVE  FALSE
  OBVIOUS
<1>2. PICK m \in X : \A y \in X : y \subseteq m => y = m
  <2>1. X \subseteq SUBSET S
    OBVIOUS
  <2> HIDE DEF X
  <2>2. QED
    BY <1>1, <2>1, SmallestSubset
<1>3. m # {}
  BY SumsApply
<1>4. Pick(m) \in m /\ g[m] = w[Pick(m)] + g[m \ {Pick(m)}] /\ h[m] = w[Pick(m)] + h[m \ {Pick(m)}]
  BY <1>3, SumsApply
<1>5. m \ {Pick(m)} \notin X
  BY <1>2, <1>4
<1>6. g[m \ {Pick(m)}] = h[m \ {Pick(m)}]
  BY <1>5
<1>7. QED
  BY <1>4, <1>6

\* There is such a function on every finite set.
LEMMA SumsExist ==
  ASSUME NEW S, IsFiniteSet(S), NEW w
  PROVE  \E g : Sums(g, w, S)
<1> DEFINE X == {T \in SUBSET S : ~ \E g : Sums(g, w, T)}
<1>1. SUFFICES ASSUME X # {}
               PROVE  FALSE
  OBVIOUS
<1>2. PICK T \in X : \A y \in X : y \subseteq T => y = T
  <2>1. X \subseteq SUBSET S
    OBVIOUS
  <2> HIDE DEF X
  <2>2. QED
    BY <1>1, <2>1, SmallestSubset
<1> DEFINE h(s) == CHOOSE g : Sums(g, w, s)
           G == [s \in SUBSET T |->
                   IF s = {} THEN 0 ELSE w[Pick(s)] + h(s \ {Pick(s)})[s \ {Pick(s)}]]
<1>3. ASSUME NEW s, s \subseteq T, s # T
      PROVE  Sums(h(s), w, s)
  <2>1. s \in SUBSET S /\ s \notin X
    BY <1>2, <1>3
  <2>2. \E g : Sums(g, w, s)
    BY <2>1
  <2>3. QED
    BY <2>2, Zenon
<1>4. ASSUME NEW s \in SUBSET T, s # {}
      PROVE  G[s \ {Pick(s)}] = h(s \ {Pick(s)})[s \ {Pick(s)}]
  <2> DEFINE r == s \ {Pick(s)}
             q == r \ {Pick(r)}
  <2>1. Pick(s) \in s
    BY <1>4, Zenon DEF Pick
  <2>2. r \subseteq T /\ r # T
    BY <2>1
  <2>3. Sums(h(r), w, r)
    BY <1>3, <2>2
  <2>4. CASE r = {}
    <3>1. G[r] = 0
      BY <2>2, <2>4
    <3>2. h(r)[r] = 0
      BY <2>3, <2>4, SumsApply
    <3>3. QED
      BY <3>1, <3>2
  <2>5. CASE r # {}
    <3>1. Pick(r) \in r
      BY <2>5, Zenon DEF Pick
    <3>2. q \subseteq T /\ q # T /\ q \subseteq r
      BY <2>2, <3>1
    <3>3. Sums(h(q), w, q)
      BY <1>3, <3>2
    <3>4. IsFiniteSet(q)
      BY <3>2, FS_Subset
    <3>5. h(q)[q] = h(r)[q]
      BY <2>3, <3>2, <3>3, <3>4, SumsAgree
    <3>6. h(r)[r] = w[Pick(r)] + h(r)[q]
      BY <2>3, <2>5, SumsApply
    <3>7. G[r] = w[Pick(r)] + h(q)[q]
      BY <2>2, <2>5
    <3>8. QED
      BY <3>5, <3>6, <3>7
  <2>6. QED
    BY <2>4, <2>5
<1>5. G = [s \in SUBSET T |-> IF s = {} THEN 0 ELSE w[Pick(s)] + G[s \ {Pick(s)}]]
  <2> DEFINE F(s) == IF s = {} THEN 0 ELSE w[Pick(s)] + h(s \ {Pick(s)})[s \ {Pick(s)}]
             K(s) == IF s = {} THEN 0 ELSE w[Pick(s)] + G[s \ {Pick(s)}]
  <2>1. ASSUME NEW s \in SUBSET T
        PROVE  F(s) = K(s)
    <3>1. CASE s = {}
      BY <3>1
    <3>2. CASE s # {}
      <4>1. G[s \ {Pick(s)}] = h(s \ {Pick(s)})[s \ {Pick(s)}]
        BY <1>4, <3>2
      <4> HIDE DEF G, h
      <4>2. QED
        BY <3>2, <4>1
    <3>3. QED
      BY <3>1, <3>2
  <2>2. G = [s \in SUBSET T |-> F(s)]
    OBVIOUS
  <2> HIDE DEF F, K, G
  <2>3. [s \in SUBSET T |-> F(s)] = [s \in SUBSET T |-> K(s)]
    BY <2>1
  <2>4. G = [s \in SUBSET T |-> K(s)]
    BY <2>2, <2>3
  <2>5. QED
    BY <2>4 DEF K
<1>6. Sums(G, w, T)
  BY <1>5 DEF Sums
<1>7. QED
  BY <1>2, <1>6

\* The community modules' sum is the one Sums describes.
LEMMA SumIs ==
  ASSUME NEW S, IsFiniteSet(S), NEW w
  PROVE  \E g : Sums(g, w, S) /\ SumFunctionOnSet(w, S) = g[S]
<1> DEFINE g == CHOOSE g : Sums(g, w, S)
<1>1. Sums(g, w, S)
  BY SumsExist, Zenon
<1>2. SumFunctionOnSet(w, S) = g[S]
  BY Zenon DEF SumFunctionOnSet, FoldFunctionOnSet, MapThenFoldSet, Sums, Pick
<1>3. QED
  BY <1>1, <1>2

\* Nothing sums to zero.
LEMMA SumOfNone == \A w : SumFunctionOnSet(w, {}) = 0
<1> TAKE w
<1>1. IsFiniteSet({})
  BY FS_EmptySet
<1>2. PICK g : Sums(g, w, {}) /\ SumFunctionOnSet(w, {}) = g[{}]
  BY <1>1, SumIs
<1>3. QED
  BY <1>2, SumsApply

\* The sum over a set that is not empty, with the element Pick takes first.
LEMMA SumPicked ==
  ASSUME NEW S, IsFiniteSet(S), S # {}, NEW w
  PROVE  /\ Pick(S) \in S
         /\ SumFunctionOnSet(w, S) = w[Pick(S)] + SumFunctionOnSet(w, S \ {Pick(S)})
<1> DEFINE r == S \ {Pick(S)}
<1>1. Pick(S) \in S
  BY Zenon DEF Pick
<1>2. IsFiniteSet(r) /\ r \subseteq S
  BY FS_Subset
<1>3. PICK g : Sums(g, w, S) /\ SumFunctionOnSet(w, S) = g[S]
  BY SumIs
<1>4. PICK h : Sums(h, w, r) /\ SumFunctionOnSet(w, r) = h[r]
  BY <1>2, SumIs
<1>5. h[r] = g[r]
  BY <1>2, <1>3, <1>4, SumsAgree
<1>6. g[S] = w[Pick(S)] + g[r]
  BY <1>3, SumsApply
<1>7. QED
  BY <1>1, <1>3, <1>4, <1>5, <1>6

\* Integers sum to an integer.
LEMMA SumType ==
  ASSUME NEW S, IsFiniteSet(S), NEW w, \A x \in S : w[x] \in Int
  PROVE  SumFunctionOnSet(w, S) \in Int
<1> DEFINE X == {T \in SUBSET S : SumFunctionOnSet(w, T) \notin Int}
<1>1. SUFFICES ASSUME X # {}
               PROVE  FALSE
  OBVIOUS
<1>2. PICK m \in X : \A y \in X : y \subseteq m => y = m
  <2>1. X \subseteq SUBSET S
    OBVIOUS
  <2> HIDE DEF X
  <2>2. QED
    BY <1>1, <2>1, SmallestSubset
<1>3. m # {} /\ IsFiniteSet(m)
  <2>1. SumFunctionOnSet(w, {}) = 0
    BY SumOfNone
  <2>2. SumFunctionOnSet(w, m) \notin Int
    OBVIOUS
  <2>3. m # {}
    BY <2>1, <2>2
  <2>4. QED
    BY <2>3, FS_Subset
<1>4. /\ Pick(m) \in m
      /\ SumFunctionOnSet(w, m) = w[Pick(m)] + SumFunctionOnSet(w, m \ {Pick(m)})
  BY <1>3, SumPicked
<1>5. m \ {Pick(m)} \notin X
  BY <1>2, <1>4
<1>6. QED
  BY <1>4, <1>5

\* Any element may be taken out of a sum.
LEMMA SumTakeOut ==
  ASSUME NEW S, IsFiniteSet(S), NEW w, \A x \in S : w[x] \in Int, NEW x \in S
  PROVE  SumFunctionOnSet(w, S) = w[x] + SumFunctionOnSet(w, S \ {x})
<1> DEFINE X == {T \in SUBSET S : \E y \in T :
                    SumFunctionOnSet(w, T) # w[y] + SumFunctionOnSet(w, T \ {y})}
<1>1. SUFFICES ASSUME X # {}
               PROVE  FALSE
  OBVIOUS
<1>2. PICK m \in X : \A y \in X : y \subseteq m => y = m
  <2>1. X \subseteq SUBSET S
    OBVIOUS
  <2> HIDE DEF X
  <2>2. QED
    BY <1>1, <2>1, SmallestSubset
<1>3. PICK y \in m : SumFunctionOnSet(w, m) # w[y] + SumFunctionOnSet(w, m \ {y})
  OBVIOUS
<1> DEFINE p == Pick(m)
<1>4. IsFiniteSet(m) /\ m # {} /\ m \subseteq S
  BY <1>3, FS_Subset
<1>5. p \in m /\ SumFunctionOnSet(w, m) = w[p] + SumFunctionOnSet(w, m \ {p})
  BY <1>4, SumPicked
<1>6. p # y
  BY <1>3, <1>5
<1>7. SumFunctionOnSet(w, m \ {p}) = w[y] + SumFunctionOnSet(w, (m \ {p}) \ {y})
  <2>1. m \ {p} \notin X
    BY <1>2, <1>5
  <2>2. QED
    BY <1>4, <1>6, <2>1
<1>8. SumFunctionOnSet(w, m \ {y}) = w[p] + SumFunctionOnSet(w, (m \ {y}) \ {p})
  <2>1. m \ {y} \notin X
    BY <1>2
  <2>2. QED
    BY <1>4, <1>5, <1>6, <2>1
<1>9. (m \ {p}) \ {y} = (m \ {y}) \ {p}
  OBVIOUS
<1>10. SumFunctionOnSet(w, (m \ {p}) \ {y}) \in Int
  <2>1. IsFiniteSet((m \ {p}) \ {y})
    BY <1>4, FS_Subset
  <2>2. QED
    BY <1>4, <2>1, SumType
<1>11. w[p] \in Int /\ w[y] \in Int
  BY <1>4, <1>5
<1>12. w[p] + (w[y] + SumFunctionOnSet(w, (m \ {p}) \ {y}))
          = w[y] + (w[p] + SumFunctionOnSet(w, (m \ {p}) \ {y}))
  <2> HIDE DEF p
  <2>1. QED
    BY <1>10, <1>11
<1>13. QED
  BY <1>3, <1>5, <1>7, <1>8, <1>9, <1>12, Zenon

\* A sum asks only for what is summed.
LEMMA SumSame ==
  ASSUME NEW S, IsFiniteSet(S), NEW w, NEW v, \A x \in S : w[x] = v[x]
  PROVE  SumFunctionOnSet(w, S) = SumFunctionOnSet(v, S)
<1> DEFINE X == {T \in SUBSET S : SumFunctionOnSet(w, T) # SumFunctionOnSet(v, T)}
<1>1. SUFFICES ASSUME X # {}
               PROVE  FALSE
  OBVIOUS
<1>2. PICK m \in X : \A y \in X : y \subseteq m => y = m
  <2>1. X \subseteq SUBSET S
    OBVIOUS
  <2> HIDE DEF X
  <2>2. QED
    BY <1>1, <2>1, SmallestSubset
<1>3. m # {} /\ IsFiniteSet(m)
  BY SumOfNone, FS_Subset
<1>4. /\ Pick(m) \in m
      /\ SumFunctionOnSet(w, m) = w[Pick(m)] + SumFunctionOnSet(w, m \ {Pick(m)})
      /\ SumFunctionOnSet(v, m) = v[Pick(m)] + SumFunctionOnSet(v, m \ {Pick(m)})
  BY <1>3, SumPicked
<1>5. m \ {Pick(m)} \notin X
  BY <1>2, <1>4
<1>6. SumFunctionOnSet(w, m \ {Pick(m)}) = SumFunctionOnSet(v, m \ {Pick(m)})
  BY <1>5
<1>7. QED
  BY <1>4, <1>6

\* A sum of numbers none of which is below zero is not below any part of it.
LEMMA SumGrows ==
  ASSUME NEW S, IsFiniteSet(S), NEW w, \A x \in S : w[x] \in Nat
  PROVE  SumFunctionOnSet(w, S) \in Nat /\ \A x \in S : w[x] <= SumFunctionOnSet(w, S)
<1>1. \A T \in SUBSET S : SumFunctionOnSet(w, T) \in Nat
  <2> DEFINE X == {T \in SUBSET S : SumFunctionOnSet(w, T) \notin Nat}
  <2>1. SUFFICES ASSUME X # {}
                 PROVE  FALSE
    OBVIOUS
  <2>2. PICK m \in X : \A y \in X : y \subseteq m => y = m
    <3>1. X \subseteq SUBSET S
      OBVIOUS
    <3> HIDE DEF X
    <3>2. QED
      BY <2>1, <3>1, SmallestSubset
  <2>3. m # {} /\ IsFiniteSet(m)
    <3>1. SumFunctionOnSet(w, {}) = 0
      BY SumOfNone
    <3>2. SumFunctionOnSet(w, m) \notin Nat
      OBVIOUS
    <3>3. m # {}
      BY <3>1, <3>2
    <3>4. QED
      BY <3>3, FS_Subset
  <2>4. /\ Pick(m) \in m
        /\ SumFunctionOnSet(w, m) = w[Pick(m)] + SumFunctionOnSet(w, m \ {Pick(m)})
    BY <2>3, SumPicked
  <2>5. m \ {Pick(m)} \notin X
    BY <2>2, <2>4
  <2>6. QED
    BY <2>4, <2>5
<1>2. ASSUME NEW x \in S
      PROVE  w[x] <= SumFunctionOnSet(w, S)
  <2>1. SumFunctionOnSet(w, S) = w[x] + SumFunctionOnSet(w, S \ {x})
    BY SumTakeOut
  <2>2. SumFunctionOnSet(w, S \ {x}) \in Nat /\ w[x] \in Nat
    BY <1>1
  <2>3. QED
    BY <2>1, <2>2
<1>3. QED
  BY <1>1, <1>2

-----------------------------------------------------------------------------
(* Folds over sequences.  The step of a fold is a function of a pair here, *)
(* F[<<a, x>>], what there is so far and the next element, because no      *)
(* prover instantiates a lemma about an operator; FoldBySteps is what a    *)
(* fold of an operator is turned into one with.                            *)

FoldBy(F, base, seq) == FoldLeft(LAMBDA a, x : F[<<a, x>>], base, seq)

\* g[s] is what the elements with an index in s come to, in the order of the
\* indices.
Folded(g, F, base, seq, D) ==
  g = [s \in SUBSET D |->
         IF s = {} THEN base ELSE F[<<g[s \ {Max(s)}], seq[Max(s)]>>]]

SameOn(D, f, g) == \A i \in D : f[i] = g[i]

\* A set of sets of indices that has the empty one, and every set that it has
\* without its greatest member, has all of them.
LEMMA GreatestLast ==
  ASSUME NEW D, Numbers(D), IsFiniteSet(D), NEW P, {} \in P,
         \A s \in SUBSET D : s # {} /\ s \ {Max(s)} \in P => s \in P
  PROVE  SUBSET D \subseteq P
<1> DEFINE X == (SUBSET D) \ P
<1>1. SUFFICES ASSUME X # {}
               PROVE  FALSE
  OBVIOUS
<1>2. PICK m \in X : \A y \in X : y \subseteq m => y = m
  <2>1. X \subseteq SUBSET D
    OBVIOUS
  <2> HIDE DEF X
  <2>2. QED
    BY <1>1, <2>1, SmallestSubset
<1>3. m # {} /\ m \in SUBSET D
  OBVIOUS
<1>4. Max(m) \in m
  <2>1. Numbers(m) /\ IsFiniteSet(m)
    BY <1>3, FS_Subset DEF Numbers
  <2>2. QED
    BY <1>3, <2>1, MaxIsIn
<1>5. m \ {Max(m)} \in SUBSET D /\ m \ {Max(m)} \notin X
  BY <1>2, <1>3, <1>4
<1>6. QED
  BY <1>3, <1>5

LEMMA FoldedApply ==
  ASSUME NEW g, NEW F, NEW base, NEW seq, NEW D, Folded(g, F, base, seq, D), NEW s \in SUBSET D
  PROVE  /\ s = {} => g[s] = base
         /\ s # {} => g[s] = F[<<g[s \ {Max(s)}], seq[Max(s)]>>]
<1>1. g[s] = IF s = {} THEN base ELSE F[<<g[s \ {Max(s)}], seq[Max(s)]>>]
  BY Zenon DEF Folded
<1>2. QED
  BY <1>1

LEMMA FoldedNone ==
  ASSUME NEW g, NEW F, NEW base, NEW seq, NEW D, Folded(g, F, base, seq, D)
  PROVE  g[{}] = base
<1>1. {} \in SUBSET D
  OBVIOUS
<1>2. g[{}] = IF {} = {} THEN base ELSE F[<<g[{} \ {Max({})}], seq[Max({})]>>]
  BY <1>1, Zenon DEF Folded
<1>3. QED
  BY <1>2

\* Two such functions agree wherever both are defined.
LEMMA FoldedAgree ==
  ASSUME NEW D, Numbers(D), IsFiniteSet(D), NEW E, D \subseteq E, NEW F, NEW base, NEW seq, NEW more,
         SameOn(D, seq, more), NEW g, NEW h,
         Folded(g, F, base, seq, D), Folded(h, F, base, more, E)
  PROVE  \A s \in SUBSET D : g[s] = h[s]
<1> DEFINE P == {s \in SUBSET D : g[s] = h[s]}
<1>1. {} \in P
  <2>1. {} \in SUBSET D /\ {} \in SUBSET E
    OBVIOUS
  <2>2. g[{}] = base
    BY FoldedNone
  <2>3. h[{}] = base
    BY FoldedNone
  <2>4. QED
    BY <2>1, <2>2, <2>3
<1>2. ASSUME NEW s \in SUBSET D, s # {}, s \ {Max(s)} \in P
      PROVE  s \in P
  <2>1. Max(s) \in s
    <3>1. Numbers(s) /\ IsFiniteSet(s)
      BY FS_Subset DEF Numbers
    <3>2. QED
      BY <1>2, <3>1, MaxIsIn
  <2>2. /\ g[s] = F[<<g[s \ {Max(s)}], seq[Max(s)]>>]
        /\ h[s] = F[<<h[s \ {Max(s)}], more[Max(s)]>>]
    <3>1. s \in SUBSET E
      OBVIOUS
    <3>2. QED
      BY <1>2, <3>1, FoldedApply
  <2>3. g[s \ {Max(s)}] = h[s \ {Max(s)}] /\ seq[Max(s)] = more[Max(s)]
    BY <1>2, <2>1 DEF SameOn
  <2>4. QED
    BY <2>2, <2>3
<1>3. SUBSET D \subseteq P
  <2> HIDE DEF P
  <2>1. QED
    BY <1>1, <1>2, GreatestLast
<1>4. QED
  BY <1>3

\* There is such a function on every finite set of indices.
LEMMA FoldedExist ==
  ASSUME NEW D, Numbers(D), IsFiniteSet(D), NEW F, NEW base, NEW seq
  PROVE  \E g : Folded(g, F, base, seq, D)
<1> DEFINE X == {T \in SUBSET D : ~ \E g : Folded(g, F, base, seq, T)}
<1>1. SUFFICES ASSUME X # {}
               PROVE  FALSE
  OBVIOUS
<1>2. PICK T \in X : \A y \in X : y \subseteq T => y = T
  <2>1. X \subseteq SUBSET D
    OBVIOUS
  <2> HIDE DEF X
  <2>2. QED
    BY <1>1, <2>1, SmallestSubset
<1> DEFINE h(s) == CHOOSE g : Folded(g, F, base, seq, s)
           rest(s) == s \ {Max(s)}
           V(s) == IF s = {} THEN base ELSE F[<<h(rest(s))[rest(s)], seq[Max(s)]>>]
           G == [s \in SUBSET T |-> V(s)]
           K(s) == IF s = {} THEN base ELSE F[<<G[rest(s)], seq[Max(s)]>>]
<1>3. ASSUME NEW s \in SUBSET T, s # T
      PROVE  Folded(h(s), F, base, seq, s)
  <2>1. s \in SUBSET D /\ s \notin X
    BY <1>2, <1>3
  <2>2. \E g : Folded(g, F, base, seq, s)
    BY <2>1
  <2>3. QED
    BY <2>2, Zenon
<1>4. ASSUME NEW s \in SUBSET T, s # {}
      PROVE  Max(s) \in s /\ rest(s) \in SUBSET T /\ rest(s) # T /\ IsFiniteSet(rest(s))
  <2>1. Numbers(s) /\ IsFiniteSet(s)
    <3>1. s \subseteq D
      OBVIOUS
    <3> HIDE DEF X
    <3>2. QED
      BY <3>1, FS_Subset DEF Numbers
  <2>2. Max(s) \in s
    BY <1>4, <2>1, MaxIsIn
  <2>3. IsFiniteSet(rest(s))
    BY <2>1, FS_Subset
  <2>4. QED
    BY <2>2, <2>3
<1>5. ASSUME NEW s \in SUBSET T, s # {}
      PROVE  G[rest(s)] = h(rest(s))[rest(s)]
  <2> DEFINE r == rest(s)
  <2>1. r \in SUBSET T /\ r # T
    BY <1>4, <1>5
  <2>2. Folded(h(r), F, base, seq, r) /\ r \in SUBSET r
    BY <1>3, <2>1
  <2>3. G[r] = V(r)
    BY <2>1
  <2>4. CASE r = {}
    <3>1. h(r)[{}] = base
      BY <2>2, FoldedNone
    <3>2. V(r) = base
      BY <2>4
    <3>3. QED
      BY <2>3, <2>4, <3>1, <3>2
  <2>5. CASE r # {}
    <3> DEFINE q == rest(r)
               k == Max(r)
    <3>1. q \in SUBSET T /\ q # T /\ q \in SUBSET r /\ IsFiniteSet(q) /\ Numbers(q)
      BY <1>4, <2>1, <2>5 DEF Numbers
    <3>2. Folded(h(q), F, base, seq, q)
      BY <1>3, <3>1
    <3>3. h(q)[q] = h(r)[q]
      <4> HIDE DEF h, q, r
      <4>1. q \in SUBSET q /\ q \subseteq r /\ SameOn(q, seq, seq)
        BY <3>1 DEF SameOn
      <4>2. QED
        BY <2>2, <3>1, <3>2, <4>1, FoldedAgree
    <3>4. h(r)[r] = F[<<h(r)[q], seq[k]>>]
      <4> DEFINE j == h(r)
      <4>1. Folded(j, F, base, seq, r) /\ r \in SUBSET r /\ r # {}
        BY <2>2, <2>5
      <4> HIDE DEF j, r
      <4>2. j[r] = F[<<j[r \ {Max(r)}], seq[Max(r)]>>]
        BY <4>1, FoldedApply
      <4>3. QED
        BY <4>2 DEF j
    <3>5. V(r) = F[<<h(q)[q], seq[k]>>]
      BY <2>5
    <3> HIDE DEF h, V, G, q, k, r
    <3>6. V(r) = h(r)[r]
      BY <3>3, <3>4, <3>5
    <3>7. QED
      BY <2>3, <3>6 DEF r
  <2> HIDE DEF h, V, G
  <2>6. QED
    BY <2>4, <2>5 DEF r
<1>6. ASSUME NEW s \in SUBSET T
      PROVE  V(s) = K(s)
  <2>1. CASE s = {}
    BY <2>1
  <2>2. CASE s # {}
    <3>1. G[rest(s)] = h(rest(s))[rest(s)]
      BY <1>5, <2>2
    <3> HIDE DEF G, h, rest
    <3>2. QED
      BY <2>2, <3>1
  <2>3. QED
    BY <2>1, <2>2
<1>7. G = [s \in SUBSET T |-> K(s)]
  <2>1. G = [s \in SUBSET T |-> V(s)]
    OBVIOUS
  <2> HIDE DEF V, K, G
  <2>2. QED
    BY <1>6, <2>1
<1>8. Folded(G, F, base, seq, T)
  <2> HIDE DEF G
  <2>1. QED
    BY <1>7 DEF Folded
<1>9. QED
  <2> HIDE DEF G
  <2>1. QED
    BY <1>2, <1>8

\* The fold is what one of them gives for all the indices.
LEMMA FoldByIs ==
  ASSUME NEW F, NEW base, NEW seq, NEW D, D = DOMAIN seq, Numbers(D), IsFiniteSet(D),
         NEW g, Folded(g, F, base, seq, D)
  PROVE  FoldBy(F, base, seq) = g[D]
<1> DEFINE h == CHOOSE h : Folded(h, F, base, seq, D)
<1>1. Folded(h, F, base, seq, D)
  BY Zenon
<1>2. FoldBy(F, base, seq) = h[D]
  BY Zenon DEF FoldBy, FoldLeft, MapThenFoldSet, Folded
<1> HIDE DEF h
<1>3. D \in SUBSET D /\ D \subseteq D /\ SameOn(D, seq, seq)
  BY DEF SameOn
<1>4. g[D] = h[D]
  BY <1>1, <1>3, FoldedAgree
<1>5. QED
  BY <1>2, <1>4

\* The indices of a sequence.
LEMMA Indices ==
  ASSUME NEW T, NEW seq \in Seq(T)
  PROVE  /\ Len(seq) \in Nat /\ DOMAIN seq = 1..Len(seq)
         /\ Numbers(DOMAIN seq) /\ IsFiniteSet(DOMAIN seq)
         /\ \A i \in DOMAIN seq : seq[i] \in T
<1>1. Len(seq) \in Nat /\ DOMAIN seq = 1..Len(seq) /\ \A i \in DOMAIN seq : seq[i] \in T
  BY LenProperties, ElementOfSeq
<1>2. IsFiniteSet(1..Len(seq))
  BY <1>1, FS_Interval
<1>3. QED
  BY <1>1, <1>2 DEF Numbers

\* A fold over nothing, and over one element more.
LEMMA FoldByNothing ==
  ASSUME NEW F, NEW base
  PROVE  FoldBy(F, base, <<>>) = base
<1>1. DOMAIN <<>> = {} /\ Numbers({}) /\ IsFiniteSet({})
  BY FS_EmptySet DEF Numbers
<1>2. PICK g : Folded(g, F, base, <<>>, {})
  BY <1>1, FoldedExist
<1>3. g[{}] = base
  BY <1>2, FoldedNone
<1>4. QED
  BY <1>1, <1>2, <1>3, FoldByIs

LEMMA GreatestOfInterval ==
  ASSUME NEW n \in Nat, n >= 1
  PROVE  Max(1..n) = n /\ (1..n) \ {n} = 1..(n - 1)
<1>1. IsFiniteSet(1..n)
  BY FS_Interval
<1>2. Numbers(1..n) /\ 1..n # {}
  <2>1. 1 \in 1..n
    OBVIOUS
  <2>2. QED
    BY <2>1 DEF Numbers
<1>3. Max(1..n) \in 1..n /\ \A y \in 1..n : Max(1..n) >= y
  BY <1>1, <1>2, MaxIsIn, Zenon
<1>4. QED
  BY <1>3

\* more is seq with one element after it.
Extends(more, seq) ==
  /\ Numbers(DOMAIN more) /\ IsFiniteSet(DOMAIN more) /\ DOMAIN more # {}
  /\ DOMAIN more \ {Max(DOMAIN more)} = DOMAIN seq
  /\ SameOn(DOMAIN seq, seq, more)

LEMMA FoldByExtends ==
  ASSUME NEW F, NEW base, NEW seq, NEW more, Extends(more, seq)
  PROVE  FoldBy(F, base, more) = F[<<FoldBy(F, base, seq), more[Max(DOMAIN more)]>>]
<1> DEFINE D == DOMAIN seq
           E == DOMAIN more
<1>0. /\ Numbers(E) /\ IsFiniteSet(E)
      /\ E # {} /\ E \ {Max(E)} = D /\ SameOn(D, seq, more)
  BY DEF Extends
<1>d. D = DOMAIN seq /\ E = DOMAIN more
  OBVIOUS
<1> HIDE DEF D, E
<1>1. Numbers(D) /\ IsFiniteSet(D) /\ D \subseteq E
  BY <1>0, FS_Subset DEF Numbers
<1>2. PICK g : Folded(g, F, base, seq, D)
  BY <1>1, FoldedExist
<1>3. PICK h : Folded(h, F, base, more, E)
  BY <1>0, FoldedExist
<1>4. FoldBy(F, base, seq) = g[D]
  BY <1>1, <1>2, FoldByIs, <1>0, <1>d
<1>5. FoldBy(F, base, more) = h[E]
  BY <1>3, FoldByIs, <1>0, <1>d
<1>6. g[D] = h[D]
  <2>1. D \in SUBSET D
    OBVIOUS
  <2>2. \A s \in SUBSET D : g[s] = h[s]
    BY <1>1, <1>2, <1>3, <1>0, FoldedAgree
  <2>3. QED
    BY <2>1, <2>2
<1>7. h[E] = F[<<h[D], more[Max(E)]>>]
  <2>1. ASSUME NEW s \in SUBSET E, s # {}
        PROVE  h[s] = F[<<h[s \ {Max(s)}], more[Max(s)]>>]
    BY <1>3, <2>1, FoldedApply
  <2>2. h[E] = F[<<h[E \ {Max(E)}], more[Max(E)]>>]
    BY <1>0, <2>1
  <2>3. QED
    BY <1>0, <2>2
<1>8. QED
  BY <1>0, <1>d, <1>4, <1>5, <1>6, <1>7

LEMMA FoldByAppend ==
  ASSUME NEW F, NEW base, NEW T, NEW seq \in Seq(T), NEW x \in T
  PROVE  FoldBy(F, base, Append(seq, x)) = F[<<FoldBy(F, base, seq), x>>]
<1>0. PICK more : more = Append(seq, x)
  OBVIOUS
<1> DEFINE n == Len(seq)
           D == DOMAIN seq
           E == DOMAIN more
<1>1. more \in Seq(T) /\ Len(more) = n + 1 /\ more[n + 1] = x /\ \A i \in 1..n : more[i] = seq[i]
  BY <1>0, AppendProperties
<1>2. n \in Nat /\ D = 1..n /\ E = 1..(n + 1)
  BY <1>1, Indices
<1>3. Numbers(E) /\ IsFiniteSet(E)
  BY <1>1, Indices
<1>4. E # {} /\ Max(E) = n + 1 /\ E \ {Max(E)} = D
  <2>1. n + 1 \in Nat /\ n + 1 >= 1 /\ (n + 1) - 1 = n /\ n + 1 \in 1..(n + 1)
    BY <1>2
  <2>2. Max(1..(n + 1)) = n + 1 /\ (1..(n + 1)) \ {n + 1} = 1..((n + 1) - 1)
    BY <2>1, GreatestOfInterval
  <2>3. QED
    BY <1>2, <2>1, <2>2
<1>5. SameOn(D, seq, more)
  BY <1>1, <1>2 DEF SameOn
<1>6. FoldBy(F, base, more) = F[<<FoldBy(F, base, seq), more[Max(E)]>>]
  <2>1. Extends(more, seq)
    BY <1>3, <1>4, <1>5 DEF Extends
  <2>2. ASSUME NEW a, Extends(more, a)
        PROVE  FoldBy(F, base, more) = F[<<FoldBy(F, base, a), more[Max(DOMAIN more)]>>]
    BY ONLY <2>2, FoldByExtends
  <2>3. QED
    BY <2>1, <2>2
<1>7. QED
  BY <1>0, <1>1, <1>4, <1>6

\* seq has n elements.
Counts(seq, n) == n \in Nat /\ DOMAIN seq = 1..n

\* What the elements up to some index come to.
LEMMA FoldByPrefixes ==
  ASSUME NEW F, NEW base, NEW n, NEW seq, Counts(seq, n)
  PROVE  \E h : /\ h[0] = base
                /\ \A i \in 1..n : h[i] = F[<<h[i - 1], seq[i]>>]
                /\ FoldBy(F, base, seq) = h[n]
<1> DEFINE D == DOMAIN seq
<1>1. n \in Nat /\ D = 1..n /\ Numbers(D) /\ IsFiniteSet(D)
  BY FS_Interval DEF Counts, Numbers
<1>2. PICK g : Folded(g, F, base, seq, D)
  BY <1>1, FoldedExist
<1>3. FoldBy(F, base, seq) = g[D]
  BY <1>1, <1>2, FoldByIs
<1> HIDE DEF D
<1> DEFINE h == [i \in 0..n |-> g[1..i]]
<1>4. h[0] = base
  <2>1. h[0] = g[1..0] /\ 1..0 = {}
    BY <1>1
  <2>2. g[{}] = base
    BY <1>2, FoldedNone
  <2>3. QED
    BY <2>1, <2>2
<1>5. ASSUME NEW i \in 1..n
      PROVE  h[i] = F[<<h[i - 1], seq[i]>>]
  <2>1. i \in Nat /\ i >= 1 /\ i \in 1..i /\ 1..i \subseteq D /\ i \in 0..n /\ i - 1 \in 0..n
    BY <1>1
  <2>2. Max(1..i) = i /\ (1..i) \ {i} = 1..(i - 1)
    BY <2>1, GreatestOfInterval
  <2>3. ASSUME NEW s \in SUBSET D, s # {}
        PROVE  g[s] = F[<<g[s \ {Max(s)}], seq[Max(s)]>>]
    <3>1. g[s] = IF s = {} THEN base ELSE F[<<g[s \ {Max(s)}], seq[Max(s)]>>]
      BY <1>2, Zenon DEF Folded
    <3>2. QED
      BY <2>3, <3>1
  <2>4. g[1..i] = F[<<g[1..(i - 1)], seq[i]>>]
    BY <2>1, <2>2, <2>3
  <2>5. h[i] = g[1..i] /\ h[i - 1] = g[1..(i - 1)]
    BY <2>1
  <2>6. QED
    BY <2>4, <2>5
<1>6. FoldBy(F, base, seq) = h[n]
  BY <1>1, <1>3
<1> HIDE DEF h
<1>7. QED
  BY <1>4, <1>5, <1>6

\* A set of indices that has the first, and the next of every one it has, has
\* all of them.
LEMMA UpTo ==
  ASSUME NEW n \in Nat, NEW P, 0 \in P, \A i \in 1..n : i - 1 \in P => i \in P
  PROVE  0..n \subseteq P
<1> DEFINE X == {0..i : i \in {j \in 0..n : j \notin P}}
<1>1. SUFFICES ASSUME X # {}
               PROVE  FALSE
  OBVIOUS
<1>2. PICK m \in X : \A y \in X : y \subseteq m => y = m
  <2> DEFINE S == 0..n
  <2>1. X \subseteq SUBSET S
    OBVIOUS
  <2>2. IsFiniteSet(S)
    BY FS_Interval
  <2> HIDE DEF X, S
  <2>3. QED
    BY <1>1, <2>1, <2>2, SmallestSubset
<1>3. PICK i \in 0..n : i \notin P /\ m = 0..i
  BY <1>2
<1>4. i \in 1..n /\ i - 1 \in 0..n
  BY <1>3
<1>5. i - 1 \in P
  <2>1. 0..(i - 1) \subseteq m /\ 0..(i - 1) # m
    BY <1>3, <1>4
  <2>2. 0..(i - 1) \notin X
    BY <1>2, <2>1
  <2>3. QED
    BY <1>4, <2>2
<1>6. QED
  BY <1>3, <1>4, <1>5

\* A set of numbers that has one has a least.
LEMMA LeastOf ==
  ASSUME NEW S, NEW n \in Nat, S \subseteq 0..n, S # {}
  PROVE  \E k \in S : /\ \A j \in S : k <= j
                      /\ (CHOOSE i \in S : \A j \in S : i <= j) = k
<1>1. \E k \in S : \A j \in S : k <= j
  <2> DEFINE P == {i \in 0..n : \A j \in 0..i : j \notin S}
  <2>1. SUFFICES ASSUME ~\E k \in S : \A j \in S : k <= j
                 PROVE  FALSE
    OBVIOUS
  <2>2. 0 \in P
    BY <2>1
  <2>3. ASSUME NEW i \in 1..n, i - 1 \in P
        PROVE  i \in P
    <3>1. \A j \in S : j \in Nat /\ ~(j <= i - 1)
      BY <2>3
    <3>2. \A j \in S : i <= j
      BY <3>1
    <3>3. i \notin S
      BY <2>1, <3>2
    <3> QED BY <3>1, <3>3
  <2> HIDE DEF P
  <2>4. 0..n \subseteq P
    BY <2>2, <2>3, UpTo
  <2>5. PICK k \in S : k \in 0..n
    OBVIOUS
  <2> QED BY <2>4, <2>5 DEF P
<1>2. PICK k : k = CHOOSE i \in S : \A j \in S : i <= j
  OBVIOUS
<1>3. k \in S /\ \A j \in S : k <= j
  BY <1>1, <1>2, Zenon
<1> QED BY <1>2, <1>3

\* What a fold keeps.
LEMMA FoldByIn ==
  ASSUME NEW F, NEW A, NEW base \in A, NEW T, NEW n, NEW seq, Counts(seq, n),
         \A i \in 1..n : seq[i] \in T, \A a \in A, x \in T : F[<<a, x>>] \in A
  PROVE  FoldBy(F, base, seq) \in A
<1>1. n \in Nat /\ \A i \in 1..n : seq[i] \in T
  BY DEF Counts
<1>2. PICK h : /\ h[0] = base
               /\ \A i \in 1..n : h[i] = F[<<h[i - 1], seq[i]>>]
               /\ FoldBy(F, base, seq) = h[n]
  BY ONLY Counts(seq, n), FoldByPrefixes
<1> DEFINE P == {i \in 0..n : h[i] \in A}
<1>3. 0 \in P
  BY <1>1, <1>2
<1>4. ASSUME NEW i \in 1..n, i - 1 \in P
      PROVE  i \in P
  <2>1. h[i - 1] \in A /\ seq[i] \in T /\ h[i] = F[<<h[i - 1], seq[i]>>] /\ i \in 0..n
    BY <1>1, <1>2, <1>4
  <2>2. QED
    BY <2>1
<1>5. 0..n \subseteq P
  <2> HIDE DEF P
  <2>1. QED
    BY <1>1, <1>3, <1>4, UpTo
<1>6. n \in 0..n
  BY <1>1
<1>7. QED
  BY <1>2, <1>5, <1>6

\* Stays(F, A, T): F takes what is in A and an element in T to what is in A.
Stays(F, A, T) == \A a \in A, x \in T : F[<<a, x>>] \in A

Typed(seq, D, T) == \A i \in D : seq[i] \in T

\* A fold whose every step stays in A is in A wherever it is defined.
LEMMA FoldedIn ==
  ASSUME NEW F, NEW A, NEW T, NEW base \in A, NEW seq, NEW D, Numbers(D), IsFiniteSet(D),
         Typed(seq, D, T), Stays(F, A, T), NEW g, Folded(g, F, base, seq, D)
  PROVE  \A s \in SUBSET D : g[s] \in A
<1> DEFINE P == {s \in SUBSET D : g[s] \in A}
<1>1. {} \in P
  <2>1. {} \in SUBSET D
    OBVIOUS
  <2>2. g[{}] = base
    BY FoldedNone
  <2>3. QED
    BY <2>1, <2>2
<1>2. ASSUME NEW s \in SUBSET D, s # {}, s \ {Max(s)} \in P
      PROVE  s \in P
  <2>1. Max(s) \in D
    BY <1>2, FS_Subset, MaxIsIn DEF Numbers
  <2>2. g[s] = F[<<g[s \ {Max(s)}], seq[Max(s)]>>]
    BY <1>2, FoldedApply
  <2>3. g[s \ {Max(s)}] \in A /\ seq[Max(s)] \in T
    BY <1>2, <2>1 DEF Typed
  <2>4. QED
    BY <2>2, <2>3 DEF Stays
<1> HIDE DEF P
<1>3. SUBSET D \subseteq P
  BY <1>1, <1>2, GreatestLast
<1>4. QED
  BY <1>3 DEF P

\* A recursion over the indices that takes F's steps, as long as it is in A, is
\* the fold of F.
TakesSteps(h, F, A, base, seq, D) ==
  /\ h[{}] = base
  /\ \A s \in SUBSET D :
       s # {} /\ h[s \ {Max(s)}] \in A => h[s] = F[<<h[s \ {Max(s)}], seq[Max(s)]>>]

LEMMA FoldBySteps ==
  ASSUME NEW F, NEW A, NEW T, NEW base \in A, NEW seq, NEW D, D = DOMAIN seq, Numbers(D), IsFiniteSet(D),
         Typed(seq, D, T), Stays(F, A, T), NEW h, TakesSteps(h, F, A, base, seq, D)
  PROVE  FoldBy(F, base, seq) = h[D]
<1>1. PICK g : Folded(g, F, base, seq, D)
  BY FoldedExist
<1>2. FoldBy(F, base, seq) = g[D]
  BY <1>1, FoldByIs
<1>3. \A s \in SUBSET D : g[s] \in A
  BY <1>1, FoldedIn
<1> DEFINE P == {s \in SUBSET D : g[s] = h[s]}
<1>4. {} \in P
  <2>1. {} \in SUBSET D
    OBVIOUS
  <2>2. g[{}] = base
    BY <1>1, FoldedNone
  <2>3. QED
    BY <2>1, <2>2 DEF TakesSteps
<1>5. ASSUME NEW s \in SUBSET D, s # {}, s \ {Max(s)} \in P
      PROVE  s \in P
  <2>1. g[s] = F[<<g[s \ {Max(s)}], seq[Max(s)]>>]
    <3>1. Folded(g, F, base, seq, D)
      BY <1>1
    <3>2. ASSUME NEW z \in SUBSET D, z # {}
          PROVE  g[z] = F[<<g[z \ {Max(z)}], seq[Max(z)]>>]
      BY ONLY <3>1, <3>2, FoldedApply
    <3>3. QED
      BY <1>5, <3>2
  <2>2. g[s \ {Max(s)}] = h[s \ {Max(s)}] /\ h[s \ {Max(s)}] \in A
    BY <1>3, <1>5
  <2>3. h[s] = F[<<h[s \ {Max(s)}], seq[Max(s)]>>]
    BY <1>5, <2>2 DEF TakesSteps
  <2>4. QED
    BY <2>1, <2>2, <2>3
<1> HIDE DEF P
<1>6. SUBSET D \subseteq P
  BY <1>4, <1>5, GreatestLast
<1>7. D \in SUBSET D
  OBVIOUS
<1>8. QED
  BY <1>2, <1>6, <1>7 DEF P

\* A sequence and one element more.
LEMMA AppendIs ==
  ASSUME NEW T, NEW seq \in Seq(T), NEW x \in T, NEW n, n = Len(seq), NEW more, more = Append(seq, x)
  PROVE  /\ n \in Nat /\ more \in Seq(T) /\ Len(more) = n + 1 /\ more[n + 1] = x
         /\ \A i \in 1..n : more[i] = seq[i]
         /\ DOMAIN seq = 1..n /\ DOMAIN more = 1..(n + 1)
<1>1. more \in Seq(T) /\ Len(more) = Len(seq) + 1 /\ more[Len(seq) + 1] = x
      /\ \A i \in 1..Len(seq) : more[i] = seq[i]
  BY AppendProperties
<1>2. Len(seq) \in Nat /\ DOMAIN seq = 1..Len(seq) /\ DOMAIN more = 1..Len(more)
  BY <1>1, Indices
<1>3. QED
  BY <1>1, <1>2
=============================================================================
