----------------------------- MODULE FoldLemmas -----------------------------
(***************************************************************************)
(* What the folds of the community modules compute.  They are recursive    *)
(* functions on the subsets of a set, chosen by their equation: nothing is *)
(* known of one before its equation is shown to have a solution.  The      *)
(* induction is by a least counterexample, a set of least cardinality.     *)
(***************************************************************************)
EXTENDS FiniteSetsExt, Functions, FiniteSetTheorems, WellFoundedInduction,
        TLAPS

\* A set of numbers has a least element ...
LEMMA LeastNumber ==
    ASSUME NEW N \in SUBSET Nat, N # {}
    PROVE  \E n \in N : \A m \in N : n <= m
  <1> DEFINE R == {ss \in Nat \X Nat : ss[1] < ss[2]}
  <1>1. IsWellFoundedOn(R, Nat)
    BY NatLessThanWellFounded DEF OpToRel
  <1>2. \A m, n \in Nat : <<m, n>> \in R <=> m < n
    OBVIOUS
  <1> HIDE DEF R
  <1>3. PICK n \in N : \A m \in N : ~(<<m, n>> \in R)
    BY <1>1, WFMin, Zenon
  <1>4. ASSUME NEW m \in N PROVE n <= m
    <2>1. m \in Nat /\ n \in Nat /\ ~(m < n)
      BY <1>2, <1>3
    <2> QED  BY <2>1
  <1> QED  BY <1>4

\* ... one that is bounded has a greatest ...
LEMMA GreatestNumber ==
    ASSUME NEW N \in SUBSET Nat, N # {}, NEW b \in Nat, \A n \in N : n <= b
    PROVE  Max(N) \in N /\ \A n \in N : n <= Max(N)
  <1> DEFINE M == {b - n : n \in N}
  <1>1. M \in SUBSET Nat /\ M # {}
    <2>1. \A n \in N : n \in Nat /\ n <= b
      OBVIOUS
    <2>2. \A n \in N : b - n \in Nat
      BY <2>1
    <2> QED  BY <2>2
  <1>2. PICK m \in M : \A k \in M : m <= k
    BY <1>1, LeastNumber, Zenon
  <1>3. PICK n \in N : m = b - n
    OBVIOUS
  <1>4. ASSUME NEW k \in N PROVE n >= k
    <2>1. m <= b - k
      BY <1>2
    <2> QED  BY <1>3, <2>1
  <1>5. Max(N) \in N /\ \A k \in N : Max(N) >= k
    BY <1>4, Zenon DEF Max
  <1> QED  BY <1>5

\* ... and a collection of finite sets has one of least cardinality.
LEMMA LeastSet ==
    ASSUME NEW C, C # {}, \A s \in C : IsFiniteSet(s)
    PROVE  \E s \in C : \A t \in C : Cardinality(s) <= Cardinality(t)
  <1> DEFINE N == {Cardinality(s) : s \in C}
  <1>1. N \in SUBSET Nat /\ N # {}
    BY FS_CardinalityType
  <1>2. PICK n \in N : \A m \in N : n <= m
    BY <1>1, LeastNumber
  <1> QED  BY <1>2

\* Taking an element away makes a finite set smaller.
LEMMA Smaller ==
    ASSUME NEW S, IsFiniteSet(S), NEW x \in S
    PROVE  /\ IsFiniteSet(S \ {x}) /\ S \ {x} \in SUBSET S
           /\ ~(Cardinality(S) <= Cardinality(S \ {x}))
  <1>1. /\ IsFiniteSet(S \ {x})
        /\ Cardinality(S \ {x}) = Cardinality(S) - 1
        /\ Cardinality(S) \in Nat
    BY FS_RemoveElement, FS_CardinalityType
  <1> QED  BY <1>1

-----------------------------------------------------------------------------
(* Folds.                                                                  *)

\* g folds the subsets of S: pick[s] is the element it takes from s first.
Folds(g, S, base, pick, step) ==
    g = [s \in SUBSET S |->
            IF s = {} THEN base ELSE step[<<pick[s], g[s \ {pick[s]}]>>]]

\* pick picks an element of every non-empty subset of S.
Picks(pick, S) == \A s \in SUBSET S : s # {} => pick[s] \in s

\* The equation of a fold, at one subset.
LEMMA FoldAt ==
    ASSUME NEW g, NEW S, NEW base, NEW pick, NEW step,
           Folds(g, S, base, pick, step), NEW s \in SUBSET S
    PROVE  g[s] = IF s = {} THEN base
                  ELSE step[<<pick[s], g[s \ {pick[s]}]>>]
  BY Zenon DEF Folds

\* What two folds compute for a common subset is the same.
LEMMA FoldUnique ==
    ASSUME NEW U, NEW base, NEW pick, NEW step, Picks(pick, U),
           NEW S \in SUBSET U, NEW T \in SUBSET U,
           NEW g, Folds(g, S, base, pick, step),
           NEW h, Folds(h, T, base, pick, step),
           NEW s, s \in SUBSET S, s \in SUBSET T, IsFiniteSet(s)
    PROVE  g[s] = h[s]
  <1> DEFINE C == {t \in SUBSET s : g[t] # h[t]}
  <1>1. SUFFICES ASSUME C # {} PROVE FALSE
    OBVIOUS
  <1>2. \A t \in C : IsFiniteSet(t)
    BY FS_Subset
  <1>3. PICK t \in C : \A u \in C : Cardinality(t) <= Cardinality(u)
    BY <1>1, <1>2, LeastSet, Zenon
  <1>4. t \in SUBSET S /\ t \in SUBSET T /\ t \in SUBSET U
    OBVIOUS
  <1>5. CASE t = {}
    <2>1. g[t] = base /\ h[t] = base
      BY <1>4, <1>5, FoldAt, Zenon
    <2> QED  BY <2>1
  <1>6. CASE t # {}
    <2>1. pick[t] \in t
      BY <1>4, <1>6 DEF Picks
    <2>2. ~(Cardinality(t) <= Cardinality(t \ {pick[t]}))
      BY <1>2, <2>1, Smaller
    <2>3. t \ {pick[t]} \in SUBSET s /\ t \ {pick[t]} \notin C
      BY <1>3, <2>2
    <2>4. g[t \ {pick[t]}] = h[t \ {pick[t]}]
      BY <2>3
    <2>5. g[t] = step[<<pick[t], g[t \ {pick[t]}]>>]
      BY <1>4, <1>6 DEF Folds
    <2>6. h[t] = step[<<pick[t], h[t \ {pick[t]}]>>]
      BY <1>4, <1>6 DEF Folds
    <2> QED  BY <2>4, <2>5, <2>6
  <1> QED  BY <1>5, <1>6

\* A finite set has a fold.
LEMMA FoldExists ==
    ASSUME NEW U, NEW base, NEW pick, NEW step, Picks(pick, U),
           NEW S \in SUBSET U, IsFiniteSet(S)
    PROVE  \E g : Folds(g, S, base, pick, step)
  <1> DEFINE Has(t) == \E g : Folds(g, t, base, pick, step)
             C == {t \in SUBSET S : ~Has(t)}
  <1>1. SUFFICES ASSUME C # {} PROVE FALSE
    OBVIOUS
  <1>2. \A t \in C : IsFiniteSet(t)
    BY FS_Subset
  <1>3. PICK t \in C : \A u \in C : Cardinality(t) <= Cardinality(u)
    BY <1>1, <1>2, LeastSet, Zenon
  <1>4. t \in SUBSET U /\ IsFiniteSet(t) /\ t \in SUBSET S
    BY <1>2
  <1> DEFINE fold(s) == CHOOSE g : Folds(g, s, base, pick, step)
             rest(s) == s \ {pick[s]}
             f == [s \in SUBSET t |->
                     IF s = {} THEN base
                     ELSE step[<<pick[s], fold(rest(s))[rest(s)]>>]]
  <1>5. ASSUME NEW s \in SUBSET t, s # {}
        PROVE  /\ rest(s) \in SUBSET t /\ IsFiniteSet(rest(s))
               /\ Folds(fold(rest(s)), rest(s), base, pick, step)
    <2>1. pick[s] \in s
      BY <1>4, <1>5 DEF Picks
    <2>2. IsFiniteSet(s) /\ Cardinality(s) <= Cardinality(t)
      BY <1>4, FS_Subset
    <2>3. /\ IsFiniteSet(rest(s)) /\ rest(s) \in SUBSET s
          /\ ~(Cardinality(s) <= Cardinality(rest(s)))
      BY <2>1, <2>2, Smaller
    <2>4. ~(Cardinality(t) <= Cardinality(rest(s)))
      BY <1>4, <2>2, <2>3, FS_CardinalityType
    <2>5. rest(s) \in SUBSET S /\ rest(s) \notin C
      BY <1>3, <1>4, <2>3, <2>4
    <2>6. Has(rest(s))
      BY <2>5
    <2>7. Folds(fold(rest(s)), rest(s), base, pick, step)
      BY <2>6, Zenon
    <2> QED  BY <2>3, <2>7
  <1>6. ASSUME NEW s \in SUBSET t, s # {}
        PROVE  f[rest(s)] = fold(rest(s))[rest(s)]
    <2> DEFINE r == rest(s)
    <2>1. r \in SUBSET t /\ Folds(fold(r), r, base, pick, step)
      BY <1>5, <1>6
    <2>2. CASE r = {}
      <3>1. f[r] = base
        BY <2>1, <2>2
      <3>2. fold(r)[r] = base
        <4> HIDE DEF r, fold
        <4> QED  BY <2>1, <2>2 DEF Folds
      <3> QED  BY <3>1, <3>2
    <2>3. CASE r # {}
      <3>1. /\ rest(r) \in SUBSET t /\ IsFiniteSet(rest(r))
            /\ Folds(fold(rest(r)), rest(r), base, pick, step)
        <4> HIDE DEF r, rest, fold
        <4> QED  BY <1>5, <2>1, <2>3, Zenon
      <3>2. fold(r)[rest(r)] = fold(rest(r))[rest(r)]
        <4>1. /\ r \in SUBSET U /\ rest(r) \in SUBSET U
              /\ rest(r) \in SUBSET r /\ rest(r) \in SUBSET rest(r)
          BY <1>4, <2>1
        <4> HIDE DEF r, rest, fold
        <4> QED  BY <2>1, <3>1, <4>1, FoldUnique
      <3>3. f[r] = step[<<pick[r], fold(rest(r))[rest(r)]>>]
        <4> HIDE DEF r, rest, fold
        <4> QED  BY <2>1, <2>3
      <3>4. fold(r)[r] = step[<<pick[r], fold(r)[rest(r)]>>]
        <4>1. r \in SUBSET r
          OBVIOUS
        <4> HIDE DEF r, fold
        <4> QED  BY <2>1, <2>3, <4>1 DEF Folds
      <3> QED  BY <3>2, <3>3, <3>4
    <2> QED  BY <2>2, <2>3
  <1>7. Folds(f, t, base, pick, step)
    <2>1. f = [s \in SUBSET t |->
                 IF s = {} THEN base ELSE step[<<pick[s], f[rest(s)]>>]]
      <3> DEFINE v(s) == fold(rest(s))[rest(s)]
      <3>1. \A s \in SUBSET t : s # {} => f[rest(s)] = v(s)
        BY <1>6
      <3>2. f = [s \in SUBSET t |->
                   IF s = {} THEN base ELSE step[<<pick[s], v(s)>>]]
        OBVIOUS
      <3> HIDE DEF f, v, rest
      <3> QED  BY <3>1, <3>2
    <2> QED  BY <2>1, Zenon DEF Folds, rest
  <1> QED  BY <1>7

\* A fold of values of V has values in V.
LEMMA FoldTyped ==
    ASSUME NEW U, NEW V, NEW base \in V, NEW pick,
           NEW step \in [U \X V -> V], Picks(pick, U),
           NEW S \in SUBSET U, IsFiniteSet(S),
           NEW g, Folds(g, S, base, pick, step), NEW s \in SUBSET S
    PROVE  g[s] \in V
  <1> DEFINE C == {t \in SUBSET S : g[t] \notin V}
  <1>1. SUFFICES ASSUME C # {} PROVE FALSE
    OBVIOUS
  <1>2. \A t \in C : IsFiniteSet(t)
    BY FS_Subset
  <1>3. PICK t \in C : \A u \in C : Cardinality(t) <= Cardinality(u)
    BY <1>1, <1>2, LeastSet, Zenon
  <1>4. t \in SUBSET S /\ g[t] \notin V
    OBVIOUS
  <1>5. CASE t = {}
    BY <1>4, <1>5 DEF Folds
  <1>6. CASE t # {}
    <2>1. pick[t] \in t /\ pick[t] \in U
      BY <1>4, <1>6 DEF Picks
    <2>2. ~(Cardinality(t) <= Cardinality(t \ {pick[t]}))
      BY <1>2, <2>1, Smaller
    <2>3. t \ {pick[t]} \in SUBSET S /\ t \ {pick[t]} \notin C
      BY <1>3, <2>2
    <2>4. g[t \ {pick[t]}] \in V
      BY <2>3
    <2>5. g[t] = step[<<pick[t], g[t \ {pick[t]}]>>]
      BY <1>4, <1>6 DEF Folds
    <2> QED  BY <1>4, <2>1, <2>4, <2>5
  <1> QED  BY <1>5, <1>6

-----------------------------------------------------------------------------
(* Sums.                                                                   *)

\* The sum of f over S, as StoreTables adds up payload sizes.
SumOver(f, S) == MapThenSumSet(LAMBDA x : f[x], S)

\* The recursive function that computes it.
OneOf(s) == CHOOSE x \in s : TRUE
Sums(f, g, S) ==
    g = [s \in SUBSET S |->
            IF s = {} THEN 0 ELSE f[OneOf(s)] + g[s \ {OneOf(s)}]]

LEMMA SumIsChosen ==
    ASSUME NEW f, NEW S
    PROVE  SumOver(f, S) = (CHOOSE g : Sums(f, g, S))[S]
  BY DEF SumOver, MapThenSumSet, MapThenFoldSet, Sums, OneOf

\* As a fold it takes any element first, and adds its value.
Chosen(D) == [s \in SUBSET D |-> OneOf(s)]
Plus(f, D) == [xv \in D \X Nat |-> f[xv[1]] + xv[2]]

LEMMA ChosenPicks == ASSUME NEW D PROVE Picks(Chosen(D), D)
  BY DEF Picks, Chosen, OneOf

LEMMA PlusTyped ==
    ASSUME NEW D, NEW f \in [D -> Nat]
    PROVE  Plus(f, D) \in [D \X Nat -> Nat]
  BY DEF Plus

\* The equation of a sum is that of the fold.
LEMMA SumFolds ==
    ASSUME NEW D, NEW f \in [D -> Nat], NEW S \in SUBSET D,
           NEW g, \A s \in SUBSET S : g[s] \in Nat
    PROVE  Sums(f, g, S) <=> Folds(g, S, 0, Chosen(D), Plus(f, D))
  <1> DEFINE pick == Chosen(D)
             step == Plus(f, D)
             v(s) == IF s = {} THEN 0 ELSE f[OneOf(s)] + g[s \ {OneOf(s)}]
             w(s) == IF s = {} THEN 0
                     ELSE step[<<pick[s], g[s \ {pick[s]}]>>]
  <1>1. ASSUME NEW s \in SUBSET S PROVE v(s) = w(s)
    <2>1. CASE s # {}
      <3>1. OneOf(s) \in s
        BY <2>1 DEF OneOf
      <3>2. pick[s] = OneOf(s)
        BY DEF Chosen
      <3>3. OneOf(s) \in D /\ g[s \ {OneOf(s)}] \in Nat
        BY <3>1
      <3>4. step[<<OneOf(s), g[s \ {OneOf(s)}]>>] = f[OneOf(s)] + g[s \ {OneOf(s)}]
        <4>1. \A x \in D, n \in Nat : Plus(f, D)[<<x, n>>] = f[x] + n
          BY DEF Plus
        <4> QED  BY <3>3, <4>1
      <3> HIDE DEF pick, step
      <3> QED  BY <2>1, <3>2, <3>4
    <2> QED  BY <2>1
  <1>2. Sums(f, g, S) <=> g = [s \in SUBSET S |-> v(s)]
    BY DEF Sums
  <1>3. Folds(g, S, 0, pick, step) <=> g = [s \in SUBSET S |-> w(s)]
    BY DEF Folds
  <1> HIDE DEF v, w, pick, step
  <1>4. [s \in SUBSET S |-> v(s)] = [s \in SUBSET S |-> w(s)]
    BY <1>1
  <1> QED  BY <1>2, <1>3, <1>4 DEF pick, step

LEMMA SumTyped ==
    ASSUME NEW D, NEW f \in [D -> Nat], NEW S \in SUBSET D, IsFiniteSet(S),
           NEW g, Sums(f, g, S), NEW s \in SUBSET S
    PROVE  g[s] \in Nat
  <1> DEFINE C == {t \in SUBSET S : g[t] \notin Nat}
  <1>1. SUFFICES ASSUME C # {} PROVE FALSE
    OBVIOUS
  <1>2. \A t \in C : IsFiniteSet(t)
    BY FS_Subset
  <1>3. PICK t \in C : \A u \in C : Cardinality(t) <= Cardinality(u)
    BY <1>1, <1>2, LeastSet, Zenon
  <1>4. t \in SUBSET S /\ g[t] \notin Nat
    OBVIOUS
  <1>5. CASE t = {}
    BY <1>4, <1>5 DEF Sums
  <1>6. CASE t # {}
    <2>1. OneOf(t) \in t /\ OneOf(t) \in D
      BY <1>4, <1>6 DEF OneOf
    <2>2. ~(Cardinality(t) <= Cardinality(t \ {OneOf(t)}))
      BY <1>2, <2>1, Smaller
    <2>3. t \ {OneOf(t)} \in SUBSET S /\ t \ {OneOf(t)} \notin C
      BY <1>3, <2>2
    <2>4. g[t \ {OneOf(t)}] \in Nat
      BY <2>3
    <2>5. g[t] = f[OneOf(t)] + g[t \ {OneOf(t)}]
      BY <1>4, <1>6 DEF Sums
    <2> QED  BY <1>4, <2>1, <2>4, <2>5
  <1> QED  BY <1>5, <1>6

\* The recursive function of a finite set exists, and gives the sum of every
\* subset.
LEMMA SumDefined ==
    ASSUME NEW D, NEW f \in [D -> Nat], NEW S \in SUBSET D, IsFiniteSet(S)
    PROVE  \E g : /\ Sums(f, g, S)
                 /\ \A s \in SUBSET S : g[s] \in Nat /\ SumOver(f, s) = g[s]
  <1> DEFINE pick == Chosen(D)
             step == Plus(f, D)
             sum(T) == CHOOSE g : Sums(f, g, T)
  <1>1. Picks(pick, D) /\ step \in [D \X Nat -> Nat]
    BY ChosenPicks, PlusTyped
  <1> HIDE DEF pick, step
  <1>2. ASSUME NEW T \in SUBSET S
        PROVE  /\ Sums(f, sum(T), T)
               /\ \A s \in SUBSET T : sum(T)[s] \in Nat
               /\ Folds(sum(T), T, 0, pick, step)
    <2>1. T \in SUBSET D /\ IsFiniteSet(T)
      BY FS_Subset
    <2>2. PICK h : Folds(h, T, 0, pick, step)
      BY <1>1, <2>1, FoldExists
    <2>3. \A s \in SUBSET T : h[s] \in Nat
      BY <1>1, <2>1, <2>2, FoldTyped
    <2>4. Sums(f, h, T)
      BY <2>1, <2>2, <2>3, SumFolds DEF pick, step
    <2>5. Sums(f, sum(T), T)
      BY <2>4, Zenon
    <2> HIDE DEF sum
    <2>6. \A s \in SUBSET T : sum(T)[s] \in Nat
      BY <2>1, <2>5, SumTyped
    <2>7. Folds(sum(T), T, 0, pick, step)
      BY <2>1, <2>5, <2>6, SumFolds DEF pick, step
    <2> QED  BY <2>5, <2>6, <2>7
  <1>3. ASSUME NEW s \in SUBSET S PROVE SumOver(f, s) = sum(S)[s]
    <2>1. SumOver(f, s) = sum(s)[s]
      BY SumIsChosen
    <2>2. /\ S \in SUBSET D /\ s \in SUBSET D /\ s \in SUBSET s
          /\ S \in SUBSET S /\ IsFiniteSet(s)
      BY FS_Subset
    <2> HIDE DEF sum
    <2>3. Folds(sum(s), s, 0, pick, step) /\ Folds(sum(S), S, 0, pick, step)
      BY <1>2, <2>2
    <2>4. sum(s)[s] = sum(S)[s]
      BY <1>1, <2>2, <2>3, FoldUnique, SMTT(30)
    <2> QED  BY <2>1, <2>4
  <1>4. S \in SUBSET S
    OBVIOUS
  <1> HIDE DEF sum
  <1> QED  BY <1>2, <1>3, <1>4

\* Nothing sums up to zero, and the sum is a number.
LEMMA EmptySum ==
    ASSUME NEW D, NEW f \in [D -> Nat] PROVE SumOver(f, {}) = 0
  <1>1. IsFiniteSet({}) /\ {} \in SUBSET D
    BY FS_EmptySet
  <1>2. PICK g : Sums(f, g, {}) /\ SumOver(f, {}) = g[{}]
    BY <1>1, SumDefined
  <1> QED  BY <1>2 DEF Sums

LEMMA SumType ==
    ASSUME NEW D, NEW f \in [D -> Nat], NEW S \in SUBSET D, IsFiniteSet(S)
    PROVE  SumOver(f, S) \in Nat
  BY SumDefined

\* A sum is the value of any of its elements and the sum of the others.
LEMMA SumSplits ==
    ASSUME NEW D, NEW f \in [D -> Nat], NEW S \in SUBSET D, IsFiniteSet(S),
           NEW x \in S
    PROVE  SumOver(f, S) = f[x] + SumOver(f, S \ {x})
  <1>1. PICK g : /\ Sums(f, g, S)
                 /\ \A s \in SUBSET S : g[s] \in Nat /\ SumOver(f, s) = g[s]
    BY SumDefined
  <1> DEFINE Splits(s) == \A y \in s : g[s] = f[y] + g[s \ {y}]
             C == {s \in SUBSET S : ~Splits(s)}
  <1>2. SUFFICES ASSUME C # {} PROVE FALSE
    <2>1. SUFFICES Splits(S)
      BY <1>1
    <2> QED  OBVIOUS
  <1>3. \A t \in C : IsFiniteSet(t)
    BY FS_Subset
  <1>4. PICK s \in C : \A u \in C : Cardinality(s) <= Cardinality(u)
    BY <1>2, <1>3, LeastSet, Zenon
  <1>5. PICK y \in s : g[s] # f[y] + g[s \ {y}]
    OBVIOUS
  <1> DEFINE z == OneOf(s)
  <1>6. s \in SUBSET S /\ z \in s /\ y \in D /\ z \in D
    BY DEF OneOf
  <1>7. g[s] = f[z] + g[s \ {z}]
    BY <1>1, <1>6 DEF Sums
  <1>8. y # z
    BY <1>5, <1>7
  <1>9. Splits(s \ {z}) /\ Splits(s \ {y})
    <2>1. /\ ~(Cardinality(s) <= Cardinality(s \ {z}))
          /\ ~(Cardinality(s) <= Cardinality(s \ {y}))
      BY <1>3, <1>6, Smaller
    <2>2. s \ {z} \notin C /\ s \ {y} \notin C
      BY <1>4, <2>1
    <2> QED  BY <1>6, <2>2
  <1> DEFINE rest == (s \ {z}) \ {y}
  <1>10. rest = (s \ {y}) \ {z} /\ rest \in SUBSET S
    BY <1>6
  <1>11. g[s \ {z}] = f[y] + g[rest]
    BY <1>6, <1>8, <1>9
  <1>12. g[s \ {y}] = f[z] + g[rest]
    <2>1. z \in s \ {y}
      BY <1>6, <1>8
    <2>2. g[s \ {y}] = f[z] + g[(s \ {y}) \ {z}]
      BY <1>9, <2>1
    <2> QED  BY <1>10, <2>2
  <1>13. f[y] \in Nat /\ f[z] \in Nat /\ g[rest] \in Nat
    BY <1>1, <1>6, <1>10
  <1> HIDE DEF z, rest, C
  <1> QED  BY <1>5, <1>7, <1>11, <1>12, <1>13

\* A part sums up to no more than the whole.
LEMMA SumMonotone ==
    ASSUME NEW D, NEW f \in [D -> Nat], NEW S \in SUBSET D, IsFiniteSet(S),
           NEW T \in SUBSET S
    PROVE  SumOver(f, T) <= SumOver(f, S)
  <1> DEFINE C == {s \in SUBSET S : T \in SUBSET s
                                   /\ ~(SumOver(f, T) <= SumOver(f, s))}
  <1>1. SUFFICES ASSUME C # {} PROVE FALSE
    OBVIOUS
  <1>2. \A s \in C : IsFiniteSet(s)
    BY FS_Subset
  <1>3. PICK s \in C : \A u \in C : Cardinality(s) <= Cardinality(u)
    BY <1>1, <1>2, LeastSet, Zenon
  <1>4. /\ s \in SUBSET S /\ T \in SUBSET s /\ IsFiniteSet(s)
        /\ ~(SumOver(f, T) <= SumOver(f, s))
    BY <1>2
  <1>5. /\ T \in SUBSET D /\ IsFiniteSet(T) /\ s \in SUBSET D
        /\ SumOver(f, T) \in Nat /\ SumOver(f, s) \in Nat
    <2>1. T \in SUBSET D /\ IsFiniteSet(T) /\ s \in SUBSET D
      BY <1>4, FS_Subset
    <2> QED  BY <1>4, <2>1, SumType
  <1>6. s # T
    BY <1>4, <1>5
  <1>7. PICK x \in s : x \notin T
    BY <1>4, <1>6
  <1>8. ~(Cardinality(s) <= Cardinality(s \ {x})) /\ IsFiniteSet(s \ {x})
    BY <1>4, Smaller
  <1>9. SumOver(f, T) <= SumOver(f, s \ {x})
    BY <1>3, <1>4, <1>7, <1>8
  <1>10. /\ SumOver(f, s) = f[x] + SumOver(f, s \ {x})
         /\ f[x] \in Nat /\ SumOver(f, s \ {x}) \in Nat
    <2>1. s \ {x} \in SUBSET D /\ x \in D
      BY <1>5
    <2> QED  BY <1>4, <1>5, <1>8, <2>1, SumSplits, SumType
  <1> QED  BY <1>4, <1>5, <1>9, <1>10

\* Only the values on the set count.
LEMMA SumAgrees ==
    ASSUME NEW D, NEW f \in [D -> Nat], NEW E, NEW h \in [E -> Nat],
           NEW S, S \in SUBSET D, S \in SUBSET E, IsFiniteSet(S),
           \A x \in S : f[x] = h[x]
    PROVE  SumOver(f, S) = SumOver(h, S)
  <1> DEFINE C == {s \in SUBSET S : SumOver(f, s) # SumOver(h, s)}
  <1>1. SUFFICES ASSUME C # {} PROVE FALSE
    OBVIOUS
  <1>2. \A s \in C : IsFiniteSet(s)
    BY FS_Subset
  <1>3. PICK s \in C : \A u \in C : Cardinality(s) <= Cardinality(u)
    BY <1>1, <1>2, LeastSet, Zenon
  <1>4. /\ s \in SUBSET D /\ s \in SUBSET E /\ IsFiniteSet(s)
        /\ SumOver(f, s) # SumOver(h, s)
    BY <1>2
  <1>5. s # {}
    <2>1. SumOver(f, {}) = 0 /\ SumOver(h, {}) = 0
      BY EmptySum
    <2> QED  BY <1>4, <2>1
  <1>6. PICK x \in s : TRUE
    BY <1>5
  <1>7. ~(Cardinality(s) <= Cardinality(s \ {x}))
    BY <1>4, Smaller
  <1>8. SumOver(f, s \ {x}) = SumOver(h, s \ {x})
    BY <1>3, <1>7
  <1>9. SumOver(f, s) = f[x] + SumOver(f, s \ {x})
    BY <1>4, SumSplits
  <1>10. SumOver(h, s) = h[x] + SumOver(h, s \ {x})
    BY <1>4, SumSplits
  <1> QED  BY <1>4, <1>6, <1>8, <1>9, <1>10

\* The sums of the community modules are these sums.
LEMMA SumOfFunction ==
    ASSUME NEW f, NEW S PROVE SumFunctionOnSet(f, S) = SumOver(f, S)
  BY DEF SumFunctionOnSet, FoldFunctionOnSet, SumOver, MapThenSumSet,
         MapThenFoldSet
-----------------------------------------------------------------------------
(* Recursion over the numbers.                                             *)

\* What holds of zero and of what comes next holds of every number.
LEMMA EveryNumber ==
    ASSUME NEW S, 0 \in S, \A n \in Nat : n \in S => n + 1 \in S
    PROVE  \A n \in Nat : n \in S
  <1> DEFINE N == {n \in Nat : n \notin S}
  <1>1. SUFFICES ASSUME N # {} PROVE FALSE
    OBVIOUS
  <1>2. PICK n \in N : \A m \in N : n <= m
    BY <1>1, LeastNumber, Zenon
  <1>3. n \in Nat /\ n \notin S /\ n # 0
    OBVIOUS
  <1>4. n - 1 \in Nat /\ n - 1 + 1 = n /\ ~(n <= n - 1)
    BY <1>3
  <1>5. n - 1 \in S
    BY <1>2, <1>4
  <1> QED  BY <1>3, <1>4, <1>5

\* g begins with base and goes on by step, up to n.
Recurs(g, n, X, base, step) ==
    /\ g \in [0 .. n -> X] /\ g[0] = base
    /\ \A i \in 0 .. n : i # 0 => g[i] = step[<<i, g[i - 1]>>]

LEMMA RecursAgree ==
    ASSUME NEW X, NEW base, NEW step, NEW m \in Nat, NEW n \in Nat,
           NEW g, Recurs(g, m, X, base, step), NEW h, Recurs(h, n, X, base, step)
    PROVE  \A i \in Nat : i <= m /\ i <= n => g[i] = h[i]
  <1> DEFINE S == {i \in Nat : i <= m /\ i <= n => g[i] = h[i]}
  <1>1. 0 \in S
    BY DEF Recurs
  <1>2. ASSUME NEW i \in Nat, i \in S PROVE i + 1 \in S
    <2>1. SUFFICES ASSUME i + 1 <= m, i + 1 <= n PROVE g[i + 1] = h[i + 1]
      OBVIOUS
    <2>2. g[i] = h[i]
      BY <1>2, <2>1
    <2>3. i + 1 \in 0 .. m /\ i + 1 \in 0 .. n /\ i + 1 # 0 /\ i + 1 - 1 = i
      BY <2>1
    <2>4. g[i + 1] = step[<<i + 1, g[i]>>] /\ h[i + 1] = step[<<i + 1, h[i]>>]
      BY <2>3 DEF Recurs
    <2> QED  BY <2>2, <2>4
  <1> HIDE DEF S
  <1>3. \A i \in Nat : i \in S
    BY <1>1, <1>2, EveryNumber
  <1> QED  BY <1>3 DEF S

LEMMA RecursExists ==
    ASSUME NEW X, NEW base \in X, NEW step \in [Nat \X X -> X]
    PROVE  \A n \in Nat : \E g : Recurs(g, n, X, base, step)
  <1> DEFINE S == {n \in Nat : \E g : Recurs(g, n, X, base, step)}
  <1>1. 0 \in S
    <2>1. Recurs([i \in 0 .. 0 |-> base], 0, X, base, step)
      BY DEF Recurs
    <2> QED  BY <2>1
  <1>2. ASSUME NEW n \in Nat, n \in S PROVE n + 1 \in S
    <2>1. PICK g : Recurs(g, n, X, base, step)
      BY <1>2
    <2> DEFINE h == [i \in 0 .. n + 1 |-> IF i <= n THEN g[i] ELSE step[<<n + 1, g[n]>>]]
    <2>2. g[n] \in X /\ step[<<n + 1, g[n]>>] \in X
      BY <2>1 DEF Recurs
    <2>3. h \in [0 .. n + 1 -> X] /\ h[0] = base
      BY <2>1, <2>2 DEF Recurs
    <2>4. ASSUME NEW i \in 0 .. n + 1, i # 0 PROVE h[i] = step[<<i, h[i - 1]>>]
      <3>1. i - 1 \in 0 .. n /\ i - 1 <= n /\ h[i - 1] = g[i - 1]
        BY <2>4
      <3>2. CASE i <= n
        BY <2>1, <2>4, <3>1, <3>2 DEF Recurs
      <3>3. CASE i = n + 1
        <4>1. ~(i <= n) /\ i - 1 = n
          BY <3>3
        <4>2. h[i] = step[<<n + 1, g[n]>>]
          BY <4>1
        <4>3. h[i - 1] = g[n]
          BY <3>1, <4>1
        <4> QED  BY <3>3, <4>1, <4>2, <4>3
      <3> QED  BY <2>4, <3>2, <3>3
    <2> HIDE DEF h
    <2>5. Recurs(h, n + 1, X, base, step)
      BY <2>3, <2>4 DEF Recurs
    <2> QED  BY <2>5
  <1> HIDE DEF S
  <1>3. \A n \in Nat : n \in S
    BY <1>1, <1>2, EveryNumber
  <1> QED  BY <1>3 DEF S

\* A recursion whose steps stay within a set is defined, and stays within it.
IsRecursion(f, X, base, step) ==
    /\ f \in [Nat -> X]
    /\ f = [n \in Nat |-> IF n = 0 THEN base ELSE step[<<n, f[n - 1]>>]]

LEMMA Recursion ==
    ASSUME NEW X, NEW base \in X, NEW step \in [Nat \X X -> X]
    PROVE  \E f : IsRecursion(f, X, base, step)
  <1> DEFINE upTo(n) == CHOOSE g : Recurs(g, n, X, base, step)
             f == [n \in Nat |-> upTo(n)[n]]
  <1>1. \A n \in Nat : Recurs(upTo(n), n, X, base, step)
    BY RecursExists, Zenon
  <1> HIDE DEF upTo
  <1>2. f \in [Nat -> X]
    BY <1>1 DEF Recurs
  <1>3. ASSUME NEW n \in Nat
        PROVE  f[n] = IF n = 0 THEN base ELSE step[<<n, f[n - 1]>>]
    <2>1. CASE n = 0
      BY <1>1, <2>1 DEF Recurs
    <2>2. CASE n # 0
      <3>1. n - 1 \in Nat /\ n - 1 <= n /\ n \in 0 .. n
        BY <2>2
      <3>2. upTo(n)[n] = step[<<n, upTo(n)[n - 1]>>]
        BY <1>1, <2>2, <3>1 DEF Recurs
      <3>3. upTo(n)[n - 1] = upTo(n - 1)[n - 1]
        BY <1>1, <3>1, RecursAgree
      <3> QED  BY <2>2, <3>1, <3>2, <3>3
    <2> QED  BY <2>1, <2>2
  <1> HIDE DEF f
  <1>4. f = [n \in Nat |-> IF n = 0 THEN base ELSE step[<<n, f[n - 1]>>]]
    BY <1>2, <1>3
  <1> QED  BY <1>2, <1>4 DEF IsRecursion

\* So is one up to a number.
IsRecursionUpTo(f, n, X, base, step) ==
    /\ f \in [0 .. n -> X]
    /\ f = [i \in 0 .. n |-> IF i = 0 THEN base ELSE step[<<i, f[i - 1]>>]]

LEMMA RecursionUpTo ==
    ASSUME NEW n \in Nat, NEW X, NEW base \in X, NEW step \in [Nat \X X -> X]
    PROVE  \E f : IsRecursionUpTo(f, n, X, base, step)
  <1>1. PICK g : Recurs(g, n, X, base, step)
    BY RecursExists, Zenon
  <1>2. g = [i \in 0 .. n |-> IF i = 0 THEN base ELSE step[<<i, g[i - 1]>>]]
    BY <1>1 DEF Recurs
  <1>3. g \in [0 .. n -> X]
    BY <1>1 DEF Recurs
  <1> QED  BY <1>2, <1>3 DEF IsRecursionUpTo

\* What holds of zero and goes on up to a number holds up to it.
LEMMA EveryNumberUpTo ==
    ASSUME NEW n \in Nat, NEW S, 0 \in S, \A i \in 0 .. n : i # n /\ i \in S => i + 1 \in S
    PROVE  \A i \in 0 .. n : i \in S
  <1> DEFINE T == {i \in Nat : i <= n => i \in S}
  <1>1. 0 \in T
    OBVIOUS
  <1>2. \A i \in Nat : i \in T => i + 1 \in T
    OBVIOUS
  <1> HIDE DEF T
  <1>3. \A i \in Nat : i \in T
    BY <1>1, <1>2, EveryNumber
  <1> QED  BY <1>3 DEF T
=============================================================================
