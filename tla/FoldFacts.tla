------------------------------- MODULE FoldFacts -------------------------------
(***************************************************************************)
(* What the proofs of the research side need of finite sets: folds, sums   *)
(* and sorts.  A fold chooses the function that satisfies its recursion    *)
(* over the subsets of a domain; that there is one for a finite domain is  *)
(* proved first, and with it what a fold does with one element more.  The  *)
(* sums of a ledger are folds.  A sort puts each element at the place that *)
(* counts the elements ahead of it, which is defined as long as what is    *)
(* ahead of what is a strict order.                                        *)
(*                                                                         *)
(* There is no induction rule in any of it: a function up to each          *)
(* cardinality is taken from a least cardinality without one, a place in a *)
(* sort from a least place that is free.                                   *)
(***************************************************************************)
EXTENDS Integers, Sequences, FiniteSets, FiniteSetsExt, Functions, FiniteSetTheorems, WellFoundedInduction, TLAPS

LEMMA LeastNat ==
  ASSUME NEW T, T \subseteq Nat, T # {}
  PROVE  \E n \in T : \A m \in T : n <= m
  <1>1. PICK n \in T : \A m \in T : ~(<<m, n>> \in OpToRel(<, Nat))
    BY NatLessThanWellFounded, WFMin
  <1>2. \A m \in T : ~(m < n)
    BY <1>1 DEF OpToRel
  <1>3. n \in Nat /\ \A m \in T : m \in Nat
    OBVIOUS
  <1> QED
    BY <1>2, <1>3

\* A way of taking an element of a set that has one, and a fold that takes them so.
Picks(pick, S) ==
  /\ pick \in [(SUBSET S) \ {{}} -> S]
  /\ \A s \in (SUBSET S) \ {{}} : pick[s] \in s

Unfolds(h, S, base, pick, step) ==
  \A s \in SUBSET S : h[s] = IF s = {} THEN base ELSE step[pick[s]][h[s \ {pick[s]}]]

\* The elements of a finite set can be taken one by one, in the order pick gives them,
\* each step a function of what came before.
LEMMA SetFold ==
  ASSUME NEW S, IsFiniteSet(S), NEW A, NEW base \in A,
         NEW pick, Picks(pick, S), NEW step \in [S -> [A -> A]]
  PROVE  \E h \in [SUBSET S -> A] : Unfolds(h, S, base, pick, step)
  <1> DEFINE Small(n) == {s \in SUBSET S : Cardinality(s) <= n}
             Folds(h, n) ==
               /\ h \in [Small(n) -> A]
               /\ \A s \in Small(n) :
                    h[s] = IF s = {} THEN base ELSE step[pick[s]][h[s \ {pick[s]}]]
             Missing == {n \in Nat : ~\E h : Folds(h, n)}
  <1>0. pick \in [(SUBSET S) \ {{}} -> S] /\ \A s \in (SUBSET S) \ {{}} : pick[s] \in s
    BY DEF Picks
  <1>1. \A s \in SUBSET S : IsFiniteSet(s) /\ Cardinality(s) \in Nat
    BY FS_Subset, FS_CardinalityType
  <1>2. \A s \in (SUBSET S) \ {{}} :
          s \ {pick[s]} \in SUBSET S /\ Cardinality(s \ {pick[s]}) = Cardinality(s) - 1
    BY <1>0, <1>1, FS_RemoveElement
  <1>3. \E h : Folds(h, 0)
    <2>1. \A s \in Small(0) : s = {}
      BY <1>1, FS_EmptySet
    <2>2. Folds([s \in Small(0) |-> base], 0)
      BY <2>1
    <2> QED
      BY <2>2
  <1>4. ASSUME NEW n \in Nat, NEW g, Folds(g, n) PROVE \E h : Folds(h, n + 1)
    <2> DEFINE h == [s \in Small(n + 1) |->
                       IF s = {} THEN base ELSE step[pick[s]][g[s \ {pick[s]}]]]
    <2>1. \A s \in Small(n + 1) \ {{}} : s \ {pick[s]} \in Small(n)
      BY <1>0, <1>1, <1>2
    <2>2. Small(n) \subseteq Small(n + 1)
      BY <1>1
    <2>3. h \in [Small(n + 1) -> A]
      <3>1. \A s \in Small(n + 1) \ {{}} :
              step[pick[s]] \in [A -> A] /\ g[s \ {pick[s]}] \in A
        BY <1>0, <1>4, <2>1
      <3>2. \A s \in Small(n + 1) \ {{}} : step[pick[s]][g[s \ {pick[s]}]] \in A
        BY <3>1
      <3> HIDE DEF Small
      <3>3. \A s \in Small(n + 1) :
              (IF s = {} THEN base ELSE step[pick[s]][g[s \ {pick[s]}]]) \in A
        BY <3>2
      <3> QED
        BY <3>3
    <2>4. \A s \in Small(n) : h[s] = g[s]
      BY <1>4, <2>2
    <2>5. \A s \in Small(n + 1) :
            h[s] = IF s = {} THEN base ELSE step[pick[s]][h[s \ {pick[s]}]]
      BY <2>1, <2>4
    <2> QED
      BY <2>3, <2>5
  <1> HIDE DEF Folds, Small
  <1>5. Missing = {}
    <2> SUFFICES ASSUME Missing # {} PROVE FALSE
      OBVIOUS
    <2>1. PICK n \in Missing : \A m \in Missing : n <= m
      BY LeastNat
    <2>2. n \in Nat /\ n # 0
      BY <1>3, <2>1
    <2>3. n - 1 \in Nat /\ n - 1 \notin Missing /\ (n - 1) + 1 = n
      BY <2>1, <2>2
    <2> QED
      BY <1>4, <2>1, <2>3
  <1>6. PICK h : Folds(h, Cardinality(S))
    <2>1. Cardinality(S) \in Nat
      BY <1>1
    <2> QED
      BY <1>5, <2>1
  <1>7. Small(Cardinality(S)) = SUBSET S
    BY FS_Subset DEF Small
  <1> QED
    BY <1>6, <1>7 DEF Folds, Unfolds

LEMMA MaxOfDays ==
  ASSUME NEW n \in Nat, NEW s \in SUBSET (0 .. n), s # {}
  PROVE  Max(s) \in s /\ \A m \in s : m <= Max(s)
  <1> DEFINE T == {k \in Nat : n - k \in s}
  <1>1. \A m \in s : m \in Nat /\ n - m \in Nat /\ n - (n - m) = m
    OBVIOUS
  <1>2. T # {} /\ T \subseteq Nat
    <2>1. PICK m \in s : TRUE
      OBVIOUS
    <2>2. n - m \in T
      BY <1>1
    <2> QED
      BY <2>2
  <1>3. PICK k \in T : \A l \in T : k <= l
    BY <1>2, LeastNat
  <1>4. n - k \in s /\ k \in Nat
    BY <1>3
  <1>5. ASSUME NEW m \in s PROVE n - k >= m
    <2>1. n - m \in T
      BY <1>1
    <2> QED
      BY <1>1, <1>3, <1>4, <2>1
  <1> QED
    BY <1>1, <1>4, <1>5 DEF Max

LEMMA MaxIsLast ==
  ASSUME NEW n \in Nat, NEW s \in SUBSET (1 .. n), s # {}
  PROVE  Max(s) \in s /\ \A m \in s : m <= Max(s)
  <1>1. s \in SUBSET (0 .. n)
    OBVIOUS
  <1> QED
    BY <1>1, MaxOfDays

UnfoldsLeft(h, n, base, step) ==
  \A s \in SUBSET (1 .. n) : h[s] = IF s = {} THEN base ELSE step[Max(s)][h[s \ {Max(s)}]]

\* Folding from the left takes the last element of what is left: Max is the pick.
LEMMA LeftFold ==
  ASSUME NEW n \in Nat, NEW A, NEW base \in A, NEW step \in [1 .. n -> [A -> A]]
  PROVE  \E h \in [SUBSET (1 .. n) -> A] : UnfoldsLeft(h, n, base, step)
  <1> DEFINE S == 1 .. n
             pick == [s \in (SUBSET S) \ {{}} |-> Max(s)]
  <1>1. IsFiniteSet(S)
    BY FS_Interval
  <1>2. Picks(pick, S) /\ \A s \in (SUBSET S) \ {{}} : pick[s] = Max(s)
    BY MaxIsLast DEF Picks
  <1>3. step \in [S -> [A -> A]]
    OBVIOUS
  <1> SUFFICES \E h \in [SUBSET S -> A] :
                 \A s \in SUBSET S :
                   h[s] = IF s = {} THEN base ELSE step[Max(s)][h[s \ {Max(s)}]]
    BY DEF UnfoldsLeft
  <1> HIDE DEF S, pick
  <1>4. PICK h \in [SUBSET S -> A] : Unfolds(h, S, base, pick, step)
    BY <1>1, <1>2, <1>3, SetFold
  <1>5. ASSUME NEW s \in SUBSET S
        PROVE  h[s] = IF s = {} THEN base ELSE step[Max(s)][h[s \ {Max(s)}]]
    <2>1. CASE s = {}
      BY <1>4, <2>1 DEF Unfolds
    <2>2. CASE s # {}
      <3>1. pick[s] = Max(s)
        BY <1>2, <2>2
      <3>2. h[s] = step[pick[s]][h[s \ {pick[s]}]]
        BY <1>4, <2>2 DEF Unfolds
      <3> QED
        BY <2>2, <3>1, <3>2
    <2> QED
      BY <2>1, <2>2
  <1> QED
    BY <1>5

\* The elements of an interval are taken from the last to the first.
LEMMA MaxOfInterval ==
  ASSUME NEW m \in Nat, m # 0
  PROVE  Max(1 .. m) = m /\ (1 .. m) \ {m} = 1 .. m - 1
  <1>1. 1 .. m \in SUBSET (1 .. m) /\ m \in 1 .. m
    OBVIOUS
  <1>2. Max(1 .. m) \in 1 .. m /\ m <= Max(1 .. m)
    BY <1>1, MaxIsLast
  <1> QED
    BY <1>2

-------------------------------------------------------------------------------
(* Sums over finite sets.                                                      *)

\* A set of subsets that has the empty one, and each whose parts with one element less
\* it has, has them all.
LEMMA SubsetsAll ==
  ASSUME NEW S, IsFiniteSet(S), NEW G, {} \in G,
         \A s \in (SUBSET S) \ {{}} : (\A x \in s : s \ {x} \in G) => s \in G
  PROVE  \A s \in SUBSET S : s \in G
  <1> DEFINE Sizes == {n \in Nat : \E s \in SUBSET S : s \notin G /\ Cardinality(s) = n}
  <1>1. \A s \in SUBSET S : IsFiniteSet(s) /\ Cardinality(s) \in Nat
    BY FS_Subset, FS_CardinalityType
  <1>2. Sizes = {}
    <2> SUFFICES ASSUME Sizes # {} PROVE FALSE
      OBVIOUS
    <2>1. PICK n \in Sizes : \A m \in Sizes : n <= m
      BY LeastNat
    <2>2. PICK s \in SUBSET S : s \notin G /\ Cardinality(s) = n
      BY <2>1
    <2>3. s # {}
      BY <2>2
    <2>4. PICK x \in s : s \ {x} \notin G
      BY <2>2, <2>3
    <2>5. Cardinality(s \ {x}) = n - 1 /\ n \in Nat /\ s \ {x} \in SUBSET S
      BY <1>1, <2>2, FS_RemoveElement
    <2>6. n - 1 \in Nat
      BY <1>1, <2>5
    <2> HIDE DEF Sizes
    <2>7. n - 1 \in Sizes
      BY <2>4, <2>5, <2>6 DEF Sizes
    <2> QED
      BY <2>1, <2>5, <2>7
  <1> QED
    BY <1>1, <1>2

\* The sum of the values of a function over a finite set, one element after the other.
Sums(h, S, f) ==
  \A s \in SUBSET S :
    h[s] = IF s = {} THEN 0 ELSE f[CHOOSE x \in s : TRUE] + h[s \ {CHOOSE x \in s : TRUE}]

SumOf(f) == FoldFunction(+, 0, f)

LEMMA SumUnfolds ==
  ASSUME NEW S, IsFiniteSet(S), NEW f \in [S -> Int]
  PROVE  \E h \in [SUBSET S -> Int] : Sums(h, S, f) /\ SumOf(f) = h[S]
  <1> DEFINE pick == [s \in (SUBSET S) \ {{}} |-> CHOOSE x \in s : TRUE]
             step == [x \in S |-> [a \in Int |-> f[x] + a]]
             Body(h) == [s \in SUBSET S |->
                           IF s = {} THEN 0
                           ELSE f[CHOOSE x \in s : TRUE] + h[s \ {CHOOSE x \in s : TRUE}]]
  <1>1. Picks(pick, S) /\ \A s \in (SUBSET S) \ {{}} : pick[s] = CHOOSE x \in s : TRUE
    BY DEF Picks
  <1>2. step \in [S -> [Int -> Int]] /\ \A x \in S, a \in Int : step[x][a] = f[x] + a
    OBVIOUS
  <1>3. SumOf(f) = (CHOOSE h : h = Body(h))[S]
    BY DEF SumOf, FoldFunction, FoldFunctionOnSet, MapThenFoldSet
  <1>4. ASSUME NEW h \in [SUBSET S -> Int], Unfolds(h, S, 0, pick, step)
        PROVE  h = Body(h)
    <2>1. ASSUME NEW s \in SUBSET S PROVE h[s] = Body(h)[s]
      <3>1. CASE s = {}
        BY <1>4, <3>1 DEF Unfolds
      <3>2. CASE s # {}
        <4>1. pick[s] = (CHOOSE x \in s : TRUE) /\ pick[s] \in S /\ s \ {pick[s]} \in SUBSET S
          BY <1>1, <3>2 DEF Picks
        <4>2. h[s] = step[pick[s]][h[s \ {pick[s]}]]
          BY <1>4, <3>2 DEF Unfolds
        <4> QED
          BY <1>2, <1>4, <3>2, <4>1, <4>2
      <3> QED
        BY <3>1, <3>2
    <2> QED
      BY <2>1
  <1> HIDE DEF pick, step
  <1>5. \E h \in [SUBSET S -> Int] : Unfolds(h, S, 0, pick, step)
    <2>1. 0 \in Int /\ step \in [S -> [Int -> Int]] /\ Picks(pick, S)
      BY <1>1, <1>2
    <2> HIDE DEF Body
    <2> QED
      BY <2>1, SetFold
  <1>6. \E h : h = Body(h)
    BY <1>4, <1>5
  <1> DEFINE sum == CHOOSE h : h = Body(h)
  <1>7. sum = Body(sum)
    BY <1>6
  <1> HIDE DEF sum
  <1>8. Sums(sum, S, f)
    <2>1. ASSUME NEW s \in SUBSET S
          PROVE  Body(sum)[s] = IF s = {} THEN 0
                                ELSE f[CHOOSE x \in s : TRUE] + sum[s \ {CHOOSE x \in s : TRUE}]
      OBVIOUS
    <2> HIDE DEF Body
    <2>2. \A s \in SUBSET S :
            sum[s] = IF s = {} THEN 0
                     ELSE f[CHOOSE x \in s : TRUE] + sum[s \ {CHOOSE x \in s : TRUE}]
      BY <1>7, <2>1
    <2> QED
      BY <2>2 DEF Sums
  <1>9. \A s \in SUBSET S : s \in {t \in SUBSET S : sum[t] \in Int}
    <2> DEFINE G == {t \in SUBSET S : sum[t] \in Int}
    <2>0. sum[{}] = 0
      BY <1>8 DEF Sums
    <2>1. {} \in G
      BY <2>0
    <2>2. ASSUME NEW s \in (SUBSET S) \ {{}}, \A x \in s : s \ {x} \in G PROVE s \in G
      <3>1. (CHOOSE x \in s : TRUE) \in s
        BY <2>2
      <3>2. f[CHOOSE x \in s : TRUE] \in Int /\ sum[s \ {CHOOSE x \in s : TRUE}] \in Int
        BY <2>2, <3>1
      <3>3. sum[s] = f[CHOOSE x \in s : TRUE] + sum[s \ {CHOOSE x \in s : TRUE}]
        BY <1>8, <2>2 DEF Sums
      <3> QED
        BY <3>2, <3>3
    <2> HIDE DEF G
    <2>3. \A s \in SUBSET S : s \in G
      BY <2>1, <2>2, SubsetsAll
    <2> QED
      BY <2>3 DEF G
  <1>10. sum \in [SUBSET S -> Int]
    <2>1. sum = [s \in SUBSET S |-> sum[s]]
      BY <1>7
    <2> QED
      BY <1>9, <2>1
  <1> QED
    BY <1>3, <1>8, <1>10 DEF sum

LEMMA SumType ==
  ASSUME NEW S, IsFiniteSet(S), NEW f \in [S -> Int]
  PROVE  SumOf(f) \in Int
  <1>1. PICK h \in [SUBSET S -> Int] : Sums(h, S, f) /\ SumOf(f) = h[S]
    BY SumUnfolds
  <1> QED
    BY <1>1

\* What holds of the values element by element holds of their sums.
LEMMA SumOfSums ==
  ASSUME NEW S, IsFiniteSet(S), NEW f \in [S -> Int], NEW g \in [S -> Int], NEW e \in [S -> Int],
         \A x \in S : e[x] = f[x] + g[x]
  PROVE  SumOf(e) = SumOf(f) + SumOf(g)
  <1>1. PICK a \in [SUBSET S -> Int] : Sums(a, S, f) /\ SumOf(f) = a[S]
    BY SumUnfolds
  <1>2. PICK b \in [SUBSET S -> Int] : Sums(b, S, g) /\ SumOf(g) = b[S]
    BY SumUnfolds
  <1>3. PICK c \in [SUBSET S -> Int] : Sums(c, S, e) /\ SumOf(e) = c[S]
    BY SumUnfolds
  <1> DEFINE G == {s \in SUBSET S : c[s] = a[s] + b[s]}
  <1>4. {} \in G
    BY <1>1, <1>2, <1>3 DEF Sums
  <1>5. ASSUME NEW s \in (SUBSET S) \ {{}}, \A x \in s : s \ {x} \in G PROVE s \in G
    <2> DEFINE last == CHOOSE x \in s : TRUE
    <2>1. last \in s /\ last \in S /\ s \ {last} \in SUBSET S
      BY <1>5
    <2>2. /\ a[s] = f[last] + a[s \ {last}]
          /\ b[s] = g[last] + b[s \ {last}]
          /\ c[s] = e[last] + c[s \ {last}]
      BY <1>1, <1>2, <1>3, <1>5 DEF Sums
    <2> HIDE DEF last
    <2>3. c[s \ {last}] = a[s \ {last}] + b[s \ {last}]
      BY <1>5, <2>1
    <2>4. /\ f[last] \in Int /\ g[last] \in Int /\ a[s \ {last}] \in Int /\ b[s \ {last}] \in Int
          /\ e[last] = f[last] + g[last]
      BY <2>1
    <2> QED
      BY <2>2, <2>3, <2>4
  <1> HIDE DEF G
  <1>6. \A s \in SUBSET S : s \in G
    BY <1>4, <1>5, SubsetsAll
  <1> QED
    BY <1>1, <1>2, <1>3, <1>6 DEF G

LEMMA SumsOrdered ==
  ASSUME NEW S, IsFiniteSet(S), NEW f \in [S -> Int], NEW g \in [S -> Int],
         \A x \in S : f[x] <= g[x]
  PROVE  SumOf(f) <= SumOf(g)
  <1>1. PICK a \in [SUBSET S -> Int] : Sums(a, S, f) /\ SumOf(f) = a[S]
    BY SumUnfolds
  <1>2. PICK b \in [SUBSET S -> Int] : Sums(b, S, g) /\ SumOf(g) = b[S]
    BY SumUnfolds
  <1> DEFINE G == {s \in SUBSET S : a[s] <= b[s]}
  <1>4. {} \in G
    BY <1>1, <1>2 DEF Sums
  <1>5. ASSUME NEW s \in (SUBSET S) \ {{}}, \A x \in s : s \ {x} \in G PROVE s \in G
    <2> DEFINE last == CHOOSE x \in s : TRUE
    <2>1. last \in s /\ last \in S /\ s \ {last} \in SUBSET S
      BY <1>5
    <2>2. /\ a[s] = f[last] + a[s \ {last}]
          /\ b[s] = g[last] + b[s \ {last}]
      BY <1>1, <1>2, <1>5 DEF Sums
    <2> HIDE DEF last
    <2>3. a[s \ {last}] <= b[s \ {last}]
      BY <1>5, <2>1
    <2>4. /\ f[last] \in Int /\ g[last] \in Int /\ a[s \ {last}] \in Int /\ b[s \ {last}] \in Int
          /\ f[last] <= g[last]
      BY <2>1
    <2> QED
      BY <2>2, <2>3, <2>4
  <1> HIDE DEF G
  <1>6. \A s \in SUBSET S : s \in G
    BY <1>4, <1>5, SubsetsAll
  <1> QED
    BY <1>1, <1>2, <1>6 DEF G

\* Shares of which n make at most the whole, on at most n elements, are together at most
\* the whole.
LEMMA SumOfShares ==
  ASSUME NEW S, IsFiniteSet(S), NEW f \in [S -> Nat], NEW D \in SUBSET S,
         NEW n \in Nat, Cardinality(D) <= n, NEW whole \in Nat,
         \A x \in D : n * f[x] <= whole, \A x \in S \ D : f[x] = 0
  PROVE  SumOf(f) <= whole
  <1>1. f \in [S -> Int]
    OBVIOUS
  <1>2. PICK a \in [SUBSET S -> Int] : Sums(a, S, f) /\ SumOf(f) = a[S]
    BY <1>1, SumUnfolds
  <1> DEFINE G == {s \in SUBSET S : n * a[s] <= Cardinality(s \cap D) * whole /\ a[s] >= 0}
  <1>3. \A s \in SUBSET S : IsFiniteSet(s \cap D) /\ Cardinality(s \cap D) \in Nat
    <2>1. \A s \in SUBSET S : s \cap D \in SUBSET S
      OBVIOUS
    <2> QED
      BY <2>1, FS_Subset, FS_CardinalityType
  <1>4. {} \in G
    <2>1. a[{}] = 0
      BY <1>2 DEF Sums
    <2>2. {} \cap D = {} /\ Cardinality({}) = 0
      BY FS_EmptySet
    <2> QED
      BY <2>1, <2>2
  <1>5. ASSUME NEW s \in (SUBSET S) \ {{}}, \A x \in s : s \ {x} \in G PROVE s \in G
    <2> DEFINE last == CHOOSE x \in s : TRUE
    <2>1. last \in s /\ last \in S /\ s \ {last} \in SUBSET S
      BY <1>5
    <2>2. a[s] = f[last] + a[s \ {last}]
      BY <1>2, <1>5 DEF Sums
    <2> HIDE DEF last
    <2>3. n * a[s \ {last}] <= Cardinality((s \ {last}) \cap D) * whole /\ a[s \ {last}] >= 0
      BY <1>5, <2>1
    <2>4. f[last] \in Nat /\ a[s \ {last}] \in Int
      BY <2>1
    <2>5. n * a[s] = n * f[last] + n * a[s \ {last}] /\ a[s] >= 0 /\ a[s] \in Int
      BY <2>2, <2>3, <2>4
    <2>6. CASE last \in D
      <3>1. (s \ {last}) \cap D = (s \cap D) \ {last} /\ last \in s \cap D
        BY <2>1, <2>6
      <3>2. Cardinality((s \ {last}) \cap D) = Cardinality(s \cap D) - 1
        <4>1. IsFiniteSet(s \cap D)
          BY <1>3, <1>5
        <4> DEFINE T == s \cap D
        <4>2. IsFiniteSet(T) /\ last \in T /\ (s \ {last}) \cap D = T \ {last}
          BY <3>1, <4>1
        <4> HIDE DEF T
        <4>3. Cardinality(T \ {last}) = Cardinality(T) - 1
          BY <4>2, FS_RemoveElement
        <4> QED
          BY <4>2, <4>3 DEF T
      <3>3. n * f[last] <= whole
        BY <2>6
      <3> DEFINE k == Cardinality(s \cap D)
      <3>4. k \in Nat /\ n * a[s \ {last}] <= (k - 1) * whole
        BY <1>3, <2>3, <3>2
      <3> HIDE DEF k
      <3>5. (k - 1) * whole + whole = k * whole
        BY <3>4
      <3>6. n * a[s] <= k * whole
        BY <2>4, <2>5, <3>3, <3>4, <3>5
      <3> QED
        BY <2>5, <3>6 DEF k
    <2>7. CASE last \notin D
      <3>1. (s \ {last}) \cap D = s \cap D /\ f[last] = 0
        BY <2>1, <2>7
      <3>2. n * f[last] = 0
        BY <3>1
      <3>3. n * a[s \ {last}] <= Cardinality(s \cap D) * whole
        BY <2>3, <3>1
      <3>4. n * a[s] = n * a[s \ {last}]
        BY <2>2, <2>4, <3>1
      <3> QED
        BY <2>5, <3>3, <3>4
    <2> QED
      BY <2>6, <2>7
  <1> HIDE DEF G
  <1>6. \A s \in SUBSET S : s \in G
    BY <1>4, <1>5, SubsetsAll
  <1>7. n * a[S] <= Cardinality(D) * whole /\ a[S] >= 0 /\ a[S] \in Int
    <2>1. S \cap D = D
      OBVIOUS
    <2> QED
      BY <1>6, <2>1 DEF G
  <1>8. CASE n = 0
    <2>1. Cardinality(D) \in Nat /\ IsFiniteSet(D)
      BY FS_Subset, FS_CardinalityType
    <2>2. Cardinality(D) = 0
      BY <1>8, <2>1
    <2>3. D = {}
      BY <2>1, <2>2, FS_EmptySet
    <2> DEFINE Z == {s \in SUBSET S : a[s] = 0}
    <2>4. {} \in Z
      BY <1>2 DEF Sums
    <2>5. ASSUME NEW s \in (SUBSET S) \ {{}}, \A x \in s : s \ {x} \in Z PROVE s \in Z
      <3> DEFINE last == CHOOSE x \in s : TRUE
      <3>1. last \in s /\ last \in S /\ s \ {last} \in SUBSET S
        BY <2>5
      <3>2. a[s] = f[last] + a[s \ {last}]
        BY <1>2, <2>5 DEF Sums
      <3> HIDE DEF last
      <3>3. a[s \ {last}] = 0 /\ f[last] = 0
        BY <2>3, <2>5, <3>1
      <3> QED
        BY <3>2, <3>3
    <2> HIDE DEF Z
    <2>6. \A s \in SUBSET S : s \in Z
      BY <2>4, <2>5, SubsetsAll
    <2>7. a[S] = 0
      BY <2>6 DEF Z
    <2> QED
      BY <1>2, <2>7
  <1>9. CASE n # 0
    <2>1. Cardinality(D) \in Nat
      BY FS_Subset, FS_CardinalityType
    <2>2. Cardinality(D) * whole <= n * whole
      BY <2>1
    <2>3. n * a[S] <= n * whole
      BY <1>7, <2>1, <2>2
    <2>4. a[S] <= whole
      BY <1>7, <1>9, <2>3
    <2> QED
      BY <1>2, <2>4
  <1> QED
    BY <1>8, <1>9
-------------------------------------------------------------------------------
(* Sorting a finite set: places are counted by what comes before.              *)

StrictOrder(R, S) ==
  /\ \A x \in S : <<x, x>> \notin R
  /\ \A x, y \in S : x # y => <<x, y>> \in R \/ <<y, x>> \in R
  /\ \A x, y, z \in S : <<x, y>> \in R /\ <<y, z>> \in R => <<x, z>> \in R

Before(R, S, t) == {u \in S : <<u, t>> \in R}

Sorts(q, S, R) ==
  /\ q \in Seq(S) /\ Len(q) = Cardinality(S)
  /\ \A t \in S : \E k \in 1 .. Len(q) : q[k] = t
  /\ \A j, k \in 1 .. Len(q) : j < k => <<q[j], q[k]>> \in R

LEMMA BeforeCounts ==
  ASSUME NEW S, IsFiniteSet(S), NEW R, StrictOrder(R, S)
  PROVE  /\ \A t \in S : /\ Cardinality(Before(R, S, t)) \in Nat
                         /\ Cardinality(Before(R, S, t)) < Cardinality(S)
         /\ \A t, u \in S : <<t, u>> \in R =>
              Cardinality(Before(R, S, t)) < Cardinality(Before(R, S, u))
  <1>1. \A t \in S : /\ IsFiniteSet(Before(R, S, t)) /\ Cardinality(Before(R, S, t)) \in Nat
                     /\ Before(R, S, t) \in SUBSET S
    <2>1. \A t \in S : Before(R, S, t) \in SUBSET S
      BY DEF Before
    <2> QED
      BY <2>1, FS_Subset, FS_CardinalityType
  <1>2. Cardinality(S) \in Nat
    BY FS_CardinalityType
  <1>3. ASSUME NEW t \in S PROVE Cardinality(Before(R, S, t)) < Cardinality(S)
    <2>1. t \notin Before(R, S, t)
      BY DEF Before, StrictOrder
    <2>2. Before(R, S, t) # S
      BY <2>1
    <2>3. Cardinality(Before(R, S, t)) <= Cardinality(S)
          /\ Cardinality(Before(R, S, t)) # Cardinality(S)
      BY <1>1, <2>2, FS_Subset
    <2> QED
      BY <1>1, <1>2, <2>3
  <1>4. ASSUME NEW t \in S, NEW u \in S, <<t, u>> \in R
        PROVE  Cardinality(Before(R, S, t)) < Cardinality(Before(R, S, u))
    <2>1. t \notin Before(R, S, t) /\ t \in Before(R, S, u)
      BY <1>4 DEF Before, StrictOrder
    <2>2. Before(R, S, t) \in SUBSET Before(R, S, u)
      BY <1>4 DEF Before, StrictOrder
    <2>3. Cardinality(Before(R, S, t)) <= Cardinality(Before(R, S, u))
          /\ Cardinality(Before(R, S, t)) # Cardinality(Before(R, S, u))
      BY <1>1, <2>1, <2>2, FS_Subset
    <2> QED
      BY <1>1, <2>3
  <1> QED
    BY <1>1, <1>3, <1>4

\* Every place has one that belongs there.
LEMMA Places ==
  ASSUME NEW S, IsFiniteSet(S), NEW R, StrictOrder(R, S)
  PROVE  \A k \in 1 .. Cardinality(S) : \E t \in S : Cardinality(Before(R, S, t)) = k - 1
  <1> DEFINE n == Cardinality(S)
             pos == [t \in S |-> Cardinality(Before(R, S, t))]
  <1>1. n \in Nat
    BY FS_CardinalityType
  <1>2. pos \in [S -> 0 .. n - 1]
    BY <1>1, BeforeCounts
  <1>3. \A t, u \in S : pos[t] = pos[u] => t = u
    <2> SUFFICES ASSUME NEW t \in S, NEW u \in S, pos[t] = pos[u], t # u PROVE FALSE
      OBVIOUS
    <2>1. \/ Cardinality(Before(R, S, t)) < Cardinality(Before(R, S, u))
          \/ Cardinality(Before(R, S, u)) < Cardinality(Before(R, S, t))
      BY BeforeCounts DEF StrictOrder
    <2>2. Cardinality(Before(R, S, t)) \in Nat /\ Cardinality(Before(R, S, u)) \in Nat
      BY BeforeCounts
    <2> QED
      BY <2>1, <2>2
  <1>4. pos \in Injection(S, 0 .. n - 1)
    BY <1>2, <1>3 DEF Injection, IsInjective
  <1>5. IsFiniteSet(0 .. n - 1) /\ Cardinality(0 .. n - 1) = n
    <2>1. 0 \in Int /\ n - 1 \in Int
      BY <1>1
    <2>2. IsFiniteSet(0 .. n - 1)
          /\ Cardinality(0 .. n - 1) = IF 0 > n - 1 THEN 0 ELSE (n - 1) - 0 + 1
      BY <2>1, FS_Interval
    <2>3. 0 > n - 1 => n = 0
      BY <1>1
    <2> QED
      BY <1>1, <2>2, <2>3
  <1> HIDE DEF pos
  <1>6. pos \in Surjection(S, 0 .. n - 1)
    BY <1>4, <1>5, FS_Injection
  <1>7. ASSUME NEW k \in 1 .. n PROVE \E t \in S : pos[t] = k - 1
    <2>1. k - 1 \in 0 .. n - 1
      BY <1>1
    <2> QED
      BY <1>6, <2>1 DEF Surjection
  <1> QED
    BY <1>7 DEF pos

LEMMA PlacedSorts ==
  ASSUME NEW S, IsFiniteSet(S), NEW R, StrictOrder(R, S), NEW q,
         q = [k \in 1 .. Cardinality(S) |-> q[k]],
         \A k \in 1 .. Cardinality(S) : q[k] \in S /\ Cardinality(Before(R, S, q[k])) = k - 1
  PROVE  Sorts(q, S, R)
  <1> DEFINE n == Cardinality(S)
             pos(t) == Cardinality(Before(R, S, t))
  <1>1. n \in Nat
    BY FS_CardinalityType
  <1>2. q \in Seq(S) /\ Len(q) = n
    BY <1>1
  <1>3. /\ \A t \in S : pos(t) \in Nat /\ pos(t) < n
        /\ \A t, u \in S : <<t, u>> \in R => pos(t) < pos(u)
        /\ \A k \in 1 .. n : q[k] \in S /\ pos(q[k]) = k - 1
    BY BeforeCounts
  <1> HIDE DEF pos, n
  <1>4. ASSUME NEW t \in S PROVE \E k \in 1 .. n : q[k] = t
    <2> DEFINE place == pos(t) + 1
    <2>1. place \in 1 .. n /\ place - 1 = pos(t)
      BY <1>1, <1>3
    <2>2. q[place] \in S /\ pos(q[place]) = pos(t)
      BY <1>3, <2>1
    <2> HIDE DEF place
    <2>3. ~(<<q[place], t>> \in R) /\ ~(<<t, q[place]>> \in R)
      BY <1>3, <2>2
    <2>4. q[place] = t
      BY <2>2, <2>3 DEF StrictOrder
    <2> QED
      BY <2>1, <2>4
  <1>5. ASSUME NEW j \in 1 .. n, NEW k \in 1 .. n, j < k PROVE <<q[j], q[k]>> \in R
    <2>0. q[j] \in S /\ q[k] \in S /\ pos(q[j]) = j - 1 /\ pos(q[k]) = k - 1
      BY <1>3
    <2>1. q[j] \in S /\ q[k] \in S /\ pos(q[j]) < pos(q[k])
      <3>1. j \in Int /\ k \in Int /\ j - 1 < k - 1
        BY <1>1, <1>5
      <3> QED
        BY <2>0, <3>1
    <2>2. ~(<<q[k], q[j]>> \in R) /\ q[j] # q[k]
      BY <1>1, <1>3, <2>0, <2>1
    <2> QED
      BY <2>1, <2>2 DEF StrictOrder
  <1> QED
    BY <1>2, <1>4, <1>5 DEF Sorts, n

\* No element is sorted in twice, and the order of places is the order.
InPlace(q, S, R) ==
  /\ Len(q) \in Nat
  /\ \A k \in 1 .. Len(q) : q[k] \in S
  /\ \A j, k \in 1 .. Len(q) : q[j] = q[k] => j = k
  /\ \A j, k \in 1 .. Len(q) : <<q[j], q[k]>> \in R => j < k
  /\ \A j, k \in 1 .. Len(q) : j < k => <<q[j], q[k]>> \in R
  /\ \A t \in S : \E k \in 1 .. Len(q) : q[k] = t

LEMMA SortedOnce ==
  ASSUME NEW S, NEW R, StrictOrder(R, S), NEW T \in SUBSET S, NEW q, Sorts(q, T, R)
  PROVE  InPlace(q, T, R)
  <1>1. Len(q) \in Nat /\ \A k \in 1 .. Len(q) : q[k] \in T
    BY DEF Sorts
  <1>2. \A j, k \in 1 .. Len(q) : j < k => <<q[j], q[k]>> \in R
    BY DEF Sorts
  <1>3. \A t \in T : <<t, t>> \notin R
    BY DEF StrictOrder
  <1>4. \A t, u \in T : ~(<<t, u>> \in R /\ <<u, t>> \in R)
    BY <1>3 DEF StrictOrder
  <1>5. \A j, k \in 1 .. Len(q) : j \in Int /\ k \in Int
    BY <1>1
  <1>6. ASSUME NEW j \in 1 .. Len(q), NEW k \in 1 .. Len(q), q[j] = q[k] PROVE j = k
    <2>1. ~(j < k) /\ ~(k < j)
      BY <1>1, <1>2, <1>3, <1>6
    <2> QED
      BY <1>5, <2>1
  <1>7. ASSUME NEW j \in 1 .. Len(q), NEW k \in 1 .. Len(q), <<q[j], q[k]>> \in R PROVE j < k
    <2>1. ~(k < j) /\ j # k
      BY <1>1, <1>2, <1>3, <1>4, <1>7
    <2> QED
      BY <1>5, <2>1
  <1>8. \A t \in T : \E k \in 1 .. Len(q) : q[k] = t
    BY DEF Sorts
  <1> QED
    BY <1>1, <1>2, <1>6, <1>7, <1>8 DEF InPlace

\* A part that has everything before each of its elements is sorted as a beginning.
Closed(T, S, R) == \A u \in T, t \in S : <<t, u>> \in R => t \in T

Begins(p, q) == Len(p) <= Len(q) /\ \A i \in 1 .. Len(p) : p[i] = q[i]

LEMMA Beginning ==
  ASSUME NEW S, NEW R, StrictOrder(R, S), NEW q, Sorts(q, S, R),
         NEW T \in SUBSET S, NEW p, Sorts(p, T, R), Closed(T, S, R)
  PROVE  Begins(p, q)
  <1> DEFINE Bad == {i \in 1 .. Len(p) : ~(i <= Len(q) /\ p[i] = q[i])}
  <1>1. /\ Len(q) \in Nat /\ \A k \in 1 .. Len(q) : q[k] \in S
        /\ \A j, k \in 1 .. Len(q) : q[j] = q[k] => j = k
        /\ \A j, k \in 1 .. Len(q) : <<q[j], q[k]>> \in R => j < k
        /\ \A j, k \in 1 .. Len(q) : j < k => <<q[j], q[k]>> \in R
        /\ \A t \in S : \E k \in 1 .. Len(q) : q[k] = t
    <2>1. InPlace(q, S, R)
      BY SortedOnce
    <2> QED
      BY <2>1 DEF InPlace
  <1>2. /\ Len(p) \in Nat /\ \A k \in 1 .. Len(p) : p[k] \in T
        /\ \A j, k \in 1 .. Len(p) : p[j] = p[k] => j = k
        /\ \A j, k \in 1 .. Len(p) : <<p[j], p[k]>> \in R => j < k
        /\ \A j, k \in 1 .. Len(p) : j < k => <<p[j], p[k]>> \in R
        /\ \A t \in T : \E k \in 1 .. Len(p) : p[k] = t
    <2>1. InPlace(p, T, R)
      BY SortedOnce
    <2> QED
      BY <2>1 DEF InPlace
  <1>3. Bad = {}
    <2> SUFFICES ASSUME Bad # {} PROVE FALSE
      OBVIOUS
    <2>1. Bad \subseteq Nat
      BY <1>2
    <2>2. PICK i \in Bad : \A j \in Bad : i <= j
      BY <2>1, LeastNat
    <2>3. i \in 1 .. Len(p) /\ ~(i <= Len(q) /\ p[i] = q[i])
      BY <2>2
    <2>4. \A j \in 1 .. Len(p) : j < i => j <= Len(q) /\ p[j] = q[j]
      BY <1>2, <2>2, <2>3
    <2> HIDE DEF Bad
    <2>5. PICK j \in 1 .. Len(q) : q[j] = p[i]
      BY <1>1, <1>2, <2>3
    <2>6. ~(j < i)
      <3> SUFFICES ASSUME j < i PROVE FALSE
        OBVIOUS
      <3>1. j \in 1 .. Len(p)
        BY <1>1, <1>2, <2>3
      <3>2. p[j] = p[i] /\ j # i
        BY <1>1, <1>2, <2>3, <2>4, <2>5, <3>1
      <3> QED
        BY <1>2, <2>3, <3>1, <3>2
    <2>7. i < j /\ i \in 1 .. Len(q) /\ p[i] # q[i]
      BY <1>1, <1>2, <2>3, <2>5, <2>6
    <2>8. <<q[i], p[i]>> \in R /\ q[i] \in S
      BY <1>1, <2>5, <2>7
    <2>9. q[i] \in T
      BY <1>2, <2>3, <2>8 DEF Closed
    <2>10. PICK k \in 1 .. Len(p) : p[k] = q[i]
      BY <1>2, <2>9
    <2>11. k < i
      BY <1>2, <2>3, <2>8, <2>10
    <2>12. k <= Len(q) /\ p[k] = q[k] /\ k \in 1 .. Len(q)
      BY <1>1, <1>2, <2>4, <2>11
    <2>13. k = i
      BY <1>1, <2>7, <2>10, <2>12
    <2> QED
      BY <1>2, <2>11, <2>13
  <1>4. \A i \in 1 .. Len(p) : i <= Len(q) /\ p[i] = q[i]
    BY <1>3
  <1>5. Len(p) <= Len(q)
    <2>1. CASE Len(p) = 0
      BY <1>1, <2>1
    <2>2. CASE Len(p) # 0
      <3>1. Len(p) \in 1 .. Len(p)
        BY <1>2, <2>2
      <3> QED
        BY <1>4, <3>1
    <2> QED
      BY <2>1, <2>2
  <1> QED
    BY <1>4, <1>5 DEF Begins

\* In a part, an element has the place that the elements of the part up to it make.
UpTo(q, i, K) == Cardinality({j \in 1 .. i : q[j] \in K})

HasPlace(p, x, n, place) == place \in 1 .. n /\ place <= Len(p) /\ p[place] = x

LEMMA PlaceInPart ==
  ASSUME NEW S, NEW R, StrictOrder(R, S), NEW q, Sorts(q, S, R),
         NEW K, NEW T \in SUBSET S, T = S \cap K, NEW p, Sorts(p, T, R),
         NEW i \in 1 .. Len(q), q[i] \in K
  PROVE  HasPlace(p, q[i], i, UpTo(q, i, K))
  <1>1. /\ Len(q) \in Nat /\ \A k \in 1 .. Len(q) : q[k] \in S
        /\ \A j, k \in 1 .. Len(q) : q[j] = q[k] => j = k
        /\ \A j, k \in 1 .. Len(q) : <<q[j], q[k]>> \in R => j < k
        /\ \A j, k \in 1 .. Len(q) : j < k => <<q[j], q[k]>> \in R
        /\ \A t \in S : \E k \in 1 .. Len(q) : q[k] = t
    <2>1. InPlace(q, S, R)
      BY SortedOnce
    <2> QED
      BY <2>1 DEF InPlace
  <1>2. /\ Len(p) \in Nat /\ \A k \in 1 .. Len(p) : p[k] \in T
        /\ \A j, k \in 1 .. Len(p) : p[j] = p[k] => j = k
        /\ \A j, k \in 1 .. Len(p) : <<p[j], p[k]>> \in R => j < k
        /\ \A j, k \in 1 .. Len(p) : j < k => <<p[j], p[k]>> \in R
        /\ \A t \in T : \E k \in 1 .. Len(p) : p[k] = t
    <2>1. InPlace(p, T, R)
      BY SortedOnce
    <2> QED
      BY <2>1 DEF InPlace
  <1>3. q[i] \in T
    BY <1>1
  <1>4. PICK k \in 1 .. Len(p) : p[k] = q[i]
    BY <1>2, <1>3
  <1> DEFINE D == {j \in 1 .. i : q[j] \in K}
             f == [m \in 1 .. k |-> CHOOSE j \in 1 .. Len(q) : q[j] = p[m]]
  <1>5. ASSUME NEW m \in 1 .. k
        PROVE  f[m] \in 1 .. Len(q) /\ q[f[m]] = p[m] /\ f[m] \in D /\ m \in 1 .. Len(p)
    <2>1. m \in 1 .. Len(p) /\ p[m] \in T
      BY <1>2
    <2>2. \E j \in 1 .. Len(q) : q[j] = p[m]
      BY <1>1, <2>1
    <2>3. f[m] \in 1 .. Len(q) /\ q[f[m]] = p[m]
      BY <2>2
    <2> HIDE DEF f
    <2>4. m = k \/ <<p[m], p[k]>> \in R
      BY <1>2, <2>1
    <2>5. f[m] = i \/ f[m] < i
      BY <1>1, <1>4, <2>3, <2>4
    <2>6. f[m] \in 1 .. i
      BY <1>1, <2>3, <2>5
    <2> QED
      BY <2>1, <2>3, <2>6
  <1>6. f \in [1 .. k -> D]
    BY <1>5
  <1>7. ASSUME NEW m \in 1 .. k, NEW l \in 1 .. k, f[m] = f[l] PROVE m = l
    <2> HIDE DEF f, D
    <2>1. q[f[m]] = p[m] /\ q[f[l]] = p[l] /\ m \in 1 .. Len(p) /\ l \in 1 .. Len(p)
      BY <1>5
    <2> QED
      BY <1>2, <1>7, <2>1
  <1>8. ASSUME NEW j \in D PROVE \E m \in 1 .. k : f[m] = j
    <2>1. j \in 1 .. Len(q) /\ q[j] \in T
      BY <1>1
    <2>2. PICK m \in 1 .. Len(p) : p[m] = q[j]
      BY <1>2, <2>1
    <2>3. j = i \/ <<q[j], q[i]>> \in R
      BY <1>1, <2>1
    <2>4. m = k \/ m < k
      BY <1>2, <1>4, <2>2, <2>3
    <2>5. m \in 1 .. k
      BY <1>2, <2>2, <2>4
    <2> HIDE DEF f
    <2>6. f[m] = j
      BY <1>1, <1>5, <2>1, <2>2, <2>5
    <2> QED
      BY <2>5, <2>6
  <1> HIDE DEF f, D
  <1>9. ExistsBijection(1 .. k, D)
    BY <1>6, <1>7, <1>8 DEF ExistsBijection, Bijection, Injection, Surjection, IsInjective
  <1>10. Cardinality(D) = k
    BY <1>9, FS_CountingElements
  <1>11. k <= i
    <2>1. IsFiniteSet(1 .. i) /\ Cardinality(1 .. i) = i
      BY FS_Interval
    <2>2. D \in SUBSET (1 .. i)
      BY DEF D
    <2> QED
      BY <1>10, <2>1, <2>2, FS_Subset
  <1> QED
    BY <1>4, <1>10, <1>11 DEF D, UpTo, HasPlace
================================================================================
