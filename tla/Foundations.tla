---------------------------- MODULE Foundations -----------------------------
(***************************************************************************)
(* Facts about counting and folding that the proofs share.                 *)
(*                                                                         *)
(* The counters of this program are compared with cardinalities: of sets   *)
(* that gain or lose one element, and of bar charts, which hold one pair   *)
(* <<x, n>> for each of the h[x] units of x.  A chart stands for a sum of  *)
(* sizes without a fold.                                                   *)
(*                                                                         *)
(* The folds of the library are functions on the sets of the numbers they  *)
(* fold over.  That such a function exists, and is the only one, is proved *)
(* here from the least element of a set of natural numbers; each module    *)
(* that needs what a fold of its own computes does the rest.               *)
(***************************************************************************)
EXTENDS Integers, FiniteSets, FiniteSetTheorems, WellFoundedInduction, TLAPS

-----------------------------------------------------------------------------
(* Counting.                                                               *)

\* A set that changes at one element at most.
LEMMA SetChange ==
  ASSUME NEW S, IsFiniteSet(S), NEW T, NEW r, S \ {r} = T \ {r}
  PROVE  /\ IsFiniteSet(T) /\ Cardinality(S) \in Nat /\ Cardinality(T) \in Nat
         /\ (r \in S <=> r \in T) => T = S
         /\ r \notin S /\ r \in T => Cardinality(T) = Cardinality(S) + 1
         /\ r \in S /\ r \notin T => Cardinality(S) = Cardinality(T) + 1
<1>1. CASE r \in S <=> r \in T
  BY <1>1, FS_CardinalityType
<1>2. CASE r \notin S /\ r \in T
  <2>1. T = S \cup {r}
    BY <1>2
  <2>. QED BY <1>2, <2>1, FS_AddElement, FS_CardinalityType
<1>3. CASE r \in S /\ r \notin T
  <2>1. S = T \cup {r} /\ T \subseteq S
    BY <1>3
  <2>2. IsFiniteSet(T)
    BY <2>1, FS_Subset
  <2>. QED BY <1>3, <2>1, <2>2, FS_AddElement, FS_CardinalityType
<1>. QED BY <1>1, <1>2, <1>3

\* The chart of h over D, no bar of which is higher than M.
Bars(h, D, M) == {u \in D \X (1..M) : u[2] <= h[u[1]]}

LEMMA BarsFinite ==
  ASSUME NEW D, IsFiniteSet(D), NEW M \in Nat, NEW h
  PROVE  IsFiniteSet(Bars(h, D, M)) /\ Cardinality(Bars(h, D, M)) \in Nat
<1>1. IsFiniteSet(1..M)
  BY FS_Interval
<1>3. IsFiniteSet(D \X (1..M))
  BY <1>1, FS_Product
<1>2. Bars(h, D, M) \subseteq D \X (1..M)
  BY DEF Bars
<1>. QED BY <1>2, <1>3, FS_Subset, FS_CardinalityType

\* A chart that gains at one bar gains as many elements.
LEMMA BarsGrow ==
  ASSUME NEW D, IsFiniteSet(D), NEW M \in Nat,
         NEW h, NEW g, \A x \in D : h[x] \in 0..M /\ g[x] \in 0..M,
         NEW d \in D, \A x \in D \ {d} : g[x] = h[x], h[d] <= g[d]
  PROVE  Cardinality(Bars(g, D, M)) = Cardinality(Bars(h, D, M)) + (g[d] - h[d])
<1>. DEFINE Gain == {d} \X ((h[d] + 1)..g[d])
<1>1. Bars(g, D, M) = Bars(h, D, M) \cup Gain
  <2>1. ASSUME NEW u \in Bars(g, D, M) PROVE u \in Bars(h, D, M) \cup Gain
    <3>1. u \in D \X (1..M) /\ u[2] <= g[u[1]]
      BY <2>1 DEF Bars
    <3>2. PICK x \in D, n \in 1..M : u = <<x, n>>
      BY <3>1
    <3>3. CASE x = d /\ n > h[d]
      BY <3>1, <3>2, <3>3
    <3>4. CASE ~(x = d /\ n > h[d])
      BY <3>1, <3>2, <3>4 DEF Bars
    <3>. QED BY <3>3, <3>4
  <2>2. Bars(h, D, M) \subseteq Bars(g, D, M)
    <3>1. \A x \in D : h[x] <= g[x] /\ h[x] \in Int /\ g[x] \in Int
      OBVIOUS
    <3>2. ASSUME NEW u \in Bars(h, D, M) PROVE u \in Bars(g, D, M)
      <4>1. PICK x \in D, n \in 1..M : u = <<x, n>> /\ n <= h[x]
        BY <3>2 DEF Bars
      <4>2. n <= g[x]
        BY <3>1, <4>1
      <4>. QED BY <4>1, <4>2 DEF Bars
    <3>. QED BY <3>2
  <2>3. Gain \subseteq Bars(g, D, M)
    <3>1. ASSUME NEW n \in (h[d] + 1)..g[d] PROVE <<d, n>> \in Bars(g, D, M)
      BY DEF Bars
    <3>. QED BY <3>1
  <2>. QED BY <2>1, <2>2, <2>3
<1>2. Bars(h, D, M) \cap Gain = {}
  <2>1. ASSUME NEW u \in Bars(h, D, M), u \in Gain PROVE FALSE
    <3>1. PICK n \in (h[d] + 1)..g[d] : u = <<d, n>>
      BY <2>1
    <3>2. n <= h[d]
      BY <2>1, <3>1 DEF Bars
    <3>. QED BY <3>1, <3>2
  <2>. QED BY <2>1
<1>3. IsFiniteSet(Bars(h, D, M)) /\ Cardinality(Bars(h, D, M)) \in Nat
  BY BarsFinite
<1>4. IsFiniteSet(Gain) /\ Cardinality(Gain) = g[d] - h[d]
  <2>1. IsFiniteSet({d}) /\ Cardinality({d}) = 1
    BY FS_Singleton
  <2>2. /\ IsFiniteSet((h[d] + 1)..g[d])
        /\ Cardinality((h[d] + 1)..g[d]) = g[d] - h[d]
    <3>1. /\ h[d] + 1 \in Int /\ g[d] \in Int
          /\ IF h[d] + 1 > g[d] THEN g[d] - h[d] = 0 ELSE g[d] - (h[d] + 1) + 1 = g[d] - h[d]
      OBVIOUS
    <3>. QED BY <3>1, FS_Interval
  <2>3. /\ IsFiniteSet({d} \X ((h[d] + 1)..g[d]))
        /\ Cardinality({d} \X ((h[d] + 1)..g[d]))
             = Cardinality({d}) * Cardinality((h[d] + 1)..g[d])
    BY <2>1, <2>2, FS_Product, Zenon
  <2>4. 1 * (g[d] - h[d]) = g[d] - h[d]
    OBVIOUS
  <2>. QED BY <2>1, <2>2, <2>3, <2>4
<1>5. /\ IsFiniteSet(Bars(h, D, M) \cup Gain)
      /\ Cardinality(Bars(h, D, M) \cup Gain)
           = Cardinality(Bars(h, D, M)) + Cardinality(Gain) - Cardinality(Bars(h, D, M) \cap Gain)
  BY <1>3, <1>4, FS_Union, Zenon
<1>6. Cardinality(Bars(h, D, M) \cap Gain) = 0
  BY <1>2, FS_EmptySet
<1>7. g[d] - h[d] \in Int
  OBVIOUS
<1>8. /\ Cardinality(Bars(g, D, M)) = Cardinality(Bars(h, D, M) \cup Gain)
  BY <1>1
<1>. HIDE DEF Gain
<1>. QED BY <1>3, <1>4, <1>5, <1>6, <1>7, <1>8

\* The same from the side of either chart: a bar changes by any amount.
LEMMA BarsChange ==
  ASSUME NEW D, IsFiniteSet(D), NEW M \in Nat,
         NEW h, NEW g, \A x \in D : h[x] \in 0..M /\ g[x] \in 0..M,
         NEW d \in D, \A x \in D \ {d} : g[x] = h[x]
  PROVE  Cardinality(Bars(g, D, M)) = Cardinality(Bars(h, D, M)) + (g[d] - h[d])
<1>1. CASE h[d] <= g[d]
  BY <1>1, BarsGrow
<1>2. CASE ~(h[d] <= g[d])
  <2>1. g[d] <= h[d] /\ g[d] \in Int /\ h[d] \in Int
    BY <1>2
  <2>2. Cardinality(Bars(h, D, M)) = Cardinality(Bars(g, D, M)) + (h[d] - g[d])
    BY <2>1, BarsGrow
  <2>3. Cardinality(Bars(h, D, M)) \in Nat /\ Cardinality(Bars(g, D, M)) \in Nat
    BY BarsFinite
  <2>. QED BY <2>1, <2>2, <2>3
<1>. QED BY <1>1, <1>2

\* A union is never larger than its parts together.
LEMMA UnionAtMost ==
  ASSUME NEW S, NEW T, IsFiniteSet(S), IsFiniteSet(T)
  PROVE  /\ Cardinality(S \cup T) \in Nat
         /\ Cardinality(S \cup T) <= Cardinality(S) + Cardinality(T)
         /\ S \cap T = {} => Cardinality(S \cup T) = Cardinality(S) + Cardinality(T)
<1>1. IsFiniteSet(S \cap T)
  BY FS_Intersection
<1>2. /\ Cardinality(S) \in Nat /\ Cardinality(T) \in Nat /\ Cardinality(S \cap T) \in Nat
  BY <1>1, FS_CardinalityType
<1>3. Cardinality(S \cup T) = Cardinality(S) + Cardinality(T) - Cardinality(S \cap T)
  BY FS_Union
<1>4. IsFiniteSet(S \cup T) /\ Cardinality(S \cup T) \in Nat
  BY FS_Union, FS_CardinalityType
<1>5. S \cap T = {} => Cardinality(S \cap T) = 0
  BY FS_EmptySet
<1>. QED BY <1>2, <1>3, <1>4, <1>5

-----------------------------------------------------------------------------
(* Least and greatest elements.                                            *)

\* A set of natural numbers has a least element.
LEMMA LeastElement ==
  ASSUME NEW T, T \subseteq Nat, T # {}
  PROVE  \E x \in T : \A y \in T : x <= y
<1>1. PICK x \in T : \A y \in T : <<y, x>> \notin OpToRel(<, Nat)
  BY NatLessThanWellFounded, WFMin, Zenon
<1>2. \A y \in T : ~(y < x)
  BY <1>1 DEF OpToRel
<1>. QED BY <1>2

\* What holds of 0, and of the successor of a number of which it holds.
LEMMA AllUpTo ==
  ASSUME NEW T, 0 \in T, NEW n \in Nat, \A m \in 0..(n - 1) : m \in T => m + 1 \in T
  PROVE  0..n \subseteq T
<1>. DEFINE Bad == {m \in 0..n : m \notin T}
<1>. SUFFICES ASSUME Bad # {} PROVE FALSE
  OBVIOUS
<1>1. PICK m \in Bad : \A y \in Bad : m <= y
  <2>1. Bad \subseteq Nat
    OBVIOUS
  <2>. HIDE DEF Bad
  <2>. QED BY <2>1, LeastElement
<1>2. m \in 1..n /\ m - 1 \in 0..(n - 1)
  OBVIOUS
<1>3. m - 1 \notin Bad
  BY <1>1, <1>2
<1>4. m - 1 \in T
  BY <1>2, <1>3
<1>5. (m - 1) + 1 = m
  BY <1>2
<1>. QED BY <1>2, <1>4, <1>5

Greatest(s) == CHOOSE x \in s : \A y \in s : x >= y

\* A set of numbers with a bound has a greatest element.
LEMMA GreatestElement ==
  ASSUME NEW n \in Nat, NEW s \in SUBSET (1..n), s # {}
  PROVE  Greatest(s) \in s /\ \A y \in s : Greatest(s) >= y
<1>. DEFINE T == {n - y : y \in s}
<1>1. T \subseteq Nat /\ T # {}
  <2>1. \A y \in s : y \in Int /\ n - y \in Nat
    OBVIOUS
  <2>. QED BY <2>1
<1>2. PICK t \in T : \A y \in T : t <= y
  <2>. HIDE DEF T
  <2>. QED BY <1>1, LeastElement
<1>3. PICK x \in s : t = n - x
  OBVIOUS
<1>4. ASSUME NEW y \in s PROVE x >= y
  <2>1. n - y \in T /\ y \in Int /\ x \in Int
    OBVIOUS
  <2>2. n - x <= n - y
    BY <1>2, <1>3, <2>1
  <2>. HIDE DEF T
  <2>. QED BY <2>1, <2>2
<1>. QED BY <1>4 DEF Greatest

-----------------------------------------------------------------------------
(* Folds.  FoldLeft folds by a function on the sets of indices.            *)

\* f folds G over the numbers in a set, from the least to the greatest.
FoldsUp(f, n, base, G) ==
  \A s \in SUBSET (1..n) :
    f[s] = IF s = {} THEN base ELSE G[<<f[s \ {Greatest(s)}], Greatest(s)>>]

LEMMA FoldExists ==
  ASSUME NEW n \in Nat, NEW X, NEW base \in X, NEW G \in [X \X (1..n) -> X]
  PROVE  \E f \in [SUBSET (1..n) -> X] : FoldsUp(f, n, base, G)
<1>. DEFINE T == {m \in 0..n : \E f \in [SUBSET (1..m) -> X] : FoldsUp(f, m, base, G)}
<1>1. 0 \in T
  <2>. DEFINE f == [s \in SUBSET (1..0) |-> base]
  <2>1. 1..0 = {}
    OBVIOUS
  <2>2. f \in [SUBSET (1..0) -> X] /\ FoldsUp(f, 0, base, G)
    BY <2>1 DEF FoldsUp
  <2>3. 0 \in 0..n
    OBVIOUS
  <2>. HIDE DEF f
  <2>. QED BY <2>2, <2>3
<1>2. ASSUME NEW m \in 0..(n - 1), m \in T PROVE m + 1 \in T
  <2>1. PICK f \in [SUBSET (1..m) -> X] : FoldsUp(f, m, base, G)
    BY <1>2
  <2>. DEFINE g == [s \in SUBSET (1..(m + 1)) |->
                      IF m + 1 \in s THEN G[<<f[s \ {m + 1}], m + 1>>] ELSE f[s]]
  <2>2. \A s \in SUBSET (1..(m + 1)) :
          s \ {m + 1} \in SUBSET (1..m) /\ (m + 1 \notin s => s \in SUBSET (1..m))
    OBVIOUS
  <2>3. m + 1 \in 1..n
    OBVIOUS
  <2>4. \A s \in SUBSET (1..(m + 1)) :
          g[s] \in X /\ g[s] = IF m + 1 \in s THEN G[<<f[s \ {m + 1}], m + 1>>] ELSE f[s]
    BY <2>2, <2>3
  <2>5. g \in [SUBSET (1..(m + 1)) -> X]
    BY <2>4
  <2>6. ASSUME NEW s \in SUBSET (1..(m + 1))
        PROVE  g[s] = IF s = {} THEN base ELSE G[<<g[s \ {Greatest(s)}], Greatest(s)>>]
    <3>1. CASE m + 1 \in s
      <4>1. Greatest(s) = m + 1
        <5>1. m + 1 \in Nat
          OBVIOUS
        <5>2. Greatest(s) \in s /\ \A y \in s : Greatest(s) >= y
          BY <3>1, <5>1, GreatestElement
        <5>3. Greatest(s) \in 1..(m + 1) /\ Greatest(s) >= m + 1
          BY <3>1, <5>2
        <5>. QED BY <5>1, <5>3
      <4>2. s \ {m + 1} \in SUBSET (1..m) /\ m + 1 \notin s \ {m + 1}
            /\ s \ {m + 1} \in SUBSET (1..(m + 1))
        BY <2>2
      <4>3. g[s \ {m + 1}] = f[s \ {m + 1}]
        BY <2>4, <4>2
      <4>. HIDE DEF g
      <4>. QED BY <2>4, <3>1, <4>1, <4>3
    <3>2. CASE m + 1 \notin s
      <4>1. s \in SUBSET (1..m) /\ s \ {Greatest(s)} \in SUBSET (1..m)
            /\ s \ {Greatest(s)} \in SUBSET (1..(m + 1)) /\ m + 1 \notin s \ {Greatest(s)}
        BY <2>2, <3>2
      <4>2. g[s] = f[s] /\ g[s \ {Greatest(s)}] = f[s \ {Greatest(s)}]
        BY <2>4, <3>2, <4>1
      <4>. HIDE DEF g
      <4>. QED BY <2>1, <4>1, <4>2 DEF FoldsUp
    <3>. QED BY <3>1, <3>2
  <2>. HIDE DEF g
  <2>7. FoldsUp(g, m + 1, base, G)
    BY <2>6 DEF FoldsUp
  <2>8. m + 1 \in 0..n
    OBVIOUS
  <2>. QED BY <2>5, <2>7, <2>8
<1>. HIDE DEF T
<1>3. n \in T
  BY <1>1, <1>2, AllUpTo
<1>. QED BY <1>3 DEF T

\* Two functions that fold alike are the same.
FoldAlike(f, g, n) ==
  /\ f[{}] = g[{}]
  /\ \A s \in SUBSET (1..n) :
       s # {} /\ f[s \ {Greatest(s)}] = g[s \ {Greatest(s)}] => f[s] = g[s]

LEMMA FoldUnique ==
  ASSUME NEW n \in Nat, NEW f, NEW g, FoldAlike(f, g, n)
  PROVE  \A s \in SUBSET (1..n) : f[s] = g[s]
<1>. DEFINE T == {m \in 0..n : \A s \in SUBSET (1..m) : f[s] = g[s]}
<1>1. 0 \in T
  <2>1. 0 \in 0..n /\ 1..0 = {}
    OBVIOUS
  <2>2. \A s \in SUBSET (1..0) : f[s] = g[s]
    BY <2>1 DEF FoldAlike
  <2>. QED BY <2>1, <2>2
<1>2. ASSUME NEW m \in 0..(n - 1), m \in T PROVE m + 1 \in T
  <2>1. \A s \in SUBSET (1..m) : f[s] = g[s]
    BY <1>2
  <2>2. ASSUME NEW s \in SUBSET (1..(m + 1)) PROVE f[s] = g[s]
    <3>1. CASE m + 1 \in s
      <4>1. Greatest(s) = m + 1
        <5>1. m + 1 \in Nat
          OBVIOUS
        <5>2. Greatest(s) \in s /\ \A y \in s : Greatest(s) >= y
          BY <3>1, <5>1, GreatestElement
        <5>3. Greatest(s) \in 1..(m + 1) /\ Greatest(s) >= m + 1
          BY <3>1, <5>2
        <5>. QED BY <5>1, <5>3
      <4>2. s \ {m + 1} \in SUBSET (1..m) /\ s \in SUBSET (1..n) /\ s # {}
        BY <3>1
      <4>. QED BY <2>1, <4>1, <4>2 DEF FoldAlike
    <3>2. CASE m + 1 \notin s
      <4>1. s \in SUBSET (1..m)
        BY <3>2
      <4>. QED BY <2>1, <4>1
    <3>. QED BY <3>1, <3>2
  <2>. QED BY <2>2
<1>. HIDE DEF T
<1>3. n \in T
  BY <1>1, <1>2, AllUpTo
<1>. QED BY <1>3 DEF T

-----------------------------------------------------------------------------
(* Recursion that ends.                                                    *)

\* F computes the value at d of a function from its values of lower rank.
LooksDown(F, rank, X, D) ==
  \A f, g \in [D -> X] : \A d \in D :
    (\A c \in D : rank[c] < rank[d] => f[c] = g[c]) => F[<<f, d>>] = F[<<g, d>>]

\* f takes at each d the value that F computes from f.
Recurs(f, F, D) == \A d \in D : f[d] = F[<<f, d>>]

LEMMA RankRecursion ==
  ASSUME NEW D, NEW X, X # {}, NEW n \in Nat, NEW rank \in [D -> 1..n],
         NEW F \in [[D -> X] \X D -> X], LooksDown(F, rank, X, D)
  PROVE  \E f \in [D -> X] : Recurs(f, F, D)
<1>. DEFINE T == {m \in 0..n : \E f \in [D -> X] :
                                 \A d \in D : rank[d] <= m => f[d] = F[<<f, d>>]}
<1>1. 0 \in T
  <2>1. PICK x \in X : TRUE
    OBVIOUS
  <2>. DEFINE f == [d \in D |-> x]
  <2>2. f \in [D -> X] /\ \A d \in D : ~(rank[d] <= 0)
    OBVIOUS
  <2>3. 0 \in 0..n
    OBVIOUS
  <2>. HIDE DEF f
  <2>. QED BY <2>2, <2>3
<1>2. ASSUME NEW m \in 0..(n - 1), m \in T PROVE m + 1 \in T
  <2>1. PICK f \in [D -> X] : \A d \in D : rank[d] <= m => f[d] = F[<<f, d>>]
    BY <1>2
  <2>. DEFINE g == [d \in D |-> IF rank[d] = m + 1 THEN F[<<f, d>>] ELSE f[d]]
  <2>2. g \in [D -> X]
    OBVIOUS
  <2>3. \A d \in D : /\ rank[d] <= m => g[d] = f[d]
                     /\ rank[d] = m + 1 => g[d] = F[<<f, d>>]
    OBVIOUS
  <2>. HIDE DEF g
  <2>4. ASSUME NEW d \in D, rank[d] <= m + 1 PROVE g[d] = F[<<g, d>>]
    <3>1. \A c \in D : rank[c] < rank[d] => rank[c] <= m
      BY <2>4
    <3>2. \A c \in D : rank[c] < rank[d] => f[c] = g[c]
      BY <2>3, <3>1
    <3>3. F[<<f, d>>] = F[<<g, d>>]
      BY <2>2, <3>2 DEF LooksDown
    <3>4. rank[d] <= m \/ rank[d] = m + 1
      BY <2>4
    <3>. QED BY <2>1, <2>3, <3>3, <3>4
  <2>5. m + 1 \in 0..n
    OBVIOUS
  <2>. QED BY <2>2, <2>4, <2>5
<1>. HIDE DEF T
<1>3. n \in T
  BY <1>1, <1>2, AllUpTo
<1>4. PICK f \in [D -> X] : \A d \in D : rank[d] <= n => f[d] = F[<<f, d>>]
  BY <1>3 DEF T
<1>5. \A d \in D : rank[d] <= n
  OBVIOUS
<1>. QED BY <1>4, <1>5 DEF Recurs

\* What holds of d when it holds of all of lower rank holds of all.
Inherited(T, rank, D) ==
  \A d \in D : (\A c \in D : rank[c] < rank[d] => c \in T) => d \in T

LEMMA RankInduction ==
  ASSUME NEW D, NEW n \in Nat, NEW rank \in [D -> 1..n], NEW T, Inherited(T, rank, D)
  PROVE  D \subseteq T
<1>. DEFINE U == {m \in 0..n : \A d \in D : rank[d] <= m => d \in T}
<1>1. 0 \in U
  OBVIOUS
<1>2. ASSUME NEW m \in 0..(n - 1), m \in U PROVE m + 1 \in U
  <2>1. ASSUME NEW d \in D, rank[d] <= m + 1 PROVE d \in T
    <3>1. \A c \in D : rank[c] < rank[d] => rank[c] <= m
      BY <2>1
    <3>. QED BY <1>2, <3>1 DEF Inherited
  <2>2. m + 1 \in 0..n
    OBVIOUS
  <2>. QED BY <2>1, <2>2
<1>. HIDE DEF U
<1>3. n \in U
  BY <1>1, <1>2, AllUpTo
<1>. QED BY <1>3 DEF U

\* A fold over 1..n is the last of a chain.
Chain(a, f, n, base, G) ==
  a[0] = base /\ a[n] = f[1..n] /\ \A m \in 1..n : a[m] = G[<<a[m - 1], m>>]

LEMMA FoldChain ==
  ASSUME NEW n \in Nat, NEW X, NEW f \in [SUBSET (1..n) -> X], NEW base, NEW G,
         FoldsUp(f, n, base, G)
  PROVE  \E a \in [0..n -> X] : Chain(a, f, n, base, G)
<1>. DEFINE a == [m \in 0..n |-> f[1..m]]
<1>1. \A m \in 0..n : 1..m \in SUBSET (1..n)
  OBVIOUS
<1>2. a \in [0..n -> X] /\ \A m \in 0..n : a[m] = f[1..m]
  BY <1>1
<1>3. a[0] = base
  <2>1. 1..0 = {} /\ 0 \in 0..n
    OBVIOUS
  <2>2. f[{}] = base
    BY DEF FoldsUp
  <2>. QED BY <1>2, <2>1, <2>2
<1>4. ASSUME NEW m \in 1..n PROVE a[m] = G[<<a[m - 1], m>>]
  <2>1. Greatest(1..m) = m
    <3>1. m \in Nat /\ 1..m # {} /\ m \in 1..m
      OBVIOUS
    <3>2. Greatest(1..m) \in 1..m /\ Greatest(1..m) >= m
      BY <3>1, GreatestElement
    <3>. QED BY <3>1, <3>2
  <2>2. (1..m) \ {m} = 1..(m - 1) /\ 1..m # {} /\ m - 1 \in 0..n /\ m \in 0..n
    OBVIOUS
  <2>3. f[1..m] = G[<<f[1..(m - 1)], m>>]
    BY <1>1, <2>1, <2>2 DEF FoldsUp
  <2>. HIDE DEF a
  <2>. QED BY <1>2, <2>2, <2>3
<1>5. n \in 0..n
  OBVIOUS
<1>. HIDE DEF a
<1>. QED BY <1>2, <1>3, <1>4, <1>5 DEF Chain

\* The values of a loop, the first of them given.
Loops(f, n, first, G) ==
  \A i \in 1..n : f[i] = IF i = 1 THEN first ELSE G[<<f[i - 1], i>>]

LEMMA LoopExists ==
  ASSUME NEW n \in Nat, NEW X, NEW first \in X, NEW G \in [X \X (1..n) -> X]
  PROVE  \E f \in [1..n -> X] : Loops(f, n, first, G)
<1>. DEFINE D == 1..n
            rank == [i \in D |-> i]
            F == [u \in [D -> X] \X D |->
                    IF u[2] = 1 THEN first ELSE G[<<u[1][u[2] - 1], u[2]>>]]
<1>1. \A i \in D : i # 1 => i - 1 \in D
  OBVIOUS
<1>2. F \in [[D -> X] \X D -> X]
  BY <1>1
<1>3. \A f \in [D -> X], i \in D :
        F[<<f, i>>] = IF i = 1 THEN first ELSE G[<<f[i - 1], i>>]
  OBVIOUS
<1>4. rank \in [D -> 1..n]
  OBVIOUS
<1>5. \A i \in D : i # 1 => rank[i - 1] < rank[i]
  BY <1>1
<1>. HIDE DEF F, rank
<1>6. LooksDown(F, rank, X, D)
  <2>1. ASSUME NEW f \in [D -> X], NEW g \in [D -> X], NEW i \in D,
               \A c \in D : rank[c] < rank[i] => f[c] = g[c]
        PROVE  F[<<f, i>>] = F[<<g, i>>]
    <3>1. i # 1 => f[i - 1] = g[i - 1]
      BY <1>1, <1>5, <2>1
    <3>2. F[<<f, i>>] = (IF i = 1 THEN first ELSE G[<<f[i - 1], i>>])
          /\ F[<<g, i>>] = IF i = 1 THEN first ELSE G[<<g[i - 1], i>>]
      BY <1>3
    <3>. QED BY <3>1, <3>2
  <2>. QED BY <2>1 DEF LooksDown
<1>7. PICK f \in [D -> X] : Recurs(f, F, D)
  <2>1. X # {}
    OBVIOUS
  <2>. HIDE DEF D
  <2>. QED BY <1>2, <1>4, <1>6, <2>1, RankRecursion
<1>8. \A i \in D : f[i] = IF i = 1 THEN first ELSE G[<<f[i - 1], i>>]
  <2>1. \A i \in D : F[<<f, i>>] = IF i = 1 THEN first ELSE G[<<f[i - 1], i>>]
    BY <1>3
  <2>. HIDE DEF D
  <2>. QED BY <1>7, <2>1 DEF Recurs
<1>. QED BY <1>8 DEF Loops
=============================================================================
