------------------------- MODULE ClientQueue_proofs --------------------------
(***************************************************************************)
(* What is proved of ClientQueue.                                          *)
(***************************************************************************)
EXTENDS ClientQueue, Foundations, SequenceTheorems, TLAPS

-----------------------------------------------------------------------------
(* Sequences that are put together.                                        *)

LEMMA FunctionIsSeq ==
  ASSUME NEW X, NEW n \in Nat, NEW f \in [1..n -> X]
  PROVE  f \in Seq(X) /\ Len(f) = n
<1>1. f \in Seq(X)
  BY SeqDef
<1>. QED BY <1>1, LenProperties

\* The places of a sequence of sequences.
Places(seqs) == {u \in Nat \X Nat : u[1] \in DOMAIN seqs /\ u[2] \in DOMAIN seqs[u[1]]}

\* r has what the first n sequences have, each place once: at says which.
Laid(seqs, n, r, at) ==
  /\ \A m \in DOMAIN r : /\ at[m] \in Places(seqs) /\ at[m][1] <= n
                         /\ r[m] = seqs[at[m][1]][at[m][2]]
  /\ \A m, l \in DOMAIN r : at[m] = at[l] => m = l
  /\ \A u \in Places(seqs) : u[1] <= n => \E m \in DOMAIN r : at[m] = u

LEMMA LaidNext ==
  ASSUME NEW X, NEW seqs \in Seq(Seq(X)), NEW n \in Nat, n + 1 \in DOMAIN seqs,
         NEW r \in Seq(X), NEW at, Laid(seqs, n, r, at)
  PROVE  \E to : Laid(seqs, n + 1, r \o seqs[n + 1], to)
<1>. DEFINE s == seqs[n + 1]
            to == [m \in 1..(Len(r) + Len(s)) |->
                     IF m <= Len(r) THEN at[m] ELSE <<n + 1, m - Len(r)>>]
<1>1. s \in Seq(X) /\ Len(s) \in Nat /\ DOMAIN s = 1..Len(s)
  <2>1. s \in Seq(X)
    BY ElementOfSeq, LenProperties
  <2>. HIDE DEF s
  <2>. QED BY <2>1, LenProperties
<1>2. Len(r) \in Nat /\ DOMAIN r = 1..Len(r)
  BY LenProperties
<1>3. DOMAIN (r \o s) = 1..(Len(r) + Len(s))
  <2>. HIDE DEF s
  <2>. QED BY <1>1, <1>2, ConcatProperties, LenProperties
<1>4. \A m \in DOMAIN (r \o s) : /\ m <= Len(r) => (r \o s)[m] = r[m] /\ to[m] = at[m]
                                 /\ m > Len(r) => /\ (r \o s)[m] = s[m - Len(r)]
                                                  /\ to[m] = <<n + 1, m - Len(r)>>
  <2>1. \A m \in 1..(Len(r) + Len(s)) :
          (r \o s)[m] = IF m <= Len(r) THEN r[m] ELSE s[m - Len(r)]
    <3>. HIDE DEF s
    <3>. QED BY <1>1, ConcatProperties
  <2>. HIDE DEF s
  <2>. QED BY <1>1, <1>2, <1>3, <2>1
<1>5. ASSUME NEW m \in DOMAIN (r \o s), m > Len(r)
      PROVE  m - Len(r) \in DOMAIN s /\ <<n + 1, m - Len(r)>> \in Places(seqs)
  <2>1. m - Len(r) \in 1..Len(s) /\ n + 1 \in Nat
    <3>. HIDE DEF s
    <3>. QED BY <1>1, <1>2, <1>3, <1>5
  <2>2. m - Len(r) \in DOMAIN s /\ m - Len(r) \in Nat
    <3>. HIDE DEF s
    <3>. QED BY <1>1, <2>1
  <2>. QED BY <2>1, <2>2 DEF Places
<1>6. \A m \in DOMAIN (r \o s) : m \in Int /\ (m <= Len(r) => m \in DOMAIN r)
  <2>. HIDE DEF s
  <2>. QED BY <1>1, <1>2, <1>3
<1>. HIDE DEF to
<1>7. ASSUME NEW m \in DOMAIN (r \o s)
      PROVE  to[m] \in Places(seqs) /\ to[m][1] <= n + 1 /\ (r \o s)[m] = seqs[to[m][1]][to[m][2]]
  <2>1. CASE m <= Len(r)
    <3>1. /\ to[m] \in Places(seqs) /\ to[m][1] <= n
          /\ (r \o s)[m] = seqs[to[m][1]][to[m][2]]
      BY <1>4, <1>6, <2>1 DEF Laid
    <3>2. to[m][1] \in Nat
      BY <3>1 DEF Places
    <3>3. \A k \in Nat : k <= n => k <= n + 1
      OBVIOUS
    <3>. QED BY <3>1, <3>2, <3>3
  <2>2. CASE ~(m <= Len(r))
    <3>1. m > Len(r)
      BY <1>2, <1>6, <2>2
    <3>2. to[m] \in Places(seqs) /\ to[m][1] = n + 1 /\ to[m][2] = m - Len(r)
      <4>1. to[m] = <<n + 1, m - Len(r)>>
        BY <1>4, <3>1
      <4>. QED BY <1>5, <3>1, <4>1
    <3>3. (r \o s)[m] = s[m - Len(r)]
      BY <1>4, <3>1
    <3>4. n + 1 <= n + 1
      OBVIOUS
    <3>. QED BY <3>2, <3>3, <3>4
  <2>. QED BY <2>1, <2>2
<1>8. ASSUME NEW m \in DOMAIN (r \o s), NEW l \in DOMAIN (r \o s), to[m] = to[l]
      PROVE  m = l
  <2>1. CASE m <= Len(r) /\ l <= Len(r)
    BY <1>4, <1>6, <1>8, <2>1 DEF Laid
  <2>2. CASE m > Len(r) /\ l > Len(r)
    <3>1. m - Len(r) = l - Len(r)
      BY <1>4, <1>8, <2>2
    <3>. QED BY <1>2, <1>6, <3>1
  <2>3. ASSUME NEW i \in DOMAIN (r \o s), NEW j \in DOMAIN (r \o s),
               i <= Len(r), j > Len(r), to[i] = to[j]
        PROVE  FALSE
    <3>1. to[i][1] <= n
      BY <1>4, <1>6, <2>3 DEF Laid
    <3>3. to[j][1] = n + 1
      <4>1. to[j] = <<n + 1, j - Len(r)>>
        BY <1>4, <2>3
      <4>. QED BY <4>1
    <3>2. ~(n + 1 <= n)
      OBVIOUS
    <3>. QED BY <2>3, <3>1, <3>2, <3>3
  <2>4. (m <= Len(r) \/ m > Len(r)) /\ (l <= Len(r) \/ l > Len(r))
    BY <1>2, <1>6
  <2>. QED BY <1>8, <2>1, <2>2, <2>3, <2>4
<1>9. ASSUME NEW u \in Places(seqs), u[1] <= n + 1
      PROVE  \E m \in DOMAIN (r \o s) : to[m] = u
  <2>1. u[1] \in Nat /\ (u[1] <= n \/ u[1] = n + 1)
    BY <1>9 DEF Places
  <2>2. CASE u[1] <= n
    <3>1. PICK m \in DOMAIN r : at[m] = u
      BY <2>2 DEF Laid
    <3>2. m <= Len(r) /\ m \in 1..(Len(r) + Len(s))
      <4>. HIDE DEF s
      <4>. QED BY <1>1, <1>2
    <3>. QED BY <1>3, <1>4, <3>1, <3>2
  <2>3. CASE u[1] = n + 1
    <3>1. u[2] \in 1..Len(s) /\ u = <<n + 1, u[2]>>
      BY <1>1, <2>3 DEF Places
    <3>. DEFINE m == Len(r) + u[2]
    <3>2. m \in 1..(Len(r) + Len(s)) /\ m > Len(r) /\ m - Len(r) = u[2]
      <4>. HIDE DEF s
      <4>. QED BY <1>1, <1>2, <3>1
    <3>3. m \in DOMAIN (r \o s)
      <4>. HIDE DEF m, s
      <4>. QED BY <1>3, <3>2
    <3>4. to[m] = u
      <4>. HIDE DEF m, s
      <4>. QED BY <1>4, <3>1, <3>2, <3>3
    <3>. QED BY <3>3, <3>4
  <2>. QED BY <2>1, <2>2, <2>3
<1>10. Laid(seqs, n + 1, r \o s, to)
  <2>. HIDE DEF s
  <2>. QED BY <1>7, <1>8, <1>9 DEF Laid
<1>. QED BY <1>10

LEMMA Flattened ==
  ASSUME NEW X, NEW seqs \in Seq(Seq(X))
  PROVE  FlattenSeq(seqs) \in Seq(X) /\ \E at : Laid(seqs, Len(seqs), FlattenSeq(seqs), at)
<1>. DEFINE n == Len(seqs)
            Eq(f) == f = [i \in 1..n |-> IF i = 1 THEN seqs[i] ELSE f[i - 1] \o seqs[i]]
            Good(r, i) == r \in Seq(X) /\ \E at : Laid(seqs, i, r, at)
<1>1. n \in Nat /\ DOMAIN seqs = 1..n /\ \A i \in 1..n : seqs[i] \in Seq(X)
  BY LenProperties, ElementOfSeq
<1>2. CASE n = 0
  <2>1. FlattenSeq(seqs) = seqs /\ seqs = <<>>
    BY <1>1, <1>2, EmptySeq DEF FlattenSeq
  <2>2. Laid(seqs, n, <<>>, <<>>)
    BY <1>1, <1>2 DEF Laid, Places
  <2>. QED BY <2>1, <2>2, EmptySeq
<1>3. CASE n # 0
  <2>1. \E f : Eq(f)
    <3>. DEFINE G == [u \in Seq(X) \X (1..n) |-> u[1] \o seqs[u[2]]]
    <3>1. \A r \in Seq(X), i \in 1..n : r \o seqs[i] \in Seq(X)
      BY <1>1, ConcatProperties
    <3>2. G \in [Seq(X) \X (1..n) -> Seq(X)]
      BY <3>1
    <3>3. \A r \in Seq(X), i \in 1..n : G[<<r, i>>] = r \o seqs[i]
      OBVIOUS
    <3>4. 1 \in 1..n /\ \A i \in 1..n : i # 1 => i - 1 \in 1..n
      BY <1>1, <1>3
    <3>5. seqs[1] \in Seq(X)
      BY <1>1, <3>4
    <3>. HIDE DEF G, n
    <3>6. PICK f \in [1..n -> Seq(X)] :
            \A i \in 1..n : f[i] = IF i = 1 THEN seqs[1] ELSE G[<<f[i - 1], i>>]
      <4>1. PICK f \in [1..n -> Seq(X)] : Loops(f, n, seqs[1], G)
        BY <1>1, <3>2, <3>5, LoopExists
      <4>. QED BY <4>1 DEF Loops
    <3>7. \A i \in 1..n : f[i] = IF i = 1 THEN seqs[i] ELSE f[i - 1] \o seqs[i]
      BY <3>3, <3>4, <3>6
    <3>8. Eq(f)
      BY <3>6, <3>7, Zenon
    <3>. QED BY <3>8
  <2>2. PICK f : Eq(f) /\ FlattenSeq(seqs) = f[n]
    <3>1. FlattenSeq(seqs) = (CHOOSE f : Eq(f))[n]
      BY <1>3 DEF FlattenSeq
    <3>2. Eq(CHOOSE f : Eq(f))
      BY <2>1
    <3>. QED BY <3>1, <3>2
  <2>3. \A i \in 1..n : f[i] = IF i = 1 THEN seqs[i] ELSE f[i - 1] \o seqs[i]
    BY <2>2
  <2>. DEFINE T == {i \in 0..n : i = 0 \/ Good(f[i], i)}
  <2>4. 0 \in T
    BY <1>1
  <2>5. ASSUME NEW i \in 0..(n - 1), i \in T PROVE i + 1 \in T
    <3>1. i + 1 \in 1..n /\ i \in Nat /\ i + 1 \in 0..n
      BY <1>1
    <3>2. CASE i = 0
      <4>1. f[1] = seqs[1] /\ seqs[1] \in Seq(X)
        BY <1>1, <2>3, <3>1, <3>2
      <4>. DEFINE at == [m \in DOMAIN seqs[1] |-> <<1, m>>]
      <4>2. \A m \in DOMAIN seqs[1] : m \in Nat
        BY <4>1, LenProperties
      <4>3. 1 \in DOMAIN seqs
        BY <1>1, <3>1, <3>2
      <4>4. Laid(seqs, 1, seqs[1], at)
        <5>1. \A m \in DOMAIN seqs[1] : at[m] \in Places(seqs) /\ at[m] = <<1, m>>
          BY <4>2, <4>3 DEF Places
        <5>. HIDE DEF at
        <5>2. ASSUME NEW u \in Places(seqs), u[1] <= 1
              PROVE  \E m \in DOMAIN seqs[1] : at[m] = u
          <6>1. u[1] = 1 /\ u = <<1, u[2]>> /\ u[2] \in DOMAIN seqs[1]
            <7>1. u[1] \in 1..n
              BY <1>1, <5>2 DEF Places
            <7>2. u[1] = 1
              BY <5>2, <7>1
            <7>. QED BY <7>2, <5>2 DEF Places
          <6>. QED BY <5>1, <6>1
        <5>. QED BY <5>1, <5>2 DEF Laid
      <4>. HIDE DEF at
      <4>. QED BY <3>1, <3>2, <4>1, <4>4
    <3>3. CASE i # 0
      <4>1. f[i + 1] = f[i] \o seqs[i + 1]
        <5>1. (i + 1) - 1 = i /\ i + 1 # 1
          BY <3>1, <3>3
        <5>. QED BY <2>3, <3>1, <5>1
      <4>2. f[i] \in Seq(X) /\ \E at : Laid(seqs, i, f[i], at)
        BY <2>5, <3>3
      <4>3. PICK at : Laid(seqs, i, f[i], at)
        BY <4>2
      <4>4. \E to : Laid(seqs, i + 1, f[i] \o seqs[i + 1], to)
        BY <1>1, <3>1, <4>2, <4>3, LaidNext
      <4>5. f[i] \o seqs[i + 1] \in Seq(X)
        BY <1>1, <3>1, <4>2, ConcatProperties
      <4>6. Good(f[i + 1], i + 1)
        BY <4>1, <4>4, <4>5
      <4>. QED BY <3>1, <4>6
    <3>. QED BY <3>2, <3>3
  <2>. HIDE DEF T
  <2>6. n \in T
    <3>1. 0..n \subseteq T
      <4>. HIDE DEF n
      <4>. QED BY <1>1, <2>4, <2>5, AllUpTo
    <3>. QED BY <1>1, <3>1
  <2>. QED BY <1>3, <2>2, <2>6 DEF T
<1>. QED BY <1>2, <1>3

-----------------------------------------------------------------------------
(* The tree: directories at and below a directory.                         *)

\* The directories in a directory.
Inside(d) == Range(Children[d]) \cap Directory

Ranked(rank) ==
  /\ rank \in [Directory -> 1..Cardinality(Directory)]
  /\ \A d \in Directory : \A c \in Inside(d) : rank[c] < rank[d]

LEMMA Ranks == Cardinality(Directory) \in Nat /\ \E rank : Ranked(rank)
BY TreeAssumption, FS_CardinalityType DEF Ranked, Inside

LEMMA UnderTyped ==
  /\ Under \in [Directory -> SUBSET Directory]
  /\ \A d \in Directory : Under[d] = {d} \cup UNION {Under[c] : c \in Inside(d)}
<1>. DEFINE X == SUBSET Directory
            Eq(f) == f = [d \in Directory |->
                            {d} \cup UNION {f[c] : c \in Range(Children[d]) \cap Directory}]
            F == [u \in [Directory -> X] \X Directory |->
                    {u[2]} \cup UNION {u[1][c] : c \in Inside(u[2])}]
<1>1. PICK rank : Ranked(rank)
  BY Ranks
<1>2. F \in [[Directory -> X] \X Directory -> X]
  <2>1. \A u \in [Directory -> X] \X Directory :
          {u[2]} \cup UNION {u[1][c] : c \in Inside(u[2])} \in X
    BY DEF Inside
  <2>. QED BY <2>1
<1>3. \A f \in [Directory -> X], d \in Directory :
        F[<<f, d>>] = {d} \cup UNION {f[c] : c \in Inside(d)}
  OBVIOUS
<1>. HIDE DEF F
<1>4. LooksDown(F, rank, X, Directory)
  <2>1. ASSUME NEW f \in [Directory -> X], NEW g \in [Directory -> X], NEW d \in Directory,
               \A c \in Directory : rank[c] < rank[d] => f[c] = g[c]
        PROVE  F[<<f, d>>] = F[<<g, d>>]
    <3>1. \A c \in Inside(d) : f[c] = g[c]
      BY <1>1, <2>1 DEF Ranked, Inside
    <3>2. {f[c] : c \in Inside(d)} = {g[c] : c \in Inside(d)}
      BY <3>1
    <3>. QED BY <1>3, <3>2
  <2>. QED BY <2>1 DEF LooksDown
<1>5. PICK f \in [Directory -> X] : Recurs(f, F, Directory)
  <2>1. X # {} /\ rank \in [Directory -> 1..Cardinality(Directory)]
    BY <1>1 DEF Ranked
  <2>. HIDE DEF X
  <2>. QED BY <1>2, <1>4, <2>1, Ranks, RankRecursion
<1>6. Eq(f)
  <2>1. \A d \in Directory : f[d] = {d} \cup UNION {f[c] : c \in Inside(d)}
    BY <1>3, <1>5 DEF Recurs
  <2>. QED BY <2>1 DEF Inside
<1>7. Eq(Under)
  BY <1>6 DEF Under
<1>8. \A d \in Directory : Under[d] = {d} \cup UNION {Under[c] : c \in Inside(d)}
  BY <1>7 DEF Inside
<1>9. \A d \in Directory : Under[d] \in SUBSET Directory
  <2>. DEFINE T == {d \in Directory : Under[d] \in SUBSET Directory}
  <2>1. ASSUME NEW d \in Directory, \A c \in Directory : rank[c] < rank[d] => c \in T
        PROVE  d \in T
    <3>1. \A c \in Inside(d) : Under[c] \in SUBSET Directory
      BY <1>1, <2>1 DEF Ranked, Inside
    <3>. QED BY <1>8, <3>1
  <2>2. rank \in [Directory -> 1..Cardinality(Directory)]
    BY <1>1 DEF Ranked
  <2>. HIDE DEF T
  <2>3. Directory \subseteq T
    BY <2>1, <2>2, Ranks, RankInduction DEF Inherited
  <2>. QED BY <2>3 DEF T
<1>10. Under = [d \in Directory |-> Under[d]]
  BY <1>7
<1>. QED BY <1>8, <1>9, <1>10

\* A directory is above those below it, each of which has its place there.
LEMMA UnderRanks ==
  ASSUME NEW rank, Ranked(rank)
  PROVE  \A d \in Directory : \A e \in Under[d] :
           /\ rank[e] <= rank[d]
           /\ e # d => \E p \in Under[d] : e \in Inside(p)
<1>. DEFINE T == {d \in Directory : \A e \in Under[d] :
                    /\ rank[e] <= rank[d]
                    /\ e # d => \E p \in Under[d] : e \in Inside(p)}
<1>1. rank \in [Directory -> 1..Cardinality(Directory)] /\ Cardinality(Directory) \in Nat
  BY Ranks DEF Ranked
<1>2. ASSUME NEW d \in Directory, \A c \in Directory : rank[c] < rank[d] => c \in T
      PROVE  d \in T
  <2>1. \A c \in Inside(d) : c \in T /\ rank[c] < rank[d] /\ c \in Directory
    BY <1>2 DEF Ranked, Inside
  <2>2. ASSUME NEW e \in Under[d], e # d
        PROVE  rank[e] <= rank[d] /\ \E p \in Under[d] : e \in Inside(p)
    <3>1. PICK c \in Inside(d) : e \in Under[c]
      BY <2>2, UnderTyped
    <3>2. rank[e] <= rank[c] /\ rank[c] < rank[d] /\ e \in Directory /\ c \in Directory
      BY <2>1, <3>1, UnderTyped
    <3>3. rank[e] <= rank[d]
      BY <1>1, <3>2
    <3>4. Under[c] \subseteq Under[d] /\ d \in Under[d]
      BY <3>1, UnderTyped
    <3>5. \E p \in Under[d] : e \in Inside(p)
      <4>1. CASE e = c
        BY <3>1, <3>4, <4>1
      <4>2. CASE e # c
        BY <2>1, <3>1, <3>4, <4>2
      <4>. QED BY <4>1, <4>2
    <3>. QED BY <3>3, <3>5
  <2>3. rank[d] <= rank[d]
    BY <1>1
  <2>. QED BY <2>2, <2>3
<1>. HIDE DEF T
<1>3. Directory \subseteq T
  BY <1>1, <1>2, RankInduction DEF Inherited
<1>. QED BY <1>3 DEF T

\* A directory has one parent.
LEMMA OneParent ==
  ASSUME NEW d \in Directory, NEW e \in Directory, NEW n,
         n \in Range(Children[d]), n \in Range(Children[e])
  PROVE  d = e
BY TreeAssumption DEF Range

\* Of two directories that have a third below them, one is below the other.
LEMMA UnderMeets ==
  ASSUME NEW b \in Directory, NEW c \in Directory, NEW e \in Directory,
         e \in Under[b], e \in Under[c]
  PROVE  b \in Under[c] \/ c \in Under[b]
<1>1. PICK rank : Ranked(rank)
  BY Ranks
<1>. DEFINE N == Cardinality(Directory)
            up == [x \in Directory |-> N + 1 - rank[x]]
            T == {x \in Directory : x \in Under[b] /\ x \in Under[c]
                                      => b \in Under[c] \/ c \in Under[b]}
<1>2. N \in Nat /\ rank \in [Directory -> 1..N]
  BY <1>1, Ranks DEF Ranked
<1>3. up \in [Directory -> 1..N]
  <2>1. \A x \in Directory : N + 1 - rank[x] \in 1..N
    BY <1>2
  <2>. QED BY <2>1
<1>4. \A x, p \in Directory : rank[x] < rank[p] => up[p] < up[x]
  <2>. HIDE DEF N
  <2>. QED BY <1>2
<1>. HIDE DEF up, N
<1>5. ASSUME NEW x \in Directory, \A y \in Directory : up[y] < up[x] => y \in T
      PROVE  x \in T
  <2>1. CASE x = b \/ x = c
    BY <2>1, UnderTyped
  <2>2. CASE x # b /\ x # c /\ x \in Under[b] /\ x \in Under[c]
    <3>1. PICK p \in Under[b] : x \in Inside(p)
      BY <1>1, <2>2, UnderRanks
    <3>2. PICK q \in Under[c] : x \in Inside(q)
      BY <1>1, <2>2, UnderRanks
    <3>3. p \in Directory /\ q \in Directory
      BY <3>1, <3>2, UnderTyped
    <3>4. p = q
      BY <3>1, <3>2, <3>3, OneParent DEF Inside
    <3>5. p \in T
      BY <1>1, <1>4, <1>5, <3>1, <3>3 DEF Ranked
    <3>. QED BY <3>2, <3>4, <3>5
  <2>. QED BY <2>1, <2>2
<1>. HIDE DEF T
<1>6. Directory \subseteq T
  BY <1>2, <1>3, <1>5, RankInduction DEF Inherited
<1>. QED BY <1>6 DEF T

-----------------------------------------------------------------------------
(* What has been read below a directory.                                   *)

ReadOK == \A d \in Directory : got[d] \in 0..Len(Children[d])

Item == [file : File, path : Seq(Directory)]

\* What the entry n of a directory contributes, when f is what its
\* directories have.
Share(f, n) ==
  IF n \in Directory
    THEN [j \in DOMAIN f[n] |-> [f[n][j] EXCEPT !.path = <<n>> \o @]]
    ELSE IF n \in File THEN <<[file |-> n, path |-> <<>>]>> ELSE <<>>

Shares(f, d) == [i \in 1..got[d] |-> Share(f, Children[d][i])]

LEMMA Prefixed ==
  ASSUME NEW x \in Item, NEW n \in Directory
  PROVE  /\ [x EXCEPT !.path = <<n>> \o @] \in Item
         /\ [x EXCEPT !.path = <<n>> \o @].file = x.file
         /\ [x EXCEPT !.path = <<n>> \o @].path = <<n>> \o x.path
<1>1. x.path \in Seq(Directory) /\ x.file \in File
  BY DEF Item
<1>2. <<n>> \o x.path \in Seq(Directory)
  BY <1>1, ConcatProperties
<1>. DEFINE to == <<n>> \o x.path
<1>3. [x EXCEPT !.path = <<n>> \o @] = [x EXCEPT !.path = to]
  OBVIOUS
<1>. HIDE DEF to
<1>4. [x EXCEPT !.path = to] = [file |-> x.file, path |-> to]
  BY DEF Item
<1>5. to \in Seq(Directory)
  BY <1>2 DEF to
<1>6. [x EXCEPT !.path = to] \in Item
  BY <1>1, <1>4, <1>5 DEF Item
<1>. QED BY <1>3, <1>4, <1>6 DEF to

\* The three kinds of entries.
LEMMA ShareTyped ==
  ASSUME NEW f \in [Directory -> Seq(Item)], NEW n
  PROVE  /\ Share(f, n) \in Seq(Item)
         /\ n \in File => Share(f, n) = <<[file |-> n, path |-> <<>>]>>
         /\ n \in Directory => /\ DOMAIN Share(f, n) = DOMAIN f[n]
                               /\ \A j \in DOMAIN f[n] :
                                    /\ Share(f, n)[j].file = f[n][j].file
                                    /\ Share(f, n)[j].path = <<n>> \o f[n][j].path
         /\ n \notin File \cup Directory => Share(f, n) = <<>>
<1>1. CASE n \in File
  <2>1. n \notin Directory
    BY <1>1, TreeAssumption
  <2>2. Share(f, n) = <<[file |-> n, path |-> <<>>]>>
    BY <1>1, <2>1 DEF Share
  <2>3. [file |-> n, path |-> <<>>] \in Item
    BY <1>1, EmptySeq DEF Item
  <2>. QED BY <1>1, <2>1, <2>2, <2>3
<1>2. CASE n \in Directory
  <2>1. n \notin File
    BY <1>2, TreeAssumption
  <2>. DEFINE to == [j \in DOMAIN f[n] |-> [f[n][j] EXCEPT !.path = <<n>> \o @]]
  <2>2. Share(f, n) = to
    BY <1>2 DEF Share
  <2>3. f[n] \in Seq(Item) /\ Len(f[n]) \in Nat /\ DOMAIN f[n] = 1..Len(f[n])
    BY <1>2, LenProperties
  <2>4. \A j \in DOMAIN f[n] : f[n][j] \in Item
    BY <2>3, ElementOfSeq
  <2>5. \A j \in DOMAIN f[n] : /\ to[j] \in Item /\ to[j].file = f[n][j].file
                               /\ to[j].path = <<n>> \o f[n][j].path
    BY <1>2, <2>4, Prefixed
  <2>6. DOMAIN to = DOMAIN f[n]
    OBVIOUS
  <2>7. to = [j \in DOMAIN f[n] |-> to[j]]
    OBVIOUS
  <2>. HIDE DEF to
  <2>8. to \in [1..Len(f[n]) -> Item]
    BY <2>3, <2>5, <2>6, <2>7
  <2>9. to \in Seq(Item)
    BY <2>3, <2>8, FunctionIsSeq
  <2>. QED BY <1>2, <2>1, <2>2, <2>5, <2>6, <2>9
<1>3. CASE n \notin File \cup Directory
  BY <1>3, EmptySeq DEF Share
<1>. QED BY <1>1, <1>2, <1>3

LEMMA SharesTyped ==
  ASSUME ReadOK, NEW f \in [Directory -> Seq(Item)], NEW d \in Directory
  PROVE  /\ Shares(f, d) \in Seq(Seq(Item))
         /\ got[d] \in Nat /\ Len(Shares(f, d)) = got[d] /\ DOMAIN Shares(f, d) = 1..got[d]
         /\ 1..got[d] \subseteq DOMAIN Children[d]
         /\ \A i \in 1..got[d] : Shares(f, d)[i] = Share(f, Children[d][i])
<1>1. Len(Children[d]) \in Nat /\ DOMAIN Children[d] = 1..Len(Children[d])
  BY TreeAssumption, LenProperties
<1>2. got[d] \in 0..Len(Children[d])
  BY DEF ReadOK
<1>3. got[d] \in Nat /\ 1..got[d] \subseteq DOMAIN Children[d]
  BY <1>1, <1>2
<1>4. \A i \in 1..got[d] : Share(f, Children[d][i]) \in Seq(Item)
  BY ShareTyped
<1>5. Shares(f, d) \in [1..got[d] -> Seq(Item)]
  BY <1>4 DEF Shares
<1>6. Shares(f, d) \in Seq(Seq(Item))
  BY <1>3, <1>5, FunctionIsSeq
<1>7. Len(Shares(f, d)) = got[d]
  BY <1>3, <1>5, FunctionIsSeq
<1>8. \A i \in 1..got[d] : Shares(f, d)[i] = Share(f, Children[d][i])
  BY DEF Shares
<1>. QED BY <1>3, <1>5, <1>6, <1>7, <1>8

LEMMA BelowTyped ==
  ASSUME ReadOK
  PROVE  /\ Below \in [Directory -> Seq(Item)]
         /\ \A d \in Directory : Below[d] = FlattenSeq(Shares(Below, d))
<1>. DEFINE X == Seq(Item)
            Eq(f) == f = [d \in Directory |-> FlattenSeq(Shares(f, d))]
            F == [u \in [Directory -> X] \X Directory |-> FlattenSeq(Shares(u[1], u[2]))]
<1>1. PICK rank : Ranked(rank)
  BY Ranks
<1>2. \A f \in [Directory -> X], d \in Directory :
        FlattenSeq(Shares(f, d)) \in X /\ F[<<f, d>>] = FlattenSeq(Shares(f, d))
  BY SharesTyped, Flattened
<1>3. F \in [[Directory -> X] \X Directory -> X]
  BY <1>2
<1>. HIDE DEF F
<1>4. LooksDown(F, rank, X, Directory)
  <2>1. ASSUME NEW f \in [Directory -> X], NEW g \in [Directory -> X], NEW d \in Directory,
               \A c \in Directory : rank[c] < rank[d] => f[c] = g[c]
        PROVE  F[<<f, d>>] = F[<<g, d>>]
    <3>1. ASSUME NEW i \in 1..got[d]
          PROVE  Share(f, Children[d][i]) = Share(g, Children[d][i])
      <4>1. Children[d][i] \in Range(Children[d])
        BY SharesTyped DEF Range
      <4>2. Children[d][i] \in Directory => f[Children[d][i]] = g[Children[d][i]]
        BY <1>1, <2>1, <4>1 DEF Ranked, Inside
      <4>. QED BY <4>2 DEF Share
    <3>2. Shares(f, d) = Shares(g, d)
      BY <3>1 DEF Shares
    <3>. QED BY <1>2, <3>2
  <2>. QED BY <2>1 DEF LooksDown
<1>5. PICK f \in [Directory -> X] : Recurs(f, F, Directory)
  <2>1. X # {} /\ rank \in [Directory -> 1..Cardinality(Directory)]
    BY <1>1, EmptySeq DEF Ranked
  <2>. HIDE DEF X
  <2>. QED BY <1>3, <1>4, <2>1, Ranks, RankRecursion
<1>6. Eq(f)
  BY <1>2, <1>5 DEF Recurs
<1>7. Below = CHOOSE g : Eq(g)
  BY DEF Below, Shares, Share
<1>8. Eq(Below)
  BY <1>6, <1>7
<1>9. \A d \in Directory : Below[d] = FlattenSeq(Shares(Below, d))
  BY <1>8
<1>10. PICK b : b = Below
  OBVIOUS
<1>13. \A d \in Directory : b[d] \in X
  <2>. DEFINE T == {d \in Directory : b[d] \in X}
  <2>1. ASSUME NEW d \in Directory, \A c \in Directory : rank[c] < rank[d] => c \in T
        PROVE  d \in T
    <3>. DEFINE g == [c \in Directory |-> IF c \in T THEN b[c] ELSE <<>>]
    <3>1. g \in [Directory -> X]
      BY EmptySeq
    <3>2. ASSUME NEW i \in 1..got[d]
          PROVE  Share(g, Children[d][i]) = Share(b, Children[d][i])
      <4>1. Children[d][i] \in Range(Children[d])
        BY <3>1, SharesTyped DEF Range
      <4>2. Children[d][i] \in Directory => g[Children[d][i]] = b[Children[d][i]]
        BY <1>1, <2>1, <4>1 DEF Ranked, Inside
      <4>. HIDE DEF g
      <4>. QED BY <4>2 DEF Share
    <3>. HIDE DEF g
    <3>3. Shares(g, d) = Shares(b, d)
      BY <3>2 DEF Shares
    <3>4. FlattenSeq(Shares(g, d)) \in X
      BY <1>2, <3>1
    <3>5. b[d] = FlattenSeq(Shares(b, d))
      BY <1>9, <1>10
    <3>. QED BY <3>3, <3>4, <3>5
  <2>2. rank \in [Directory -> 1..Cardinality(Directory)]
    BY <1>1 DEF Ranked
  <2>. HIDE DEF T
  <2>4. Inherited(T, rank, Directory)
    BY <2>1 DEF Inherited
  <2>3. Directory \subseteq T
    BY <2>2, <2>4, Ranks, RankInduction
  <2>. QED BY <2>3 DEF T
<1>11. Below = [d \in Directory |-> Below[d]]
  BY <1>8
<1>12. Below \in [Directory -> X]
  BY <1>10, <1>11, <1>13
<1>. QED BY <1>9, <1>12

\* A file below d is an entry of d, or below one.
FromFile(b, d, m, i) ==
  /\ i \in 1..got[d] /\ Children[d][i] \in File
  /\ b[d][m].file = Children[d][i] /\ b[d][m].path = <<>>

FromDirectory(b, d, m, i, j) ==
  /\ i \in 1..got[d] /\ Children[d][i] \in Directory /\ j \in DOMAIN b[Children[d][i]]
  /\ b[d][m].file = b[Children[d][i]][j].file
  /\ b[d][m].path = <<Children[d][i]>> \o b[Children[d][i]][j].path

\* at tells for each file below d which.
Origins(b, d, at) ==
  /\ \A m \in DOMAIN b[d] : \/ at[m] = <<at[m][1], 1>> /\ FromFile(b, d, m, at[m][1])
                            \/ /\ at[m] = <<at[m][1], at[m][2]>>
                               /\ FromDirectory(b, d, m, at[m][1], at[m][2])
  /\ \A m, l \in DOMAIN b[d] : at[m] = at[l] => m = l
  /\ \A i \in 1..got[d] : Children[d][i] \in File => \E m \in DOMAIN b[d] : at[m] = <<i, 1>>
  /\ \A i \in 1..got[d] : Children[d][i] \in Directory =>
       \A j \in DOMAIN b[Children[d][i]] : \E m \in DOMAIN b[d] : at[m] = <<i, j>>

LEMMA BelowOrigins ==
  ASSUME ReadOK, NEW b, b = Below, NEW d \in Directory
  PROVE  \E at : Origins(b, d, at)
<1>. DEFINE n == got[d]
            s == Shares(b, d)
<1>1. b \in [Directory -> Seq(Item)] /\ b[d] = FlattenSeq(s)
  BY BelowTyped
<1>2. /\ s \in Seq(Seq(Item)) /\ n \in Nat /\ Len(s) = n /\ DOMAIN s = 1..n
      /\ 1..n \subseteq DOMAIN Children[d]
      /\ \A i \in 1..n : s[i] = Share(b, Children[d][i])
  BY <1>1, SharesTyped
<1>3. PICK at : Laid(s, n, b[d], at)
  <2>. HIDE DEF s, n
  <2>. QED BY <1>1, <1>2, Flattened
<1>. HIDE DEF s
<1>4. ASSUME NEW i \in 1..n
      PROVE  /\ Children[d][i] \in File => s[i] = <<[file |-> Children[d][i], path |-> <<>>]>>
             /\ Children[d][i] \in Directory =>
                  /\ DOMAIN s[i] = DOMAIN b[Children[d][i]]
                  /\ \A j \in DOMAIN s[i] :
                       /\ s[i][j].file = b[Children[d][i]][j].file
                       /\ s[i][j].path = <<Children[d][i]>> \o b[Children[d][i]][j].path
             /\ Children[d][i] \notin File \cup Directory => s[i] = <<>>
  <2>1. s[i] = Share(b, Children[d][i])
    BY <1>2
  <2>2. PICK c : c = Children[d][i]
    OBVIOUS
  <2>3. /\ c \in File => Share(b, c) = <<[file |-> c, path |-> <<>>]>>
        /\ c \in Directory => /\ DOMAIN Share(b, c) = DOMAIN b[c]
                              /\ \A j \in DOMAIN b[c] :
                                   /\ Share(b, c)[j].file = b[c][j].file
                                   /\ Share(b, c)[j].path = <<c>> \o b[c][j].path
        /\ c \notin File \cup Directory => Share(b, c) = <<>>
    BY <1>1, ShareTyped, ZenonT(30)
  <2>. QED BY <2>1, <2>2, <2>3, ZenonT(30)
<1>5. ASSUME NEW m \in DOMAIN b[d]
      PROVE  \/ at[m] = <<at[m][1], 1>> /\ FromFile(b, d, m, at[m][1])
             \/ at[m] = <<at[m][1], at[m][2]>> /\ FromDirectory(b, d, m, at[m][1], at[m][2])
  <2>1. /\ at[m] = <<at[m][1], at[m][2]>> /\ at[m][1] \in 1..n
        /\ at[m][2] \in DOMAIN s[at[m][1]] /\ b[d][m] = s[at[m][1]][at[m][2]]
    BY <1>2, <1>3 DEF Laid, Places
  <2>2. PICK i, j : i = at[m][1] /\ j = at[m][2]
    OBVIOUS
  <2>3. CASE Children[d][i] \in File
    <3>1. s[i] = <<[file |-> Children[d][i], path |-> <<>>]>>
      BY <1>4, <2>1, <2>2, <2>3
    <3>2. j = 1
      BY <2>1, <2>2, <3>1
    <3>. QED BY <2>1, <2>2, <2>3, <3>1, <3>2 DEF FromFile
  <2>4. CASE Children[d][i] \in Directory
    BY <1>4, <2>1, <2>2, <2>4, ZenonT(30) DEF FromDirectory
  <2>5. CASE Children[d][i] \notin File \cup Directory
    <3>1. s[i] = <<>>
      BY <1>4, <2>1, <2>2, <2>5
    <3>. QED BY <2>1, <2>2, <3>1
  <2>. QED BY <2>3, <2>4, <2>5
<1>6. \A m, l \in DOMAIN b[d] : at[m] = at[l] => m = l
  BY <1>3 DEF Laid
<1>7. \A i \in 1..n : \A j \in DOMAIN s[i] : \E m \in DOMAIN b[d] : at[m] = <<i, j>>
  <2>1. ASSUME NEW i \in 1..n, NEW j \in DOMAIN s[i] PROVE <<i, j>> \in Places(s) /\ i <= n
    <3>1. s[i] \in Seq(Item)
      <4>. HIDE DEF n
      <4>. QED BY <1>2, ElementOfSeq
    <3>2. j \in Nat
      BY <3>1, LenProperties
    <3>. QED BY <1>2, <3>2 DEF Places
  <2>. QED BY <1>3, <2>1 DEF Laid
<1>8. ASSUME NEW i \in 1..n, Children[d][i] \in File
      PROVE  \E m \in DOMAIN b[d] : at[m] = <<i, 1>>
  <2>1. 1 \in DOMAIN s[i]
    <3>1. s[i] = <<[file |-> Children[d][i], path |-> <<>>]>>
      BY <1>4, <1>8
    <3>. QED BY <3>1
  <2>. QED BY <1>7, <2>1
<1>9. ASSUME NEW i \in 1..n, Children[d][i] \in Directory, NEW j \in DOMAIN b[Children[d][i]]
      PROVE  \E m \in DOMAIN b[d] : at[m] = <<i, j>>
  BY <1>4, <1>7, <1>9
<1>10. Origins(b, d, at)
  BY <1>5, <1>6, <1>8, <1>9 DEF Origins
<1>. QED BY <1>10

\* The way to a file from a directory above.
LEMMA LeadsOn ==
  ASSUME NEW d \in Directory, NEW c \in Inside(d), NEW p \in Seq(Directory), NEW f,
         Leads(c, p, f)
  PROVE  Leads(d, <<c>> \o p, f)
<1>. DEFINE path == <<c>> \o p
            way == <<d>> \o path
            n == Len(p)
<1>1. c \in Directory /\ n \in Nat /\ \A i \in 1..n : p[i] \in Directory
  BY LenProperties, ElementOfSeq DEF Inside
<1>2. /\ path \in Seq(Directory) /\ Len(path) = 1 + n
      /\ \A i \in 1..(1 + n) : path[i] = IF i <= 1 THEN c ELSE p[i - 1]
  <2>1. <<c>> \in Seq(Directory) /\ Len(<<c>>) = 1 /\ <<c>>[1] = c
    BY <1>1
  <2>2. \A i \in 1..(1 + n) : i <= 1 => i = 1
    BY <1>1
  <2>. QED BY <2>1, <2>2, ConcatProperties
<1>. HIDE DEF path
<1>3. /\ Len(way) = 2 + n
      /\ \A i \in 1..(2 + n) : way[i] = IF i <= 1 THEN d ELSE path[i - 1]
  <2>1. <<d>> \in Seq(Directory) /\ Len(<<d>>) = 1 /\ <<d>>[1] = d
    OBVIOUS
  <2>2. \A i \in 1..(2 + n) : i <= 1 => i = 1
    BY <1>1
  <2>3. 1 + (1 + n) = 2 + n
    BY <1>1
  <2>. QED BY <1>2, <2>1, <2>2, <2>3, ConcatProperties
<1>. HIDE DEF way
<1>4. \A i \in 1..n : p[i] \in Directory \cap Range(Children[path[i]])
  BY <1>2 DEF Leads, path
<1>5. f \in Range(Children[path[1 + n]])
  BY <1>2 DEF Leads, path
<1>. HIDE DEF n
<1>6. ASSUME NEW i \in 1..(1 + n) PROVE path[i] \in Directory \cap Range(Children[way[i]])
  <2>1. CASE i = 1
    <3>1. 1 \in 1..(1 + n) /\ 1 \in 1..(2 + n)
      BY <1>1
    <3>2. path[1] = c /\ way[1] = d
      BY <1>2, <1>3, <3>1
    <3>. QED BY <2>1, <3>2 DEF Inside
  <2>2. CASE i # 1
    <3>1. i - 1 \in 1..n /\ ~(i <= 1) /\ i \in 1..(2 + n)
      BY <1>1, <2>2
    <3>2. path[i] = p[i - 1] /\ way[i] = path[i - 1]
      BY <1>2, <1>3, <3>1
    <3>. QED BY <1>4, <3>1, <3>2
  <2>. QED BY <2>1, <2>2
<1>7. way[2 + n] = path[1 + n]
  <2>1. 2 + n \in 1..(2 + n) /\ ~(2 + n <= 1) /\ (2 + n) - 1 = 1 + n
    BY <1>1
  <2>. QED BY <1>3, <2>1
<1>. QED BY <1>2, <1>3, <1>5, <1>6, <1>7 DEF Leads, path, way

\* What b has for d: files at and below d, each where it is, each once, and,
\* when all has been read, all of them.
BelowOK(b, d) ==
  /\ \A m \in DOMAIN b[d] : /\ b[d][m].file \in File
                            /\ \E e \in Under[d] : b[d][m].file \in Range(Children[e])
                            /\ Leads(d, b[d][m].path, b[d][m].file)
  /\ \A m, l \in DOMAIN b[d] : b[d][m].file = b[d][l].file => m = l
  /\ (\A e \in Under[d] : got[e] = Len(Children[e])) =>
       \A e \in Under[d] : \A f \in File \cap Range(Children[e]) :
         \E m \in DOMAIN b[d] : b[d][m].file = f

\* Directories next to each other have nothing in common.
LEMMA ApartBelow ==
  ASSUME NEW d \in Directory, NEW b \in Inside(d), NEW c \in Inside(d), NEW e,
         e \in Under[b], e \in Under[c]
  PROVE  b = c /\ e # d
<1>1. PICK rank : Ranked(rank)
  BY Ranks
<1>2. /\ rank \in [Directory -> 1..Cardinality(Directory)] /\ Cardinality(Directory) \in Nat
      /\ \A x \in Inside(d) : x \in Directory /\ rank[x] < rank[d]
  BY <1>1, Ranks DEF Ranked, Inside
<1>3. \A x \in Inside(d) : d \notin Under[x]
  <2>1. ASSUME NEW x \in Inside(d), d \in Under[x] PROVE FALSE
    <3>1. rank[d] <= rank[x] /\ rank[x] < rank[d]
      BY <1>1, <1>2, <2>1, UnderRanks
    <3>2. rank[d] \in Int /\ rank[x] \in Int
      BY <1>2
    <3>. QED BY <3>1, <3>2
  <2>. QED BY <2>1
<1>4. ASSUME NEW x \in Inside(d), NEW y \in Inside(d), x \in Under[y], x # y PROVE FALSE
  <2>1. PICK p \in Under[y] : x \in Inside(p)
    BY <1>1, <1>2, <1>4, UnderRanks
  <2>2. p \in Directory
    BY <1>2, <2>1, UnderTyped
  <2>3. p = d
    BY <1>4, <2>1, <2>2, OneParent DEF Inside
  <2>. QED BY <1>3, <2>1, <2>3
<1>5. e \in Directory
  BY <1>2, UnderTyped
<1>6. b \in Under[c] \/ c \in Under[b]
  BY <1>2, <1>5, UnderMeets
<1>. QED BY <1>3, <1>4, <1>6

LEMMA BelowRight ==
  ASSUME ReadOK, NEW b, b = Below
  PROVE  \A d \in Directory : BelowOK(b, d)
<1>1. PICK rank : Ranked(rank)
  BY Ranks
<1>. DEFINE T == {d \in Directory : BelowOK(b, d)}
<1>3. \A d \in Directory : 1..got[d] \subseteq DOMAIN Children[d]
  BY BelowTyped, SharesTyped
<1>4. ASSUME NEW d \in Directory, \A c \in Directory : rank[c] < rank[d] => c \in T
      PROVE  d \in T
  <2>1. PICK at : Origins(b, d, at)
    BY BelowOrigins
  <2>2. ASSUME NEW i \in 1..got[d]
        PROVE  /\ Children[d][i] \in Range(Children[d])
               /\ Children[d][i] \in Directory =>
                    /\ Children[d][i] \in Inside(d)
                    /\ BelowOK(b, Children[d][i])
                    /\ Under[Children[d][i]] \subseteq Under[d]
    <3>1. Children[d][i] \in Range(Children[d])
      BY <1>3 DEF Range
    <3>2. Children[d][i] \in Directory => Children[d][i] \in Inside(d)
      BY <3>1 DEF Inside
    <3>3. Children[d][i] \in Directory => rank[Children[d][i]] < rank[d]
      BY <1>1, <3>2 DEF Ranked
    <3>. QED BY <1>4, <3>1, <3>2, <3>3, UnderTyped
  <2>3. d \in Under[d]
    BY UnderTyped
  <2>. HIDE DEF T
  <2>4. ASSUME NEW m \in DOMAIN b[d]
        PROVE  /\ b[d][m].file \in File
               /\ \E e \in Under[d] : b[d][m].file \in Range(Children[e])
               /\ Leads(d, b[d][m].path, b[d][m].file)
    <3>1. CASE \E i : FromFile(b, d, m, i)
      <4>1. PICK i : FromFile(b, d, m, i)
        BY <3>1
      <4>2. b[d][m].file = Children[d][i] /\ b[d][m].path = <<>> /\ i \in 1..got[d]
            /\ Children[d][i] \in File
        BY <4>1 DEF FromFile
      <4>3. Leads(d, <<>>, Children[d][i])
        <5>1. <<d>> \o <<>> = <<d>> /\ Len(<<>>) = 0 /\ Len(<<d>>) = 1 /\ <<d>>[1] = d
              /\ 1..0 = {}
          OBVIOUS
        <5>. QED BY <2>2, <4>2, <5>1 DEF Leads
      <4>. QED BY <2>2, <2>3, <4>2, <4>3
    <3>2. CASE \E i, j : FromDirectory(b, d, m, i, j)
      <4>1. PICK i, j : FromDirectory(b, d, m, i, j)
        BY <3>2
      <4>2. PICK c : c = Children[d][i]
        OBVIOUS
      <4>3. /\ i \in 1..got[d] /\ c \in Directory /\ j \in DOMAIN b[c]
            /\ b[d][m].file = b[c][j].file /\ b[d][m].path = <<c>> \o b[c][j].path
        BY <4>1, <4>2 DEF FromDirectory
      <4>4. c \in Inside(d) /\ BelowOK(b, c) /\ Under[c] \subseteq Under[d]
        BY <2>2, <4>2, <4>3
      <4>5. b[c][j].path \in Seq(Directory)
        <5>1. b[c] \in Seq(Item)
          BY <4>3, BelowTyped
        <5>2. b[c][j] \in Item
          BY <4>3, <5>1, ElementOfSeq, LenProperties
        <5>. QED BY <5>2 DEF Item
      <4>6. /\ b[c][j].file \in File
            /\ \E e \in Under[c] : b[c][j].file \in Range(Children[e])
            /\ Leads(c, b[c][j].path, b[c][j].file)
        BY <4>3, <4>4 DEF BelowOK
      <4>7. Leads(d, <<c>> \o b[c][j].path, b[c][j].file)
        BY <4>4, <4>5, <4>6, LeadsOn
      <4>8. \E e \in Under[d] : b[c][j].file \in Range(Children[e])
        BY <4>4, <4>6
      <4>. QED BY <4>3, <4>6, <4>7, <4>8
    <3>. QED BY <2>1, <3>1, <3>2 DEF Origins
  <2>5. ASSUME NEW m \in DOMAIN b[d], NEW l \in DOMAIN b[d], b[d][m].file = b[d][l].file
        PROVE  m = l
    <3>1. ASSUME NEW x \in DOMAIN b[d], NEW y \in DOMAIN b[d], NEW i, NEW k, NEW n,
                 b[d][x].file = b[d][y].file,
                 FromFile(b, d, x, i), FromDirectory(b, d, y, k, n)
          PROVE  FALSE
      <4>1. PICK c : c = Children[d][k] /\ c \in Inside(d) /\ n \in DOMAIN b[c]
                     /\ BelowOK(b, c) /\ b[d][y].file = b[c][n].file
        BY <2>2, <3>1 DEF FromDirectory
      <4>2. PICK e \in Under[c] : b[c][n].file \in Range(Children[e])
        BY <4>1 DEF BelowOK
      <4>3. b[c][n].file \in Range(Children[d])
        BY <2>2, <3>1, <4>1 DEF FromFile
      <4>4. e \in Directory /\ c \in Directory
        BY <4>1, <4>2, UnderTyped DEF Inside
      <4>5. e = d
        BY <4>2, <4>3, <4>4, OneParent
      <4>. QED BY <4>1, <4>2, <4>5, ApartBelow
    <3>2. CASE \E i, k : FromFile(b, d, m, i) /\ FromFile(b, d, l, k) /\ at[m] = <<i, 1>>
                         /\ at[l] = <<k, 1>>
      <4>1. PICK i, k : FromFile(b, d, m, i) /\ FromFile(b, d, l, k) /\ at[m] = <<i, 1>>
                        /\ at[l] = <<k, 1>>
        BY <3>2
      <4>2. Children[d][i] = Children[d][k] /\ i \in DOMAIN Children[d] /\ k \in DOMAIN Children[d]
        BY <1>3, <2>5, <4>1 DEF FromFile
      <4>3. i = k
        BY <4>2, TreeAssumption
      <4>4. at[m] = at[l]
        BY <4>1, <4>3
      <4>. QED BY <2>1, <4>4 DEF Origins
    <3>3. CASE \E i, j, k, n : /\ FromDirectory(b, d, m, i, j) /\ at[m] = <<i, j>>
                               /\ FromDirectory(b, d, l, k, n) /\ at[l] = <<k, n>>
      <4>1. PICK i, j, k, n : /\ FromDirectory(b, d, m, i, j) /\ at[m] = <<i, j>>
                              /\ FromDirectory(b, d, l, k, n) /\ at[l] = <<k, n>>
        BY <3>3
      <4>2. PICK x, y : x = Children[d][i] /\ y = Children[d][k]
        OBVIOUS
      <4>3. /\ x \in Inside(d) /\ BelowOK(b, x) /\ j \in DOMAIN b[x]
            /\ y \in Inside(d) /\ BelowOK(b, y) /\ n \in DOMAIN b[y]
            /\ b[x][j].file = b[y][n].file
            /\ i \in DOMAIN Children[d] /\ k \in DOMAIN Children[d]
        BY <1>3, <2>2, <2>5, <4>1, <4>2 DEF FromDirectory
      <4>4. PICK e \in Under[x] : b[x][j].file \in Range(Children[e])
        BY <4>3 DEF BelowOK
      <4>5. PICK h \in Under[y] : b[x][j].file \in Range(Children[h])
        BY <4>3 DEF BelowOK
      <4>6. e \in Directory /\ h \in Directory
        BY <4>3, <4>4, <4>5, UnderTyped DEF Inside
      <4>7. e = h
        BY <4>4, <4>5, <4>6, OneParent
      <4>8. x = y
        BY <4>3, <4>4, <4>5, <4>7, ApartBelow
      <4>9. i = k
        <5>1. Children[d][i] = Children[d][k] /\ i \in DOMAIN Children[d] /\ k \in DOMAIN Children[d]
          BY <4>2, <4>3, <4>8
        <5>. QED BY <5>1, TreeAssumption
      <4>10. j = n
        BY <4>3, <4>8 DEF BelowOK
      <4>11. at[m] = at[l]
        BY <4>1, <4>9, <4>10
      <4>. QED BY <2>1, <4>11 DEF Origins
    <3>. QED BY <2>1, <2>5, <3>1, <3>2, <3>3 DEF Origins
  <2>6. ASSUME \A e \in Under[d] : got[e] = Len(Children[e]),
               NEW e \in Under[d], NEW f \in File \cap Range(Children[e])
        PROVE  \E m \in DOMAIN b[d] : b[d][m].file = f
    <3>1. got[d] = Len(Children[d])
      BY <2>3, <2>6
    <3>2. DOMAIN Children[d] = 1..got[d]
      BY <3>1, TreeAssumption, LenProperties
    <3>3. CASE e = d
      <4>1. PICK i \in 1..got[d] : f = Children[d][i]
        BY <3>2, <3>3 DEF Range
      <4>2. PICK m \in DOMAIN b[d] : at[m] = <<i, 1>>
        BY <2>1, <4>1 DEF Origins
      <4>3. f \notin Directory
        BY TreeAssumption
      <4>4. FromFile(b, d, m, i)
        <5>1. at[m][1] = i
          BY <4>2
        <5>2. FromFile(b, d, m, i) \/ FromDirectory(b, d, m, i, at[m][2])
          BY <2>1, <5>1 DEF Origins
        <5>. QED BY <4>1, <4>3, <5>2 DEF FromDirectory
      <4>. QED BY <4>1, <4>4 DEF FromFile
    <3>4. CASE e # d
      <4>1. PICK c \in Inside(d) : e \in Under[c]
        BY <3>4, UnderTyped
      <4>2. PICK i \in 1..got[d] : c = Children[d][i]
        BY <3>2, <4>1 DEF Inside, Range
      <4>3. BelowOK(b, c) /\ c \in Directory /\ Under[c] \subseteq Under[d]
        BY <2>2, <4>1, <4>2 DEF Inside
      <4>4. PICK j \in DOMAIN b[c] : b[c][j].file = f
        BY <2>6, <4>1, <4>3 DEF BelowOK
      <4>5. PICK m \in DOMAIN b[d] : at[m] = <<i, j>>
        BY <2>1, <4>2, <4>3 DEF Origins
      <4>6. c \notin File
        BY <4>3, TreeAssumption
      <4>7. FromDirectory(b, d, m, i, j)
        <5>1. at[m][1] = i /\ at[m][2] = j
          BY <4>5
        <5>2. FromFile(b, d, m, i) \/ FromDirectory(b, d, m, i, j)
          BY <2>1, <5>1 DEF Origins
        <5>. QED BY <4>2, <4>6, <5>2 DEF FromFile
      <4>. QED BY <4>2, <4>4, <4>7 DEF FromDirectory
    <3>. QED BY <3>3, <3>4
  <2>7. BelowOK(b, d)
    BY <2>4, <2>5, <2>6 DEF BelowOK
  <2>. QED BY <2>7 DEF T
<1>5. rank \in [Directory -> 1..Cardinality(Directory)]
  BY <1>1 DEF Ranked
<1>. HIDE DEF T
<1>6. Inherited(T, rank, Directory)
  BY <1>4 DEF Inherited
<1>7. Directory \subseteq T
  BY <1>5, <1>6, Ranks, RankInduction
<1>. QED BY <1>7 DEF T

-----------------------------------------------------------------------------
(* Entries from a list of files.                                           *)

ListOK(list) ==
  /\ list \in Seq(Range(list))
  /\ \A x \in Range(list) : /\ x = [file |-> x.file, parts |-> x.parts]
                            /\ x.parts \in Seq(Range(x.parts) \ {NoRoot})

PartsOf(list) == UNION {Range(x.parts) \ {NoRoot} : x \in Range(list)}

ListItem(list) == [file : {x.file : x \in Range(list)}, path : Seq(PartsOf(list))]

ListEntry(list) == [root : PartsOf(list) \cup {NoRoot}, files : Seq(ListItem(list))]

\* The element x of a list has become this item of an entry with this root.
BecomesItem(x, root, item) ==
  /\ x.file = item.file
  /\ IF Len(x.parts) < 2 THEN root = NoRoot /\ item.path = <<>>
     ELSE root # NoRoot /\ x.parts = <<root>> \o item.path \o <<Last(x.parts)>>

LEMMA PathSplits ==
  ASSUME NEW X, NEW s \in Seq(X), Len(s) >= 2
  PROVE  /\ Head(s) \in X /\ SubSeq(s, 2, Len(s) - 1) \in Seq(X)
         /\ s = <<Head(s)>> \o SubSeq(s, 2, Len(s) - 1) \o <<Last(s)>>
<1>. DEFINE n == Len(s)
            middle == SubSeq(s, 2, n - 1)
            front == <<Head(s)>> \o middle
            whole == front \o <<Last(s)>>
<1>1. n \in Nat /\ n >= 2 /\ DOMAIN s = 1..n /\ \A i \in 1..n : s[i] \in X
  BY LenProperties, ElementOfSeq
<1>2. Head(s) = s[1] /\ Last(s) = s[n] /\ s[1] \in X /\ s[n] \in X
  <2>1. 1 \in 1..n /\ n \in 1..n
    BY <1>1
  <2>. QED BY <1>1, <2>1 DEF Last
<1>3. /\ middle \in Seq(X) /\ Len(middle) = n - 2
      /\ \A i \in 1..(n - 2) : middle[i] = s[i + 1]
  <2>1. /\ 2 \in 1..(n + 1) /\ n - 1 \in (2 - 1)..n
        /\ (n - 1) - 2 + 1 = n - 2 /\ \A i \in 1..(n - 2) : 2 + i - 1 = i + 1
    BY <1>1
  <2>2. middle = [i \in 1..((n - 1) - 2 + 1) |-> s[2 + i - 1]]
    BY DEF middle
  <2>3. middle = [i \in 1..(n - 2) |-> s[i + 1]]
    BY <2>1, <2>2
  <2>4. n - 2 \in Nat /\ \A i \in 1..(n - 2) : i + 1 \in 1..n
    BY <1>1
  <2>5. middle \in [1..(n - 2) -> X]
    BY <1>1, <2>3, <2>4
  <2>. HIDE DEF middle
  <2>. QED BY <2>3, <2>4, <2>5, FunctionIsSeq
<1>. HIDE DEF middle
<1>4. /\ front \in Seq(X) /\ Len(front) = n - 1
      /\ \A i \in 1..(n - 1) : front[i] = s[i]
  <2>1. <<Head(s)>> \in Seq(X) /\ Len(<<Head(s)>>) = 1 /\ <<Head(s)>>[1] = Head(s)
    BY <1>2
  <2>2. 1 + (n - 2) = n - 1 /\ n - 2 \in Nat
    BY <1>1
  <2>3. /\ front \in Seq(X) /\ Len(front) = n - 1
        /\ \A i \in 1..(n - 1) : front[i] = IF i <= 1 THEN <<Head(s)>>[i] ELSE middle[i - 1]
    BY <1>3, <2>1, <2>2, ConcatProperties
  <2>4. ASSUME NEW i \in 1..(n - 1) PROVE front[i] = s[i]
    <3>1. CASE i = 1
      BY <1>2, <2>1, <2>3, <3>1
    <3>2. CASE i # 1
      <4>1. ~(i <= 1) /\ i - 1 \in 1..(n - 2) /\ (i - 1) + 1 = i
        BY <1>1, <3>2
      <4>. QED BY <1>3, <2>3, <4>1
    <3>. QED BY <3>1, <3>2
  <2>. QED BY <2>3, <2>4
<1>. HIDE DEF front
<1>5. /\ whole \in Seq(X) /\ Len(whole) = n
      /\ \A i \in 1..n : whole[i] = s[i]
  <2>1. <<Last(s)>> \in Seq(X) /\ Len(<<Last(s)>>) = 1 /\ <<Last(s)>>[1] = Last(s)
    BY <1>2
  <2>2. (n - 1) + 1 = n
    BY <1>1
  <2>3. /\ whole \in Seq(X) /\ Len(whole) = n
        /\ \A i \in 1..n : whole[i] = IF i <= n - 1 THEN front[i] ELSE <<Last(s)>>[i - (n - 1)]
    BY <1>4, <2>1, <2>2, ConcatProperties
  <2>4. ASSUME NEW i \in 1..n PROVE whole[i] = s[i]
    <3>1. CASE i = n
      <4>1. ~(n <= n - 1) /\ n - (n - 1) = 1
        BY <1>1
      <4>. QED BY <1>2, <2>1, <2>3, <3>1, <4>1
    <3>2. CASE i # n
      <4>1. i <= n - 1 /\ i \in 1..(n - 1)
        <5>1. \A m \in Nat : \A j \in 1..m : j # m => j <= m - 1 /\ j \in 1..(m - 1)
          OBVIOUS
        <5>. HIDE DEF n
        <5>. QED BY <1>1, <3>2, <5>1
      <4>. QED BY <1>4, <2>3, <4>1
    <3>. QED BY <3>1, <3>2
  <2>. QED BY <2>3, <2>4
<1>. HIDE DEF whole, n
<1>6. s = whole
  <2>1. DOMAIN whole = 1..n
    BY <1>5, LenProperties
  <2>3. s \in Seq(X) /\ whole \in Seq(X) /\ Len(s) = Len(whole)
    BY <1>5 DEF n
  <2>. QED BY <1>5, <2>3, SeqEqual DEF n
<1>. QED BY <1>2, <1>3, <1>6 DEF whole, front, middle, n

\* to has the entries es and one item more, the k-th of the i-th entry.
Grown(es, to, i, k, root, item) ==
  /\ i \in DOMAIN to /\ k \in DOMAIN to[i].files
  /\ to[i].root = root /\ to[i].files[k] = item
  /\ \A j \in DOMAIN es : /\ j \in DOMAIN to /\ to[j].root = es[j].root
                          /\ \A l \in DOMAIN es[j].files : /\ l \in DOMAIN to[j].files
                                                           /\ to[j].files[l] = es[j].files[l]
  /\ \A j \in DOMAIN to : /\ j = i \/ j \in DOMAIN es
                          /\ \A l \in DOMAIN to[j].files :
                               (j = i /\ l = k) \/ (j \in DOMAIN es /\ l \in DOMAIN es[j].files)

LEMMA GrowsByEntry ==
  ASSUME NEW R, NEW I, NEW es \in Seq([root : R, files : Seq(I)]), NEW r \in R, NEW item \in I,
         NEW to, to = Append(es, [root |-> r, files |-> <<item>>])
  PROVE  /\ to \in Seq([root : R, files : Seq(I)])
         /\ Grown(es, to, Len(es) + 1, 1, r, item)
<1>. DEFINE E == [root : R, files : Seq(I)]
            e == [root |-> r, files |-> <<item>>]
            n == Len(es)
<1>1. e \in E /\ e.root = r /\ e.files = <<item>> /\ DOMAIN e.files = {1} /\ e.files[1] = item
  <2>1. <<item>> \in Seq(I) /\ DOMAIN <<item>> = {1} /\ <<item>>[1] = item
    OBVIOUS
  <2>. QED BY <2>1
<1>2. n \in Nat /\ DOMAIN es = 1..n
  BY LenProperties
<1>. HIDE DEF E, e
<1>3. /\ to \in Seq(E) /\ Len(to) = n + 1
      /\ \A i \in 1..n : to[i] = es[i]
      /\ to[n + 1] = e
  <2>1. es \in Seq(E) /\ to = Append(es, e)
    BY DEF E, e
  <2>. QED BY <1>1, <2>1, AppendProperties
<1>4. DOMAIN to = 1..(n + 1)
  BY <1>3, LenProperties
<1>5. n + 1 \in 1..(n + 1) /\ 1..n \subseteq 1..(n + 1)
      /\ \A j \in 1..(n + 1) : j = n + 1 \/ j \in 1..n
  BY <1>2
<1>. HIDE DEF n
<1>6. Grown(es, to, n + 1, 1, r, item)
  BY <1>1, <1>2, <1>3, <1>4, <1>5 DEF Grown
<1>. QED BY <1>3, <1>6 DEF n, E

AddedTo(es, i, item) == [es EXCEPT ![i].files = Append(@, item)]

LEMMA GrowsInEntry ==
  ASSUME NEW R, NEW I, NEW es \in Seq([root : R, files : Seq(I)]), NEW i \in DOMAIN es,
         NEW item \in I, NEW to, to = AddedTo(es, i, item)
  PROVE  /\ to \in Seq([root : R, files : Seq(I)])
         /\ Grown(es, to, i, Len(es[i].files) + 1, es[i].root, item)
<1>. DEFINE E == [root : R, files : Seq(I)]
            files == Append(es[i].files, item)
            e == [root |-> es[i].root, files |-> files]
            n == Len(es[i].files)
<1>1. es[i] \in E /\ Len(es) \in Nat /\ DOMAIN es = 1..Len(es)
  BY ElementOfSeq, LenProperties
<1>2. es[i].root \in R /\ es[i].files \in Seq(I) /\ es[i] = [root |-> es[i].root, files |-> es[i].files]
  BY <1>1
<1>3. /\ files \in Seq(I) /\ Len(files) = n + 1 /\ files[n + 1] = item
      /\ \A l \in 1..n : files[l] = es[i].files[l]
  BY <1>2, AppendProperties
<1>4. n \in Nat /\ DOMAIN es[i].files = 1..n /\ DOMAIN files = 1..(n + 1)
  BY <1>2, <1>3, LenProperties
<1>5. n + 1 \in 1..(n + 1) /\ 1..n \subseteq 1..(n + 1)
      /\ \A j \in 1..(n + 1) : j = n + 1 \/ j \in 1..n
  BY <1>4
<1>6. e \in E
  BY <1>2, <1>3
<1>7. [es[i] EXCEPT !.files = files] = e
  <2>. HIDE DEF files
  <2>. QED BY <1>2, SMTT(30)
<1>8. to = [es EXCEPT ![i] = e]
  BY <1>7 DEF AddedTo
<1>9. e.root = es[i].root /\ e.files = files
  OBVIOUS
<1>. HIDE DEF E, e, files
<1>10. /\ to \in Seq(E) /\ Len(to) = Len(es) /\ DOMAIN to = DOMAIN es
       /\ \A j \in DOMAIN es : to[j] = IF j = i THEN e ELSE es[j]
  <2>1. es \in [1..Len(es) -> E]
    BY <1>1, SeqDef, LenProperties DEF E
  <2>2. /\ to \in [1..Len(es) -> E] /\ DOMAIN to = DOMAIN es
        /\ \A j \in DOMAIN es : to[j] = IF j = i THEN e ELSE es[j]
    BY <1>1, <1>6, <1>8, <2>1
  <2>. QED BY <1>1, <2>2, FunctionIsSeq
<1>. HIDE DEF n
<1>11. Grown(es, to, i, n + 1, es[i].root, item)
  BY <1>3, <1>4, <1>5, <1>9, <1>10 DEF Grown
<1>. QED BY <1>10, <1>11 DEF n, E

\* One step of the fold.
GroupStep(entries, f) ==
  LET root == Head(f.parts)
      item == [file |-> f.file, path |-> SubSeq(f.parts, 2, Len(f.parts) - 1)]
      same == {k \in DOMAIN entries : entries[k].root = root}
  IN IF Len(f.parts) < 2 THEN Append(entries, Single(f.file))
     ELSE IF same = {} THEN Append(entries, [root |-> root, files |-> <<item>>])
     ELSE [entries EXCEPT ![Max(same)].files = Append(@, item)]

LEMMA GroupGrows ==
  ASSUME NEW list, ListOK(list), NEW x \in Range(list), NEW es \in Seq(ListEntry(list))
  PROVE  /\ GroupStep(es, x) \in Seq(ListEntry(list))
         /\ \E i, k, root, item : /\ BecomesItem(x, root, item)
                                  /\ Grown(es, GroupStep(es, x), i, k, root, item)
<1>. DEFINE R == PartsOf(list) \cup {NoRoot}
            I == ListItem(list)
            item == [file |-> x.file, path |-> SubSeq(x.parts, 2, Len(x.parts) - 1)]
            root == Head(x.parts)
            same == {k \in DOMAIN es : es[k].root = root}
<1>1. /\ x.parts \in Seq(Range(x.parts) \ {NoRoot}) /\ Len(x.parts) \in Nat
      /\ Range(x.parts) \ {NoRoot} \subseteq PartsOf(list)
      /\ x.file \in {y.file : y \in Range(list)}
  BY LenProperties DEF ListOK, PartsOf
<1>2. ListEntry(list) = [root : R, files : Seq(I)] /\ NoRoot \in R /\ PartsOf(list) \subseteq R
  BY DEF ListEntry
<1>3. CASE Len(x.parts) < 2
  <2>. DEFINE one == [file |-> x.file, path |-> <<>>]
  <2>1. one \in I
    BY <1>1, EmptySeq DEF ListItem
  <2>2. GroupStep(es, x) = Append(es, [root |-> NoRoot, files |-> <<one>>])
    BY <1>3 DEF GroupStep, Single
  <2>3. BecomesItem(x, NoRoot, one)
    BY <1>3 DEF BecomesItem
  <2>. HIDE DEF I, R, one
  <2>. QED BY <1>2, <2>1, <2>2, <2>3, GrowsByEntry
<1>4. CASE ~(Len(x.parts) < 2)
  <2>1. Len(x.parts) >= 2
    BY <1>1, <1>4
  <2>2. /\ root \in Range(x.parts) \ {NoRoot}
        /\ SubSeq(x.parts, 2, Len(x.parts) - 1) \in Seq(Range(x.parts) \ {NoRoot})
        /\ x.parts = <<root>> \o SubSeq(x.parts, 2, Len(x.parts) - 1) \o <<Last(x.parts)>>
    BY <1>1, <2>1, PathSplits
  <2>3. item \in I
    <3>1. SubSeq(x.parts, 2, Len(x.parts) - 1) \in Seq(PartsOf(list))
      BY <1>1, <2>2, SeqMonotonic
    <3>. QED BY <1>1, <3>1 DEF ListItem
  <2>4. BecomesItem(x, root, item)
    BY <1>4, <2>2 DEF BecomesItem
  <2>5. CASE same = {}
    <3>1. GroupStep(es, x) = Append(es, [root |-> root, files |-> <<item>>])
      BY <1>4, <2>5 DEF GroupStep
    <3>2. root \in R
      BY <1>1, <1>2, <2>2
    <3>. HIDE DEF I, R, item, root
    <3>. QED BY <1>2, <2>3, <2>4, <3>1, <3>2, GrowsByEntry
  <2>6. CASE same # {}
    <3>1. GroupStep(es, x) = [es EXCEPT ![Max(same)].files = Append(@, item)]
      BY <1>4, <2>6 DEF GroupStep
    <3>2. Max(same) \in same
      <4>1. DOMAIN es = 1..Len(es) /\ Len(es) \in Nat
        BY LenProperties
      <4>2. same \in SUBSET (1..Len(es))
        BY <4>1
      <4>3. Max(same) = Greatest(same)
        BY DEF Max, Greatest
      <4>. HIDE DEF same
      <4>. QED BY <2>6, <4>1, <4>2, <4>3, GreatestElement
    <3>3. PICK m : m = Max(same) /\ m \in DOMAIN es /\ es[m].root = root
      BY <3>2
    <3>4. GroupStep(es, x) = AddedTo(es, m, item)
      BY <3>1, <3>3 DEF AddedTo
    <3>. HIDE DEF I, R, item, root, same
    <3>5. BecomesItem(x, es[m].root, item)
      BY <2>4, <3>3
    <3>6. PICK to : to = GroupStep(es, x)
      OBVIOUS
    <3>7. es \in Seq([root : R, files : Seq(I)])
      BY <1>2
    <3>8. /\ to \in Seq([root : R, files : Seq(I)])
          /\ Grown(es, to, m, Len(es[m].files) + 1, es[m].root, item)
      BY <2>3, <3>3, <3>4, <3>6, <3>7, GrowsInEntry
    <3>. QED BY <1>2, <3>5, <3>6, <3>8
  <2>. QED BY <2>5, <2>6
<1>. QED BY <1>3, <1>4

Once(es) ==
  \A i, j \in DOMAIN es : \A k \in DOMAIN es[i].files, l \in DOMAIN es[j].files :
    es[i].files[k].file = es[j].files[l].file => i = j /\ k = l

Distinct(list) == \A i, j \in DOMAIN list : list[i].file = list[j].file => i = j

\* es are the entries of the first m files of the list.
Grouped(list, m, es) ==
  /\ es \in Seq(ListEntry(list))
  /\ \A i \in DOMAIN es : DOMAIN es[i].files # {}
  /\ \A i \in DOMAIN es : \A k \in DOMAIN es[i].files :
       \E n \in 1..m : BecomesItem(list[n], es[i].root, es[i].files[k])
  /\ \A n \in 1..m : \E i \in DOMAIN es : \E k \in DOMAIN es[i].files :
       es[i].files[k].file = list[n].file
  /\ Distinct(list) => Once(es)

LEMMA GroupedNext ==
  ASSUME NEW list, NEW m \in Nat, m + 1 \in DOMAIN list, DOMAIN list \subseteq Nat \ {0},
         1..m \subseteq DOMAIN list,
         NEW es, Grouped(list, m, es), NEW to \in Seq(ListEntry(list)),
         NEW i, NEW k, NEW root, NEW item, BecomesItem(list[m + 1], root, item),
         Grown(es, to, i, k, root, item)
  PROVE  Grouped(list, m + 1, to)
<1>1. 1..m \subseteq 1..(m + 1) /\ m + 1 \in 1..(m + 1)
      /\ \A n \in 1..(m + 1) : (n = m + 1 \/ n \in 1..m)
      /\ m + 1 \notin 1..m
  OBVIOUS
<1>2. ASSUME NEW j \in DOMAIN to PROVE DOMAIN to[j].files # {}
  <2>1. CASE j = i
    BY <2>1 DEF Grown
  <2>2. CASE j # i
    <3>1. j \in DOMAIN es /\ DOMAIN es[j].files # {}
      BY <2>2 DEF Grown, Grouped
    <3>. QED BY <3>1 DEF Grown
  <2>. QED BY <2>1, <2>2
<1>3. ASSUME NEW j \in DOMAIN to, NEW l \in DOMAIN to[j].files
      PROVE  \E n \in 1..(m + 1) : BecomesItem(list[n], to[j].root, to[j].files[l])
  <2>1. CASE j = i /\ l = k
    BY <1>1, <2>1 DEF Grown
  <2>2. CASE j \in DOMAIN es /\ l \in DOMAIN es[j].files
    <3>1. to[j].root = es[j].root /\ to[j].files[l] = es[j].files[l]
      BY <2>2 DEF Grown
    <3>2. PICK n \in 1..m : BecomesItem(list[n], es[j].root, es[j].files[l])
      BY <2>2 DEF Grouped
    <3>. QED BY <1>1, <3>1, <3>2
  <2>. QED BY <2>1, <2>2 DEF Grown
<1>4. ASSUME NEW n \in 1..(m + 1)
      PROVE  \E j \in DOMAIN to : \E l \in DOMAIN to[j].files : to[j].files[l].file = list[n].file
  <2>1. CASE n = m + 1
    BY <2>1 DEF Grown, BecomesItem
  <2>2. CASE n \in 1..m
    <3>1. PICK j \in DOMAIN es : \E l \in DOMAIN es[j].files : es[j].files[l].file = list[n].file
      BY <2>2 DEF Grouped
    <3>2. PICK l \in DOMAIN es[j].files : es[j].files[l].file = list[n].file
      BY <3>1
    <3>3. j \in DOMAIN to /\ l \in DOMAIN to[j].files /\ to[j].files[l] = es[j].files[l]
      BY <3>1, <3>2 DEF Grown
    <3>. QED BY <3>2, <3>3
  <2>. QED BY <1>1, <2>1, <2>2
<1>5. ASSUME Distinct(list), NEW j \in DOMAIN es, NEW l \in DOMAIN es[j].files,
             es[j].files[l].file = item.file
      PROVE  FALSE
  <2>1. PICK n \in 1..m : BecomesItem(list[n], es[j].root, es[j].files[l])
    BY <1>5 DEF Grouped
  <2>2. list[n].file = list[m + 1].file /\ n \in DOMAIN list
    BY <1>5, <2>1 DEF BecomesItem
  <2>. QED BY <1>1, <1>5, <2>2 DEF Distinct
<1>6. ASSUME Distinct(list) PROVE Once(to)
  <2>. SUFFICES ASSUME NEW x \in DOMAIN to, NEW y \in DOMAIN to,
                       NEW a \in DOMAIN to[x].files, NEW b \in DOMAIN to[y].files,
                       to[x].files[a].file = to[y].files[b].file
                PROVE  x = y /\ a = b
    BY DEF Once
  <2>1. CASE x = i /\ a = k /\ y = i /\ b = k
    BY <2>1
  <2>2. CASE x = i /\ a = k /\ y \in DOMAIN es /\ b \in DOMAIN es[y].files
    <3>1. to[x].files[a] = item /\ to[y].files[b] = es[y].files[b]
      BY <2>2 DEF Grown
    <3>. QED BY <1>5, <1>6, <2>2, <3>1
  <2>3. CASE y = i /\ b = k /\ x \in DOMAIN es /\ a \in DOMAIN es[x].files
    <3>1. to[y].files[b] = item /\ to[x].files[a] = es[x].files[a]
      BY <2>3 DEF Grown
    <3>. QED BY <1>5, <1>6, <2>3, <3>1
  <2>4. CASE /\ x \in DOMAIN es /\ a \in DOMAIN es[x].files
             /\ y \in DOMAIN es /\ b \in DOMAIN es[y].files
    <3>1. to[y].files[b] = es[y].files[b] /\ to[x].files[a] = es[x].files[a]
      BY <2>4 DEF Grown
    <3>2. Once(es)
      BY <1>6 DEF Grouped
    <3>. QED BY <2>4, <3>1, <3>2 DEF Once
  <2>. QED BY <2>1, <2>2, <2>3, <2>4 DEF Grown
<1>. QED BY <1>2, <1>3, <1>4, <1>6 DEF Grouped

LEMMA EntriesGrouped ==
  ASSUME NEW list, ListOK(list)
  PROVE  Grouped(list, Len(list), EntriesFromFiles(list))
<1>. DEFINE n == Len(list)
            X == Seq(ListEntry(list))
            G == [u \in X \X (1..n) |-> GroupStep(u[1], list[u[2]])]
            Eq(f) == f = [s \in SUBSET DOMAIN list |->
                            IF s = {} THEN <<>>
                            ELSE GroupStep(f[s \ {Max(s)}], list[Max(s)])]
<1>1. n \in Nat /\ DOMAIN list = 1..n /\ \A i \in 1..n : list[i] \in Range(list)
  BY LenProperties DEF ListOK, Range
<1>2. \A es \in X, i \in 1..n : GroupStep(es, list[i]) \in X
  BY <1>1, GroupGrows
<1>3. G \in [X \X (1..n) -> X] /\ <<>> \in X
  BY <1>2, EmptySeq
<1>4. PICK f \in [SUBSET (1..n) -> X] : FoldsUp(f, n, <<>>, G)
  <2>. HIDE DEF G, n, X
  <2>. QED BY <1>1, <1>3, FoldExists
<1>5. ASSUME NEW s \in SUBSET (1..n), s # {}
      PROVE  Max(s) = Greatest(s) /\ Max(s) \in 1..n /\ s \ {Max(s)} \in SUBSET (1..n)
  <2>1. Max(s) = Greatest(s)
    BY DEF Max, Greatest
  <2>. HIDE DEF n
  <2>. QED BY <1>1, <1>5, <2>1, GreatestElement
<1>6. \A es \in X, i \in 1..n : G[<<es, i>>] = GroupStep(es, list[i])
  OBVIOUS
<1>. HIDE DEF G, X
<1>7. ASSUME NEW s \in SUBSET (1..n), s # {}
      PROVE  f[s] = GroupStep(f[s \ {Max(s)}], list[Max(s)])
  <2>1. f[s] = G[<<f[s \ {Max(s)}], Max(s)>>]
    BY <1>4, <1>5, <1>7 DEF FoldsUp
  <2>2. f[s \ {Max(s)}] \in X
    BY <1>5, <1>7
  <2>. QED BY <1>5, <1>6, <1>7, <2>1, <2>2
<1>8. f[{}] = <<>>
  BY <1>4 DEF FoldsUp
<1>9. Eq(f)
  BY <1>1, <1>7, <1>8
<1>10. PICK iter : Eq(iter) /\ EntriesFromFiles(list) = iter[DOMAIN list]
  <2>1. EntriesFromFiles(list) = (CHOOSE g : Eq(g))[DOMAIN list]
    BY DEF EntriesFromFiles, FoldLeft, MapThenFoldSet, GroupStep
  <2>2. Eq(CHOOSE g : Eq(g))
    BY <1>9
  <2>. QED BY <2>1, <2>2
<1>11. FoldAlike(iter, f, n)
  <2>1. \A s \in SUBSET (1..n) :
          iter[s] = IF s = {} THEN <<>> ELSE GroupStep(iter[s \ {Max(s)}], list[Max(s)])
    BY <1>1, <1>10
  <2>. QED BY <1>5, <1>7, <1>8, <2>1 DEF FoldAlike
<1>12. EntriesFromFiles(list) = f[1..n]
  <2>1. \A s \in SUBSET (1..n) : iter[s] = f[s]
    <3>1. n \in Nat
      BY <1>1
    <3>. HIDE DEF n, Eq
    <3>. QED BY <1>11, <3>1, FoldUnique
  <2>. QED BY <1>1, <1>10, <2>1
<1>13. PICK a \in [0..n -> X] : Chain(a, f, n, <<>>, G)
  <2>1. n \in Nat
    BY <1>1
  <2>. HIDE DEF n
  <2>. QED BY <1>4, <2>1, FoldChain
<1>. DEFINE T == {m \in 0..n : Grouped(list, m, a[m])}
<1>14. 0 \in T
  <2>1. a[0] = <<>> /\ 0 \in 0..n
    BY <1>1, <1>13 DEF Chain
  <2>2. DOMAIN <<>> = {} /\ <<>> \in Seq(ListEntry(list)) /\ 1..0 = {}
    BY EmptySeq
  <2>3. Grouped(list, 0, <<>>)
    BY <2>2 DEF Grouped, Once
  <2>. QED BY <2>1, <2>3
<1>15. ASSUME NEW m \in 0..(n - 1), m \in T PROVE m + 1 \in T
  <2>1. m + 1 \in 1..n /\ m + 1 \in 0..n /\ m \in 0..n /\ (m + 1) - 1 = m /\ m \in Nat
        /\ 1..m \subseteq 1..n /\ 1..n \subseteq Nat \ {0}
    BY <1>1
  <2>2. Grouped(list, m, a[m]) /\ a[m] \in X
    BY <1>15, <2>1
  <2>3. a[m + 1] = GroupStep(a[m], list[m + 1])
    <3>1. a[m + 1] = G[<<a[m], m + 1>>]
      BY <1>13, <2>1 DEF Chain
    <3>. QED BY <1>6, <2>1, <2>2, <3>1
  <2>4. PICK i, k, root, item : /\ BecomesItem(list[m + 1], root, item)
                                /\ Grown(a[m], a[m + 1], i, k, root, item)
    BY <1>1, <2>1, <2>2, <2>3, GroupGrows DEF X
  <2>5. a[m + 1] \in Seq(ListEntry(list))
    BY <2>1 DEF X
  <2>6. Grouped(list, m + 1, a[m + 1])
    <3>. HIDE DEF n, T
    <3>. QED BY <1>1, <2>1, <2>2, <2>4, <2>5, GroupedNext
  <2>. QED BY <2>1, <2>6
<1>. HIDE DEF T
<1>16. n \in T
  <2>1. 0..n \subseteq T
    <3>. HIDE DEF n
    <3>. QED BY <1>1, <1>14, <1>15, AllUpTo
  <2>2. n \in 0..n
    BY <1>1
  <2>. QED BY <2>1, <2>2
<1>. QED BY <1>12, <1>13, <1>16 DEF T, Chain

-----------------------------------------------------------------------------
(* The entries of a gesture.                                               *)

\* es are entries for all of what the person gave.
Whole(g, es) ==
  /\ \E R, I : es \in Seq([root : R, files : Seq(I)])
  /\ \A i \in DOMAIN es : \A k \in DOMAIN es[i].files :
       /\ es[i].files[k].file \in FilesOf(g)
       /\ Belongs(g, es[i].root, es[i].files[k])
  /\ \A f \in FilesOf(g) : \E i \in DOMAIN es : \E k \in DOMAIN es[i].files :
       es[i].files[k].file = f
  /\ Once(es)

\* es are the entries of the gesture, of which the first n are sent at once and
\* have all that the page takes up.
Entries(g, es, n) ==
  /\ \E R, I : es \in Seq([root : R, files : Seq(I)])
  /\ n \in 0..Len(es)
  /\ \A i \in DOMAIN es : \A k \in DOMAIN es[i].files :
       /\ es[i].files[k].file \in FilesOf(g)
       /\ Belongs(g, es[i].root, es[i].files[k])
  /\ \A f \in TakenUp(g) : \E i \in DOMAIN es :
       i <= n /\ \E k \in DOMAIN es[i].files : es[i].files[k].file = f
  /\ Once(es)

LEMMA ListsOK ==
  ASSUME NEW g \in Gesture
  PROVE  /\ ListOK(Listed[g])
         /\ Len(Listed[g]) \in Nat /\ DOMAIN Listed[g] = 1..Len(Listed[g])
         /\ \A x \in Range(Listed[g]) : Len(x.parts) \in Nat
         /\ TakesList(g) => Distinct(Listed[g])
<1>1. ListOK(Listed[g])
  BY ListAssumption DEF ListOK
<1>2. Listed[g] \in Seq(Range(Listed[g]))
  BY <1>1 DEF ListOK
<1>3. TakesList(g) => Distinct(Listed[g])
  BY ListAssumption DEF Distinct
<1>4. ASSUME NEW x \in Range(Listed[g]) PROVE Len(x.parts) \in Nat
  BY <1>1, LenProperties DEF ListOK
<1>. QED BY <1>1, <1>2, <1>3, <1>4, LenProperties

LEMMA FolderListWhole ==
  ASSUME NEW g \in Gesture, TakesList(g), Kind[g] # "files"
  PROVE  Whole(g, EntriesFromFiles(Listed[g]))
<1>. DEFINE list == Listed[g]
            es == EntriesFromFiles(list)
            n == Len(list)
<1>1. Grouped(list, n, es) /\ DOMAIN list = 1..n
  BY ListsOK, EntriesGrouped
<1>2. \E R, I : es \in Seq([root : R, files : Seq(I)])
  BY <1>1 DEF Grouped, ListEntry
<1>3. ASSUME NEW i \in DOMAIN es, NEW k \in DOMAIN es[i].files
      PROVE  /\ es[i].files[k].file \in FilesOf(g)
             /\ Belongs(g, es[i].root, es[i].files[k])
  <2>1. PICK m \in 1..n : BecomesItem(list[m], es[i].root, es[i].files[k])
    BY <1>1 DEF Grouped
  <2>2. list[m] \in Range(list)
    BY <1>1 DEF Range
  <2>. HIDE DEF es, n
  <2>3. es[i].files[k].file \in FilesOf(g)
    BY <2>1, <2>2 DEF FilesOf, BecomesItem
  <2>4. PICK x : x = list[m]
    OBVIOUS
  <2>5. /\ x.file = es[i].files[k].file
        /\ Len(x.parts) < 2 => es[i].root = NoRoot /\ es[i].files[k].path = <<>>
        /\ ~(Len(x.parts) < 2) =>
             x.parts = <<es[i].root>> \o es[i].files[k].path \o <<Last(x.parts)>>
    BY <2>1, <2>4 DEF BecomesItem
  <2>6. Belongs(g, es[i].root, es[i].files[k])
    BY <2>2, <2>4, <2>5, Zenon DEF Belongs
  <2>. QED BY <2>3, <2>6
<1>4. ASSUME NEW f \in FilesOf(g)
      PROVE  \E i \in DOMAIN es : \E k \in DOMAIN es[i].files : es[i].files[k].file = f
  <2>1. PICK x \in Range(list) : f = x.file
    BY <1>4 DEF FilesOf
  <2>2. PICK m \in 1..n : x = list[m]
    BY <1>1, <2>1 DEF Range
  <2>. QED BY <1>1, <2>1, <2>2 DEF Grouped
<1>5. Once(es)
  BY <1>1, ListsOK DEF Grouped
<1>. QED BY <1>2, <1>3, <1>4, <1>5 DEF Whole

\* A file chosen without a folder, or none.
LEMMA FilePickedWhole ==
  ASSUME NEW g \in Gesture, Kind[g] = "files", ~(Len(Listed[g]) > 1)
  PROVE  Whole(g, PickedEntries(g))
<1>. DEFINE list == Listed[g]
            es == PickedEntries(g)
            n == Len(list)
            I == [file : {x.file : x \in Range(list)}, path : {<<>>}]
            R == {NoRoot}
<1>1. /\ n \in Nat /\ DOMAIN list = 1..n /\ TakesList(g) /\ Distinct(list)
      /\ FilesOf(g) = {x.file : x \in Range(list)}
  BY ListsOK DEF TakesList, FilesOf
<1>2. \A i \in 1..n : list[i] \in Range(list)
  BY <1>1 DEF Range
<1>3. es = [i \in 1..n |-> Single(list[i].file)]
  BY <1>1 DEF PickedEntries
<1>4. ASSUME NEW i \in 1..n
      PROVE  /\ Single(list[i].file) \in [root : R, files : Seq(I)]
             /\ Single(list[i].file).root = NoRoot
             /\ DOMAIN Single(list[i].file).files = {1}
             /\ Single(list[i].file).files[1] = [file |-> list[i].file, path |-> <<>>]
  <2>. DEFINE item == [file |-> list[i].file, path |-> <<>>]
  <2>1. item \in I
    BY <1>2
  <2>2. <<item>> \in Seq(I) /\ DOMAIN <<item>> = {1} /\ <<item>>[1] = item
    BY <2>1
  <2>. HIDE DEF I
  <2>. QED BY <2>2 DEF Single
<1>. HIDE DEF es, list, n
<1>5. es \in Seq([root : R, files : Seq(I)]) /\ DOMAIN es = 1..n
  <2>1. es \in [1..n -> [root : R, files : Seq(I)]]
    BY <1>3, <1>4
  <2>. HIDE DEF R, I
  <2>. QED BY <1>1, <2>1, FunctionIsSeq
<1>6. \A i \in 1..n : /\ es[i].root = NoRoot /\ DOMAIN es[i].files = {1}
                      /\ es[i].files[1].file = list[i].file /\ es[i].files[1].path = <<>>
  <2>1. ASSUME NEW i \in 1..n
        PROVE  /\ es[i].root = NoRoot /\ DOMAIN es[i].files = {1}
               /\ es[i].files[1].file = list[i].file /\ es[i].files[1].path = <<>>
    <3>1. PICK e : e = es[i] /\ e = Single(list[i].file)
      BY <1>3
    <3>2. e.root = NoRoot /\ DOMAIN e.files = {1}
          /\ e.files[1] = [file |-> list[i].file, path |-> <<>>]
      BY <1>4, <3>1
    <3>. QED BY <3>1, <3>2
  <2>. QED BY <2>1
<1>7. ASSUME NEW i \in 1..n PROVE Belongs(g, es[i].root, es[i].files[1])
  <2>1. list[i] \in Range(Listed[g])
    BY <1>2 DEF list
  <2>. QED BY <1>1, <1>6, <2>1 DEF Belongs
<1>8. ASSUME NEW f \in FilesOf(g) PROVE \E i \in 1..n : es[i].files[1].file = f
  BY <1>1, <1>6, <1>8 DEF Range
<1>9. Once(es)
  BY <1>1, <1>5, <1>6 DEF Once, Distinct
<1>10. \A i \in 1..n : es[i].files[1].file \in FilesOf(g)
  BY <1>1, <1>2, <1>6
<1>11. /\ \A i \in DOMAIN es : \A k \in DOMAIN es[i].files :
             es[i].files[k].file \in FilesOf(g) /\ Belongs(g, es[i].root, es[i].files[k])
       /\ \A f \in FilesOf(g) : \E i \in DOMAIN es : \E k \in DOMAIN es[i].files :
             es[i].files[k].file = f
  BY <1>5, <1>6, <1>7, <1>8, <1>10
<1>12. \E S, J : es \in Seq([root : S, files : Seq(J)])
  BY <1>5
<1>13. Whole(g, es)
  BY <1>9, <1>11, <1>12 DEF Whole
<1>. QED BY <1>13 DEF es

\* What each node dropped becomes: b is what has been read.
Piece(b, n) ==
  CASE n \in File      -> <<Single(n)>>
    [] n \in Directory -> <<[root |-> n, files |-> b[n]]>>
    [] OTHER           -> <<>>

Pieces(b, g) == [i \in DOMAIN Items[g] |-> Piece(b, Items[g][i])]

DropEntry == [root : Directory \cup {NoRoot}, files : Seq(Item)]

\* The entry e is what the node n becomes.
FromNode(b, n, e) ==
  \/ /\ n \in File /\ e.root = NoRoot /\ DOMAIN e.files = {1}
     /\ e.files[1].file = n /\ e.files[1].path = <<>>
  \/ n \in Directory /\ e.root = n /\ e.files = b[n]

LEMMA PieceTyped ==
  ASSUME NEW b \in [Directory -> Seq(Item)], NEW n
  PROVE  /\ Piece(b, n) \in Seq(DropEntry)
         /\ n \in File \cup Directory => /\ DOMAIN Piece(b, n) = {1}
                                         /\ FromNode(b, n, Piece(b, n)[1])
         /\ n \notin File \cup Directory => DOMAIN Piece(b, n) = {}
<1>1. CASE n \in File
  <2>. DEFINE item == [file |-> n, path |-> <<>>]
  <2>1. item \in Item /\ item.file = n /\ item.path = <<>>
    BY <1>1, EmptySeq DEF Item
  <2>. HIDE DEF item
  <2>2. <<item>> \in Seq(Item) /\ DOMAIN <<item>> = {1} /\ <<item>>[1] = item
    BY <2>1
  <2>. DEFINE e == [root |-> NoRoot, files |-> <<item>>]
  <2>3. e \in DropEntry /\ e.root = NoRoot /\ e.files = <<item>>
    BY <2>2 DEF DropEntry
  <2>4. n \notin Directory
    BY <1>1, TreeAssumption
  <2>5. Single(n) = e
    BY DEF Single, item
  <2>. HIDE DEF e
  <2>6. Piece(b, n) = <<e>>
    BY <1>1, <2>4, <2>5 DEF Piece
  <2>7. FromNode(b, n, e)
    BY <1>1, <2>1, <2>2, <2>3 DEF FromNode
  <2>. QED BY <1>1, <2>3, <2>6, <2>7
<1>2. CASE n \in Directory
  <2>. DEFINE e == [root |-> n, files |-> b[n]]
  <2>1. e \in DropEntry /\ e.root = n /\ e.files = b[n]
    BY <1>2 DEF DropEntry
  <2>2. n \notin File
    BY <1>2, TreeAssumption
  <2>3. Piece(b, n) = <<e>>
    BY <1>2, <2>2 DEF Piece
  <2>. HIDE DEF e
  <2>4. FromNode(b, n, e)
    BY <1>2, <2>1 DEF FromNode
  <2>. QED BY <1>2, <2>1, <2>3, <2>4
<1>3. CASE n \notin File \cup Directory
  <2>1. Piece(b, n) = <<>>
    BY <1>3 DEF Piece
  <2>. QED BY <1>3, <2>1, EmptySeq
<1>. QED BY <1>1, <1>2, <1>3

\* at tells for each entry of r which node it comes from.
Taken(b, g, r, at) ==
  /\ \A m \in DOMAIN r : at[m] \in DOMAIN Items[g] /\ FromNode(b, Items[g][at[m]], r[m])
  /\ \A m, l \in DOMAIN r : at[m] = at[l] => m = l
  /\ \A i \in DOMAIN Items[g] : Items[g][i] \in File \cup Directory =>
       \E m \in DOMAIN r : at[m] = i

LEMMA UsableTaken ==
  ASSUME NEW b \in [Directory -> Seq(Item)], NEW g \in Gesture
  PROVE  /\ FlattenSeq(Pieces(b, g)) \in Seq(DropEntry)
         /\ \E at : Taken(b, g, FlattenSeq(Pieces(b, g)), at)
<1>. DEFINE n == Len(Items[g])
            s == Pieces(b, g)
            r == FlattenSeq(s)
<1>1. n \in Nat /\ DOMAIN Items[g] = 1..n
  BY TreeAssumption, LenProperties
<1>2. \A i \in 1..n : s[i] = Piece(b, Items[g][i]) /\ s[i] \in Seq(DropEntry)
  BY <1>1, PieceTyped DEF Pieces
<1>3. s \in Seq(Seq(DropEntry)) /\ Len(s) = n /\ DOMAIN s = 1..n
  <2>1. s \in [1..n -> Seq(DropEntry)]
    BY <1>1, <1>2 DEF Pieces
  <2>. HIDE DEF s, n
  <2>. QED BY <1>1, <2>1, FunctionIsSeq
<1>. HIDE DEF s
<1>4. r \in Seq(DropEntry) /\ \E at : Laid(s, n, r, at)
  <2>. HIDE DEF n
  <2>. QED BY <1>3, Flattened
<1>5. PICK at : Laid(s, n, r, at)
  BY <1>4
<1>. DEFINE to == [m \in DOMAIN r |-> at[m][1]]
<1>6. ASSUME NEW i \in 1..n, NEW j \in DOMAIN s[i]
      PROVE  /\ Items[g][i] \in File \cup Directory /\ j = 1
             /\ FromNode(b, Items[g][i], s[i][j])
  BY <1>2, PieceTyped
<1>. HIDE DEF r
<1>7. ASSUME NEW m \in DOMAIN r
      PROVE  /\ to[m] \in 1..n /\ at[m] = <<to[m], 1>>
             /\ FromNode(b, Items[g][to[m]], r[m])
  <2>1. at[m] = <<at[m][1], at[m][2]>> /\ at[m][1] \in 1..n /\ at[m][2] \in DOMAIN s[at[m][1]]
        /\ r[m] = s[at[m][1]][at[m][2]]
    BY <1>3, <1>5 DEF Laid, Places
  <2>2. at[m][2] = 1 /\ FromNode(b, Items[g][at[m][1]], r[m])
    BY <1>6, <2>1
  <2>. QED BY <2>1, <2>2
<1>. HIDE DEF to
<1>8. ASSUME NEW m \in DOMAIN r, NEW l \in DOMAIN r, to[m] = to[l] PROVE m = l
  <2>1. at[m] = at[l]
    BY <1>7, <1>8
  <2>. QED BY <1>5, <2>1 DEF Laid
<1>9. ASSUME NEW i \in 1..n, Items[g][i] \in File \cup Directory
      PROVE  \E m \in DOMAIN r : to[m] = i
  <2>1. 1 \in DOMAIN s[i] /\ i \in Nat /\ i <= n
    BY <1>1, <1>2, <1>9, PieceTyped
  <2>2. <<i, 1>> \in Places(s)
    BY <1>3, <2>1 DEF Places
  <2>3. PICK m \in DOMAIN r : at[m] = <<i, 1>>
    BY <1>5, <2>1, <2>2 DEF Laid
  <2>. QED BY <1>7, <2>3
<1>10. Taken(b, g, r, to)
  BY <1>1, <1>7, <1>8, <1>9 DEF Taken
<1>. QED BY <1>4, <1>10 DEF r, s

\* Everything that a drop has to read has been read.
AllRead(g) == \A d \in DirectoriesOf[g] : got[d] = Len(Children[d])

Dropping(g) == Range(Items[g]) \cap Directory

LEMMA DirectoriesBelow ==
  ASSUME NEW g \in Gesture
  PROVE  /\ DirectoriesOf[g] = UNION {Under[d] : d \in Dropping(g)}
         /\ DirectoriesOf[g] \subseteq Directory
BY UnderTyped DEF DirectoriesOf, Dropping

\* Directories that are dropped side by side have nothing in common.
LEMMA ApartDropped ==
  ASSUME NEW g \in Gesture, NEW b \in Dropping(g), NEW c \in Dropping(g), NEW e,
         e \in Under[b], e \in Under[c]
  PROVE  b = c
<1>1. PICK rank : Ranked(rank)
  BY Ranks
<1>2. ASSUME NEW x \in Dropping(g), NEW y \in Dropping(g), x \in Under[y], x # y PROVE FALSE
  <2>1. y \in Directory
    BY DEF Dropping
  <2>2. PICK p \in Under[y] : x \in Inside(p)
    BY <1>1, <1>2, <2>1, UnderRanks
  <2>3. p \in Directory
    BY <2>1, <2>2, UnderTyped
  <2>. QED BY <2>2, <2>3, TreeAssumption DEF Dropping, Inside
<1>3. b \in Directory /\ c \in Directory /\ e \in Directory
  BY UnderTyped DEF Dropping
<1>4. b \in Under[c] \/ c \in Under[b]
  BY <1>3, UnderMeets
<1>. QED BY <1>2, <1>4

LEMMA NodesWhole ==
  ASSUME ReadOK, NEW b, b = Below, NEW g \in Gesture, ~TakesList(g), AllRead(g),
         NEW es \in Seq(DropEntry), NEW at, Taken(b, g, es, at)
  PROVE  Whole(g, es)
<1>1. /\ DOMAIN Items[g] \subseteq Nat
      /\ \A i \in DOMAIN Items[g] : Items[g][i] \in Range(Items[g])
      /\ \A n \in Range(Items[g]) : \E i \in DOMAIN Items[g] : n = Items[g][i]
      /\ \A i, j \in DOMAIN Items[g] : Items[g][i] = Items[g][j] => i = j
  <2>1. Items[g] \in Seq(Range(Items[g]))
    BY TreeAssumption
  <2>2. DOMAIN Items[g] \subseteq Nat
    BY <2>1, LenProperties
  <2>3. \A i, j \in DOMAIN Items[g] : Items[g][i] = Items[g][j] => i = j
    BY TreeAssumption
  <2>. QED BY <2>2, <2>3 DEF Range
<1>2. /\ \A d \in Directory : BelowOK(b, d)
      /\ \A d \in Dropping(g) : d \in Directory /\ Under[d] \subseteq DirectoriesOf[g]
  BY BelowRight, DirectoriesBelow DEF Dropping
<1>3. FilesOf(g) = File \cap (Range(Items[g]) \cup UNION {Range(Children[d]) : d \in DirectoriesOf[g]})
  BY DEF FilesOf
<1>4. ASSUME NEW i \in DOMAIN es, NEW k \in DOMAIN es[i].files
      PROVE  /\ es[i].files[k].file \in FilesOf(g)
             /\ Belongs(g, es[i].root, es[i].files[k])
  <2>1. PICK n \in Range(Items[g]) : FromNode(b, n, es[i])
    BY <1>1 DEF Taken
  <2>2. CASE n \in File
    <3>1. n \notin Directory
      BY <2>2, TreeAssumption
    <3>2. /\ es[i].root = NoRoot /\ es[i].files[k].file = n /\ es[i].files[k].path = <<>>
      BY <2>1, <3>1 DEF FromNode
    <3>. QED BY <1>3, <2>2, <3>2 DEF Belongs
  <2>3. CASE n \in Directory
    <3>1. n \notin File
      BY <2>3, TreeAssumption
    <3>2. es[i].root = n /\ es[i].files = b[n] /\ BelowOK(b, n) /\ n \in Dropping(g)
      BY <1>2, <2>1, <2>3, <3>1 DEF FromNode, Dropping
    <3>3. PICK item : item = es[i].files[k]
      OBVIOUS
    <3>4. /\ item.file \in File /\ Leads(n, item.path, item.file)
          /\ \E e \in Under[n] : item.file \in Range(Children[e])
      BY <3>2, <3>3 DEF BelowOK
    <3>5. item.file \in FilesOf(g)
      BY <1>2, <1>3, <3>2, <3>4
    <3>6. Belongs(g, n, item)
      BY <3>4 DEF Belongs
    <3>. QED BY <3>2, <3>3, <3>5, <3>6
  <2>. QED BY <2>1, <2>2, <2>3 DEF FromNode
<1>5. ASSUME NEW f \in FilesOf(g)
      PROVE  \E i \in DOMAIN es : \E k \in DOMAIN es[i].files : es[i].files[k].file = f
  <2>1. CASE f \in Range(Items[g])
    <3>1. f \in File /\ f \notin Directory
      BY <1>3, <1>5, TreeAssumption
    <3>2. PICK m \in DOMAIN Items[g] : f = Items[g][m]
      BY <1>1, <2>1
    <3>3. PICK i \in DOMAIN es : at[i] = m
      BY <3>1, <3>2 DEF Taken
    <3>4. FromNode(b, f, es[i])
      BY <3>2, <3>3 DEF Taken
    <3>5. 1 \in DOMAIN es[i].files /\ es[i].files[1].file = f
      BY <3>1, <3>4 DEF FromNode
    <3>. QED BY <3>5
  <2>2. CASE f \notin Range(Items[g])
    <3>1. PICK e \in DirectoriesOf[g] : f \in Range(Children[e]) /\ f \in File
      BY <1>3, <1>5, <2>2
    <3>2. PICK d \in Dropping(g) : e \in Under[d]
      BY <3>1, DirectoriesBelow
    <3>3. PICK m \in DOMAIN Items[g] : d = Items[g][m]
      BY <1>1 DEF Dropping
    <3>4. PICK i \in DOMAIN es : at[i] = m
      BY <1>2, <3>3 DEF Taken
    <3>5. FromNode(b, d, es[i]) /\ d \notin File
      BY <1>2, <3>3, <3>4, TreeAssumption DEF Taken
    <3>6. es[i].files = b[d]
      BY <3>5 DEF FromNode
    <3>7. BelowOK(b, d) /\ \A x \in Under[d] : got[x] = Len(Children[x])
      BY <1>2 DEF AllRead
    <3>8. PICK k \in DOMAIN b[d] : b[d][k].file = f
      BY <3>1, <3>2, <3>7 DEF BelowOK
    <3>. QED BY <3>6, <3>8
  <2>. QED BY <2>1, <2>2
<1>6. ASSUME NEW i \in DOMAIN es, NEW j \in DOMAIN es, NEW k \in DOMAIN es[i].files,
             NEW l \in DOMAIN es[j].files, es[i].files[k].file = es[j].files[l].file
      PROVE  i = j /\ k = l
  <2>1. PICK n : n = Items[g][at[i]] /\ n \in Range(Items[g]) /\ FromNode(b, n, es[i])
    BY <1>1 DEF Taken
  <2>2. PICK m : m = Items[g][at[j]] /\ m \in Range(Items[g]) /\ FromNode(b, m, es[j])
    BY <1>1 DEF Taken
  <2>3. n = m => i = j
    <3>1. at[i] \in DOMAIN Items[g] /\ at[j] \in DOMAIN Items[g]
      BY DEF Taken
    <3>2. n = m => at[i] = at[j]
      BY <1>1, <2>1, <2>2, <3>1
    <3>. QED BY <3>2 DEF Taken
  <2>4. ASSUME NEW x \in Range(Items[g]), NEW y \in Range(Items[g]), x \in File,
               y \in Directory, NEW p \in DOMAIN b[y], b[y][p].file = x
        PROVE  FALSE
    <3>1. PICK e \in Under[y] : x \in Range(Children[e])
      BY <1>2, <2>4 DEF BelowOK
    <3>2. e \in Directory
      BY <2>4, <3>1, UnderTyped
    <3>. QED BY <2>4, <3>1, <3>2, TreeAssumption
  <2>5. CASE n \in File /\ m \in File
    <3>1. /\ es[i].files[k].file = n /\ k = 1
          /\ es[j].files[l].file = m /\ l = 1
      BY <2>1, <2>2, <2>5, TreeAssumption DEF FromNode
    <3>. QED BY <1>6, <2>3, <3>1
  <2>6. CASE n \in File /\ m \in Directory
    <3>1. /\ es[i].files[k].file = n /\ es[j].files = b[m]
      BY <2>1, <2>2, <2>6, TreeAssumption DEF FromNode
    <3>. QED BY <1>6, <2>1, <2>2, <2>4, <2>6, <3>1
  <2>7. CASE n \in Directory /\ m \in File
    <3>1. /\ es[j].files[l].file = m /\ es[i].files = b[n]
      BY <2>1, <2>2, <2>7, TreeAssumption DEF FromNode
    <3>. QED BY <1>6, <2>1, <2>2, <2>4, <2>7, <3>1
  <2>8. CASE n \in Directory /\ m \in Directory
    <3>1. /\ es[j].files = b[m] /\ es[i].files = b[n]
          /\ n \in Dropping(g) /\ m \in Dropping(g) /\ BelowOK(b, n) /\ BelowOK(b, m)
      BY <1>2, <2>1, <2>2, <2>8, TreeAssumption DEF FromNode, Dropping
    <3>2. PICK e \in Under[n] : b[n][k].file \in Range(Children[e])
      BY <3>1 DEF BelowOK
    <3>3. PICK h \in Under[m] : b[n][k].file \in Range(Children[h])
      BY <1>6, <3>1 DEF BelowOK
    <3>4. e \in Directory /\ h \in Directory
      BY <2>8, <3>2, <3>3, UnderTyped
    <3>5. e = h
      BY <3>2, <3>3, <3>4, OneParent
    <3>6. n = m
      BY <3>1, <3>2, <3>3, <3>5, ApartDropped
    <3>7. k = l
      BY <1>6, <3>1, <3>6 DEF BelowOK
    <3>. QED BY <2>3, <3>6, <3>7
  <2>. QED BY <2>1, <2>2, <2>5, <2>6, <2>7, <2>8 DEF FromNode
<1>7. \E R, I : es \in Seq([root : R, files : Seq(I)])
  BY DEF DropEntry
<1>8. Once(es)
  BY <1>6 DEF Once
<1>. QED BY <1>4, <1>5, <1>7, <1>8 DEF Whole

\* What is whole is sent, all of it.
LEMMA WholeEntries ==
  ASSUME NEW g \in Gesture, NEW es, Whole(g, es)
  PROVE  Entries(g, es, Len(es))
<1>1. Len(es) \in Nat /\ DOMAIN es = 1..Len(es)
  BY LenProperties DEF Whole
<1>2. Len(es) \in 0..Len(es) /\ \A i \in DOMAIN es : i <= Len(es)
  BY <1>1
<1>3. TakenUp(g) \subseteq FilesOf(g)
  <2>1. CASE Kind[g] = "files"
    BY <2>1 DEF TakenUp, FilesOf, TakesList, Range
  <2>2. CASE Kind[g] # "files"
    BY <2>2 DEF TakenUp
  <2>. QED BY <2>1, <2>2
<1>. QED BY <1>2, <1>3 DEF Whole, Entries

\* Several files chosen without a folder: the first of them is sent.
LEMMA FirstPicked ==
  ASSUME NEW g \in Gesture, Kind[g] = "files", Len(Listed[g]) > 1
  PROVE  Entries(g, PickedEntries(g), Started(g))
<1>. DEFINE list == Listed[g]
            f == list[1].file
            item == [file |-> f, path |-> <<>>]
            R == {NoRoot, 1}
            I == {item}
<1>1. PickedEntries(g) = <<Single(f), NotAFolder>> /\ Started(g) = 1
  BY DEF PickedEntries, Started
<1>2. TakesList(g) /\ 1 \in DOMAIN list /\ list[1] \in Range(list)
  <2>1. Len(list) \in Nat /\ DOMAIN list = 1..Len(list)
    BY ListsOK
  <2>. QED BY <2>1 DEF TakesList, Range
<1>3. TakenUp(g) = {f} /\ f \in FilesOf(g) /\ Belongs(g, NoRoot, item)
  <2>1. TakenUp(g) = {f}
    BY <1>2 DEF TakenUp
  <2>2. f \in FilesOf(g)
    BY <1>2 DEF FilesOf
  <2>3. item.file = f /\ item.path = <<>>
    OBVIOUS
  <2>. HIDE DEF item
  <2>4. Belongs(g, NoRoot, item)
    BY <1>2, <2>3 DEF Belongs
  <2>. QED BY <2>1, <2>2, <2>4
<1>. HIDE DEF f
<1>4. PICK a : a = Single(f)
  OBVIOUS
<1>5. PICK b : b = NotAFolder
  OBVIOUS
<1>6. /\ a \in [root : R, files : Seq(I)] /\ a.root = NoRoot
      /\ DOMAIN a.files = {1} /\ a.files[1] = item
  <2>1. <<item>> \in Seq(I) /\ DOMAIN <<item>> = {1} /\ <<item>>[1] = item
    OBVIOUS
  <2>2. a = [root |-> NoRoot, files |-> <<item>>]
    BY <1>4 DEF Single
  <2>. HIDE DEF item, I
  <2>. QED BY <2>1, <2>2
<1>7. b \in [root : R, files : Seq(I)] /\ DOMAIN b.files = {}
  <2>1. <<>> \in Seq(I) /\ DOMAIN <<>> = {}
    OBVIOUS
  <2>. HIDE DEF I
  <2>. QED BY <1>5, <2>1 DEF NotAFolder
<1>8. PICK es : es = <<a, b>>
  OBVIOUS
<1>9. /\ es \in Seq([root : R, files : Seq(I)]) /\ Len(es) = 2
      /\ DOMAIN es = {1, 2} /\ es[1] = a /\ es[2] = b
  <2>. HIDE DEF R, I
  <2>. QED BY <1>6, <1>7, <1>8
<1>10. item.file = f
  OBVIOUS
<1>. HIDE DEF item, R, I
<1>11. \A i \in DOMAIN es : \A k \in DOMAIN es[i].files :
         i = 1 /\ k = 1 /\ es[i].root = NoRoot /\ es[i].files[k] = item
  BY <1>6, <1>7, <1>9
<1>12. \E i \in DOMAIN es : i <= 1 /\ \E k \in DOMAIN es[i].files : es[i].files[k].file = f
  BY <1>6, <1>9, <1>10
<1>13. Once(es)
  BY <1>11 DEF Once
<1>14. \E S, J : es \in Seq([root : S, files : Seq(J)])
  BY <1>9
<1>15. 1 \in 0..Len(es)
  BY <1>9
<1>16. Entries(g, es, 1)
  BY <1>3, <1>10, <1>11, <1>12, <1>13, <1>14, <1>15 DEF Entries
<1>. QED BY <1>1, <1>4, <1>5, <1>8, <1>16

LEMMA PickedWhole ==
  ASSUME NEW g \in Gesture, Kind[g] # "drop"
  PROVE  Entries(g, PickedEntries(g), Started(g))
<1>1. Kind[g] \in {"files", "folder", "drop"} /\ TakesList(g)
  BY ClientAssumption DEF TakesList
<1>2. CASE Kind[g] = "files" /\ Len(Listed[g]) > 1
  BY <1>2, FirstPicked
<1>3. CASE Kind[g] = "files" /\ ~(Len(Listed[g]) > 1)
  <2>1. Started(g) = Len(PickedEntries(g))
    BY <1>3 DEF Started
  <2>. QED BY <1>3, <2>1, FilePickedWhole, WholeEntries
<1>4. CASE Kind[g] = "folder"
  <2>1. PickedEntries(g) = EntriesFromFiles(Listed[g]) /\ Started(g) = Len(PickedEntries(g))
    BY <1>4 DEF PickedEntries, Started
  <2>2. Whole(g, EntriesFromFiles(Listed[g]))
    BY <1>1, <1>4, FolderListWhole
  <2>. QED BY <2>1, <2>2, WholeEntries
<1>. QED BY <1>1, <1>2, <1>3, <1>4

\* The list has paths if and only if an entry made of it has a root.
LEMMA RootsOfList ==
  ASSUME NEW g \in Gesture, NEW es, es = EntriesFromFiles(Listed[g])
  PROVE  /\ ~TakesList(g) => \A i \in DOMAIN es : es[i].root = NoRoot
         /\ TakesList(g) /\ (\E x \in Range(Listed[g]) : Len(x.parts) > 1) =>
              \E i \in DOMAIN es : es[i].root # NoRoot
<1>. DEFINE list == Listed[g]
            n == Len(list)
<1>1. Grouped(list, n, es) /\ n \in Nat /\ DOMAIN list = 1..n
  BY ListsOK, EntriesGrouped
<1>2. \A m \in 1..n : list[m] \in Range(list) /\ Len(list[m].parts) \in Nat
  BY <1>1, ListsOK DEF Range
<1>3. ASSUME ~TakesList(g), NEW i \in DOMAIN es PROVE es[i].root = NoRoot
  <2>1. PICK k \in DOMAIN es[i].files : TRUE
    BY <1>1 DEF Grouped
  <2>2. PICK m \in 1..n : BecomesItem(list[m], es[i].root, es[i].files[k])
    BY <1>1 DEF Grouped
  <2>3. ~(Len(list[m].parts) > 1) /\ Len(list[m].parts) \in Nat
    BY <1>2, <1>3 DEF TakesList
  <2>4. Len(list[m].parts) < 2
    BY <2>3
  <2>. QED BY <2>2, <2>4 DEF BecomesItem
<1>4. ASSUME TakesList(g), NEW x \in Range(list), Len(x.parts) > 1
      PROVE  \E i \in DOMAIN es : es[i].root # NoRoot
  <2>1. PICK m \in 1..n : x = list[m]
    BY <1>1 DEF Range
  <2>2. PICK i \in DOMAIN es : \E k \in DOMAIN es[i].files : es[i].files[k].file = x.file
    BY <1>1, <2>1 DEF Grouped
  <2>3. PICK k \in DOMAIN es[i].files : es[i].files[k].file = x.file
    BY <2>2
  <2>4. PICK l \in 1..n : BecomesItem(list[l], es[i].root, es[i].files[k])
    BY <1>1 DEF Grouped
  <2>5. list[l] = x
    <3>1. Distinct(list)
      BY <1>4, ListsOK
    <3>2. list[l].file = list[m].file
      BY <2>1, <2>3, <2>4 DEF BecomesItem
    <3>. QED BY <1>1, <2>1, <3>1, <3>2 DEF Distinct
  <2>6. ~(Len(x.parts) < 2)
    BY <1>2, <1>4, <2>1
  <2>. QED BY <2>4, <2>5, <2>6 DEF BecomesItem
<1>. QED BY <1>3, <1>4

LEMMA DroppedWhole ==
  ASSUME ReadOK, NEW g \in Gesture, Kind[g] = "drop", AllRead(g)
  PROVE  Whole(g, DroppedEntries(g))
<1>1. PICK b : b = Below /\ b \in [Directory -> Seq(Item)]
  BY BelowTyped
<1>2. PICK usable : usable = FlattenSeq(Pieces(b, g)) /\ usable \in Seq(DropEntry)
                    /\ \E at : Taken(b, g, usable, at)
  BY <1>1, UsableTaken
<1>3. PICK at : Taken(b, g, usable, at)
  BY <1>2
<1>4. PICK listed : listed = EntriesFromFiles(Listed[g])
  OBVIOUS
<1>5. DroppedEntries(g) = IF (\E i \in DOMAIN listed : listed[i].root # NoRoot) \/ usable = <<>>
                            THEN listed ELSE usable
  BY <1>1, <1>2, <1>4 DEF DroppedEntries, Pieces, Piece
<1>6. CASE TakesList(g)
  <2>1. \/ Range(Items[g]) \cap (File \cup Directory) = {}
        \/ \E x \in Range(Listed[g]) : Len(x.parts) > 1
    BY <1>6 DEF TakesList
  <2>2. Range(Items[g]) \cap (File \cup Directory) = {} => usable = <<>>
    <3>1. ASSUME Range(Items[g]) \cap (File \cup Directory) = {}, NEW m \in DOMAIN usable
          PROVE  FALSE
      <4>1. at[m] \in DOMAIN Items[g] /\ FromNode(b, Items[g][at[m]], usable[m])
        BY <1>3 DEF Taken
      <4>2. Items[g][at[m]] \in Range(Items[g]) /\ Items[g][at[m]] \in File \cup Directory
        BY <4>1 DEF FromNode, Range
      <4>. QED BY <3>1, <4>2
    <3>2. DOMAIN usable = {} => usable = <<>>
      <4>1. Len(usable) \in Nat /\ DOMAIN usable = 1..Len(usable)
        BY <1>2, LenProperties
      <4>2. DOMAIN usable = {} => Len(usable) = 0
        BY <4>1
      <4>. QED BY <1>2, <4>2, EmptySeq
    <3>. QED BY <3>1, <3>2
  <2>3. DroppedEntries(g) = listed
    BY <1>4, <1>5, <1>6, <2>1, <2>2, RootsOfList
  <2>. QED BY <1>4, <1>6, <2>3, FolderListWhole
<1>7. CASE ~TakesList(g)
  <2>1. ~(\E i \in DOMAIN listed : listed[i].root # NoRoot)
    BY <1>4, <1>7, RootsOfList
  <2>2. usable # <<>>
    <3>1. PICK n \in Range(Items[g]) : n \in File \cup Directory
      BY <1>7 DEF TakesList
    <3>2. PICK i \in DOMAIN Items[g] : n = Items[g][i]
      BY DEF Range
    <3>3. PICK m \in DOMAIN usable : at[m] = i
      BY <1>3, <3>1, <3>2 DEF Taken
    <3>4. DOMAIN <<>> = {}
      OBVIOUS
    <3>. QED BY <3>3, <3>4
  <2>3. DroppedEntries(g) = usable
    BY <1>5, <2>1, <2>2
  <2>4. Whole(g, usable)
    BY <1>1, <1>2, <1>3, <1>7, NodesWhole
  <2>. QED BY <2>3, <2>4
<1>. QED BY <1>6, <1>7

-----------------------------------------------------------------------------
(* The inductive invariant.                                                *)

States == {"none", "reading", "queued", "unreadable"}

Line == [of : Nat, at : {"idle", "sent", "serving", "answered"}, stored : Nat,
         status : {"none", "201", "400", "413", "429", "500"}, heard : BOOLEAN]

\* Only what is dropped has to be read.
Staged ==
  /\ stage \in [Gesture -> States]
  /\ \A g \in Gesture : stage[g] = "reading" => Kind[g] = "drop"

\* The sequences are as long as the queue, and the functions total.
Typed ==
  /\ queue \in Seq(Range(queue)) /\ Staged
  /\ shown \in Seq({"sending", "failed", "done"}) /\ Len(shown) = Len(queue)
  /\ hits \in Seq(Nat) /\ Len(hits) = Len(queue)
  /\ waiting \in Seq(Nat) /\ line \in [Conn -> Line] /\ copies \in [File -> Nat]

\* What is known of what has been read.
ReadRight ==
  /\ ReadOK /\ closed \subseteq Directory
  /\ \A d \in closed : got[d] = Len(Children[d])

\* Every entry is one of a gesture that is queued, and files of its are where
\* they belong, all of them, and each once in the queue.
Queued ==
  /\ \A i \in DOMAIN queue :
       /\ queue[i].by \in Gesture /\ stage[queue[i].by] = "queued"
       /\ \E I : queue[i].files \in Seq(I)
       /\ \A k \in DOMAIN queue[i].files :
            /\ queue[i].files[k].file \in FilesOf(queue[i].by)
            /\ Belongs(queue[i].by, queue[i].root, queue[i].files[k])
  /\ Once(queue)
  /\ \A g \in Gesture : stage[g] = "queued" =>
       \A f \in TakenUp(g) : \E i \in DOMAIN queue :
         queue[i].by = g /\ queue[i].sent /\ \E k \in DOMAIN queue[i].files : queue[i].files[k].file = f

\* Nothing is stored that was not queued.
Stocked ==
  \A f \in File : copies[f] # 0 =>
    \E i \in DOMAIN queue : \E k \in DOMAIN queue[i].files : queue[i].files[k].file = f

\* The files of an entry, and those of them that a connection has seen stored.
AllStored(i) ==
  /\ DOMAIN queue[i].files # {}
  /\ \A k \in DOMAIN queue[i].files : copies[queue[i].files[k].file] > 0

LineOK(c) ==
  /\ line[c].of = 0 <=> line[c].at = "idle"
  /\ line[c].of = 0 => line[c] = Idle
  /\ line[c].of # 0 => line[c].of \in DOMAIN queue
  /\ line[c].at = "answered" => line[c].heard
  /\ line[c].at = "sent" => line[c].stored = 0
  /\ line[c].at = "serving" => \A k \in DOMAIN queue[line[c].of].files :
       k <= line[c].stored => copies[queue[line[c].of].files[k].file] > 0
  /\ line[c].at = "answered" /\ line[c].status = "201" => AllStored(line[c].of)

\* The entry whose answer is heard on the connection c.
On(c) == IF line[c].heard THEN line[c].of ELSE 0

\* What is sent and shows itself so is waiting, or on a connection, once; what
\* is not sent shows itself as being sent for ever.
Tracked ==
  /\ \A b, c \in Conn : On(b) = On(c) /\ On(b) # 0 => b = c
  /\ \A k, l \in DOMAIN waiting : waiting[k] = waiting[l] => k = l
  /\ \A k \in DOMAIN waiting : waiting[k] \in DOMAIN queue /\ \A c \in Conn : On(c) # waiting[k]
  /\ \A i \in DOMAIN queue : ~queue[i].sent => shown[i] = "sending"
  /\ \A i \in DOMAIN queue : queue[i].sent /\ shown[i] = "sending" <=>
       (\E k \in DOMAIN waiting : waiting[k] = i) \/ (\E c \in Conn : On(c) = i)

\* The requests that may still store the k-th file of the entry i, also those
\* that nobody hears of any more.
Pending(i, k) ==
  {c \in Conn : line[c].of = i /\ line[c].at \in {"sent", "serving"} /\ line[c].stored < k}

\* The entry i may be sent once more without another failure.
Owes(i) ==
  \/ shown[i] = "failed"
  \/ \E k \in DOMAIN waiting : waiting[k] = i
  \/ \E c \in Conn : line[c].of = i /\ line[c].at = "answered" /\ line[c].status # "201"

\* Copies there are, and may be, of the k-th file of the entry i.
Load(i, k) ==
  copies[queue[i].files[k].file] + Cardinality(Pending(i, k)) + (IF Owes(i) THEN 1 ELSE 0)

\* One, and one for each failure.
Budget == \A i \in DOMAIN queue : \A k \in DOMAIN queue[i].files : Load(i, k) <= 1 + hits[i]

Done == \A i \in DOMAIN queue : shown[i] = "done" => AllStored(i)

ClientInv ==
  /\ Typed /\ ReadRight /\ Queued /\ Stocked /\ (\A c \in Conn : LineOK(c))
  /\ Tracked /\ Budget /\ Done

LEMMA QueueFacts ==
  ASSUME Typed
  PROVE  /\ Len(queue) \in Nat /\ DOMAIN queue = 1..Len(queue) /\ 0 \notin DOMAIN queue
         /\ DOMAIN queue \subseteq Nat
         /\ DOMAIN shown = DOMAIN queue /\ DOMAIN hits = DOMAIN queue
         /\ \A i \in DOMAIN queue : shown[i] \in {"sending", "failed", "done"} /\ hits[i] \in Nat
         /\ Len(waiting) \in Nat /\ DOMAIN waiting = 1..Len(waiting)
         /\ \A k \in DOMAIN waiting : waiting[k] \in Nat
<1>1. Len(queue) \in Nat /\ DOMAIN queue = 1..Len(queue)
  BY LenProperties DEF Typed
<1>2. shown \in [1..Len(queue) -> {"sending", "failed", "done"}]
  BY LenProperties DEF Typed
<1>3. hits \in [1..Len(queue) -> Nat]
  BY LenProperties DEF Typed
<1>4. Len(waiting) \in Nat /\ waiting \in [1..Len(waiting) -> Nat]
  BY LenProperties DEF Typed
<1>. QED BY <1>1, <1>2, <1>3, <1>4

LEMMA LineFacts ==
  ASSUME Typed, NEW c \in Conn
  PROVE  /\ line[c].of \in Nat /\ line[c].stored \in Nat /\ line[c].heard \in BOOLEAN
         /\ line[c].at \in {"idle", "sent", "serving", "answered"}
         /\ line[c].status \in {"none", "201", "400", "413", "429", "500"}
         /\ line[c] \in Line /\ On(c) \in Nat
         /\ Idle \in Line /\ Idle.of = 0 /\ Idle.at = "idle" /\ Idle.heard
<1>1. line[c] \in Line
  BY DEF Typed
<1>2. Idle \in Line /\ Idle.of = 0 /\ Idle.at = "idle" /\ Idle.heard
  BY DEF Line, Idle
<1>. QED BY <1>1, <1>2 DEF Line, On

LEMMA PendingCounts ==
  ASSUME NEW i, NEW k
  PROVE  IsFiniteSet(Pending(i, k)) /\ Cardinality(Pending(i, k)) \in Nat
<1>1. Pending(i, k) \subseteq Conn /\ IsFiniteSet(Conn)
  BY ClientAssumption DEF Pending
<1>. QED BY <1>1, FS_Subset, FS_CardinalityType

\* The files of a gesture are its own.
LEMMA FilesTyped ==
  ASSUME NEW g \in Gesture
  PROVE  FilesOf(g) \subseteq File
BY ListAssumption DEF FilesOf

LEMMA FilesOwned ==
  \E owner : \A g \in Gesture : \A f \in FilesOf(g) : owner[f] = g
<1>1. PICK owner \in [File \cup Directory -> Gesture] :
        /\ \A d \in Directory : \A c \in Range(Children[d]) \cap DOMAIN owner : owner[c] = owner[d]
        /\ \A g \in Gesture :
             /\ \A n \in Range(Items[g]) \cap DOMAIN owner : owner[n] = g
             /\ TakesList(g) => \A x \in Range(Listed[g]) : owner[x.file] = g
  BY OwnerAssumption
<1>2. DOMAIN owner = File \cup Directory
  BY <1>1
<1>3. PICK rank : Ranked(rank)
  BY Ranks
<1>4. rank \in [Directory -> 1..Cardinality(Directory)] /\ Cardinality(Directory) \in Nat
  BY <1>3, Ranks DEF Ranked
<1>5. \A d \in Directory : \A e \in Under[d] : owner[e] = owner[d]
  <2>. DEFINE T == {d \in Directory : \A e \in Under[d] : owner[e] = owner[d]}
  <2>1. ASSUME NEW d \in Directory, \A c \in Directory : rank[c] < rank[d] => c \in T
        PROVE  d \in T
    <3>1. ASSUME NEW e \in Under[d], e # d PROVE owner[e] = owner[d]
      <4>1. PICK c \in Inside(d) : e \in Under[c]
        BY <3>1, UnderTyped
      <4>2. c \in Directory /\ rank[c] < rank[d] /\ c \in Range(Children[d])
        BY <1>3, <4>1 DEF Ranked, Inside
      <4>3. owner[e] = owner[c]
        BY <2>1, <4>1, <4>2
      <4>4. owner[c] = owner[d]
        BY <1>1, <1>2, <4>2
      <4>. QED BY <4>3, <4>4
    <3>. QED BY <3>1
  <2>. HIDE DEF T
  <2>2. Directory \subseteq T
    BY <1>4, <2>1, RankInduction DEF Inherited
  <2>. QED BY <2>2 DEF T
<1>6. ASSUME NEW g \in Gesture, NEW d \in DirectoriesOf[g] PROVE d \in Directory /\ owner[d] = g
  <2>1. PICK e \in Dropping(g) : d \in Under[e]
    BY DirectoriesBelow
  <2>2. e \in Directory /\ e \in Range(Items[g])
    BY DEF Dropping
  <2>3. owner[d] = owner[e] /\ d \in Directory
    BY <1>5, <2>1, <2>2, UnderTyped
  <2>4. owner[e] = g
    BY <1>1, <1>2, <2>2
  <2>. QED BY <2>3, <2>4
<1>7. ASSUME NEW g \in Gesture, NEW f \in FilesOf(g) PROVE owner[f] = g
  <2>1. CASE TakesList(g)
    BY <1>1, <2>1 DEF FilesOf
  <2>2. CASE ~TakesList(g)
    <3>1. f \in DOMAIN owner /\ f \in Range(Items[g]) \cup UNION {Range(Children[d]) : d \in DirectoriesOf[g]}
      BY <1>2, <2>2 DEF FilesOf
    <3>2. CASE f \in Range(Items[g])
      BY <1>1, <3>1, <3>2
    <3>3. CASE \E d \in DirectoriesOf[g] : f \in Range(Children[d])
      <4>1. PICK d \in DirectoriesOf[g] : f \in Range(Children[d])
        BY <3>3
      <4>2. d \in Directory /\ owner[d] = g
        BY <1>6
      <4>. QED BY <1>1, <3>1, <4>1, <4>2
    <3>. QED BY <3>1, <3>2, <3>3
  <2>. QED BY <2>1, <2>2
<1>. QED BY <1>7

LEMMA InvImplies ==
  ASSUME ClientInv
  PROVE  ClientTypeOK /\ GestureWhole /\ UploadedIsStored /\ CopiesExplained
<1>. USE DEF ClientInv
<1>1. ClientTypeOK
  <2>1. ASSUME NEW i \in DOMAIN queue
        PROVE  Cardinality({c \in Conn : line[c].of = i /\ line[c].heard})
                 + Cardinality({k \in DOMAIN waiting : waiting[k] = i})
                 = IF queue[i].sent /\ shown[i] = "sending" THEN 1 ELSE 0
    <3>. DEFINE under == {c \in Conn : line[c].of = i /\ line[c].heard}
                unsent == {k \in DOMAIN waiting : waiting[k] = i}
    <3>1. i # 0
      BY QueueFacts
    <3>2. \A c \in Conn : c \in under <=> On(c) = i
      BY <3>1 DEF On
    <3>3. /\ \A b, c \in under : b = c
          /\ \A k, l \in unsent : k = l
          /\ under = {} \/ unsent = {}
          /\ queue[i].sent /\ shown[i] = "sending" <=> under # {} \/ unsent # {}
      BY <3>1, <3>2 DEF Tracked
    <3>. HIDE DEF under, unsent
    <3>4. ASSUME NEW S, \A x, y \in S : x = y
          PROVE  Cardinality(S) = IF S = {} THEN 0 ELSE 1
      <4>1. CASE S = {}
        BY <4>1, FS_EmptySet
      <4>2. CASE S # {}
        <5>1. PICK x : S = {x}
          BY <3>4, <4>2
        <5>. QED BY <4>2, <5>1, FS_Singleton
      <4>. QED BY <4>1, <4>2
    <3>5. Cardinality(under) = (IF under = {} THEN 0 ELSE 1)
          /\ Cardinality(unsent) = IF unsent = {} THEN 0 ELSE 1
      BY <3>3, <3>4
    <3>6. CASE under # {}
      <4>1. Cardinality(under) = 1 /\ Cardinality(unsent) = 0 /\ queue[i].sent /\ shown[i] = "sending"
        BY <3>3, <3>5, <3>6
      <4>2. (IF queue[i].sent /\ shown[i] = "sending" THEN 1 ELSE 0) = 1
        BY <4>1
      <4>. QED BY <4>1, <4>2 DEF under, unsent
    <3>7. CASE unsent # {}
      <4>1. Cardinality(under) = 0 /\ Cardinality(unsent) = 1 /\ queue[i].sent /\ shown[i] = "sending"
        BY <3>3, <3>5, <3>7
      <4>2. (IF queue[i].sent /\ shown[i] = "sending" THEN 1 ELSE 0) = 1
        BY <4>1
      <4>. QED BY <4>1, <4>2 DEF under, unsent
    <3>8. CASE under = {} /\ unsent = {}
      <4>1. Cardinality(under) = 0 /\ Cardinality(unsent) = 0 /\ ~(queue[i].sent /\ shown[i] = "sending")
        BY <3>3, <3>5, <3>8
      <4>2. (IF queue[i].sent /\ shown[i] = "sending" THEN 1 ELSE 0) = 0
        BY <4>1
      <4>. QED BY <4>1, <4>2 DEF under, unsent
    <3>. QED BY <3>6, <3>7, <3>8
  <2>. QED BY <2>1, QueueFacts DEF ClientTypeOK, ReadRight, ReadOK, Tracked
<1>2. GestureWhole
  <2>1. ASSUME NEW g \in Gesture, stage[g] # "queued" PROVE {i \in DOMAIN queue : queue[i].by = g} = {}
    BY <2>1 DEF Queued
  <2>2. ASSUME NEW g \in Gesture, stage[g] = "queued",
               NEW i \in DOMAIN queue, queue[i].by = g, NEW k \in DOMAIN queue[i].files
        PROVE  /\ Belongs(g, queue[i].root, queue[i].files[k])
               /\ \A j \in {j \in DOMAIN queue : queue[j].by = g} :
                    \A l \in DOMAIN queue[j].files :
                      queue[i].files[k].file = queue[j].files[l].file => i = j /\ k = l
    BY <2>2 DEF Queued, Once
  <2>3. ASSUME NEW g \in Gesture, stage[g] = "queued", NEW f \in TakenUp(g)
        PROVE  \E i \in {j \in DOMAIN queue : queue[j].by = g} :
                 queue[i].sent /\ \E k \in DOMAIN queue[i].files : queue[i].files[k].file = f
    BY <2>3 DEF Queued
  <2>. QED BY <2>1, <2>2, <2>3 DEF GestureWhole
<1>3. UploadedIsStored
  <2>1. ASSUME NEW i \in DOMAIN queue, shown[i] = "done"
        PROVE  /\ queue[i].files # <<>>
               /\ \A k \in DOMAIN queue[i].files : copies[queue[i].files[k].file] > 0
    <3>1. AllStored(i) /\ DOMAIN <<>> = {}
      BY <2>1 DEF Done
    <3>. QED BY <3>1 DEF AllStored
  <2>. QED BY <2>1 DEF UploadedIsStored
<1>4. CopiesExplained
  <2>1. ASSUME NEW i \in DOMAIN queue, NEW k \in DOMAIN queue[i].files
        PROVE  copies[queue[i].files[k].file] <= 1 + hits[i]
    <3>. DEFINE n == copies[queue[i].files[k].file]
                p == Cardinality(Pending(i, k))
                o == IF Owes(i) THEN 1 ELSE 0
    <3>1. n + p + o <= 1 + hits[i]
      BY DEF Budget, Load
    <3>2. p \in Nat /\ o \in Nat /\ hits[i] \in Nat
      BY PendingCounts, QueueFacts
    <3>3. n \in Nat
      <4>1. queue[i].files[k].file \in File
        BY FilesTyped DEF Queued
      <4>. QED BY <4>1 DEF Typed
    <3>. HIDE DEF n, p, o
    <3>. QED BY <3>1, <3>2, <3>3 DEF n
  <2>. QED BY <2>1 DEF CopiesExplained
<1>. QED BY <1>1, <1>2, <1>3, <1>4

LEMMA InvInit == ClientInit => ClientInv
<1>. SUFFICES ASSUME ClientInit PROVE ClientInv
  OBVIOUS
<1>1. \A X : <<>> \in Seq(X) /\ DOMAIN <<>> = {} /\ Len(<<>>) = 0
  BY EmptySeq
<1>2. Typed
  <2>1. line \in [Conn -> Line] /\ copies \in [File -> Nat] /\ Staged
    BY DEF ClientInit, Line, Idle, States, Staged
  <2>. QED BY <1>1, <2>1 DEF ClientInit, Typed
<1>3. ReadRight
  <2>1. \A d \in Directory : Len(Children[d]) \in Nat
    BY TreeAssumption, LenProperties
  <2>. QED BY <2>1 DEF ClientInit, ReadRight, ReadOK
<1>4. Queued /\ Stocked
  BY <1>1 DEF ClientInit, Queued, Stocked, Once
<1>5. \A c \in Conn : LineOK(c) /\ On(c) = 0
  BY DEF ClientInit, LineOK, On, Idle
<1>6. Tracked /\ Budget /\ Done
  BY <1>1, <1>5 DEF ClientInit, Tracked, Budget, Done
<1>. QED BY <1>2, <1>3, <1>4, <1>5, <1>6 DEF ClientInv

-----------------------------------------------------------------------------
(* Steps of the connections and the server, which leave the queue alone.   *)

\* At most the request on the connection c changes.
Moves(c) == line' \in [Conn -> Line] /\ \A b \in Conn : b # c => line'[b] = line[b]

\* What is stored stays.
Keeps == queue' = queue /\ copies' \in [File -> Nat] /\ \A f \in File : copies[f] <= copies'[f]

LEMMA FilesQueued ==
  ASSUME ClientInv, NEW i \in DOMAIN queue
  PROVE  /\ Len(queue[i].files) \in Nat /\ DOMAIN queue[i].files = 1..Len(queue[i].files)
         /\ \A k \in DOMAIN queue[i].files :
              /\ k \in Nat /\ k > 0
              /\ queue[i].files[k].file \in File /\ copies[queue[i].files[k].file] \in Nat
<1>1. PICK I : queue[i].files \in Seq(I)
  BY DEF ClientInv, Queued
<1>2. Len(queue[i].files) \in Nat /\ DOMAIN queue[i].files = 1..Len(queue[i].files)
  BY <1>1, LenProperties
<1>3. \A k \in DOMAIN queue[i].files : queue[i].files[k].file \in File
  BY FilesTyped DEF ClientInv, Queued
<1>4. \A k \in DOMAIN queue[i].files : copies[queue[i].files[k].file] \in Nat
  BY <1>3 DEF ClientInv, Typed
<1>. QED BY <1>2, <1>3, <1>4

LEMMA Calm ==
  ASSUME ClientInv, queue' = queue, stage' = stage, got' = got, closed' = closed
  PROVE  ReadRight' /\ Queued'
<1>1. ReadRight'
  BY DEF ClientInv, ReadRight, ReadOK
<1>2. Queued'
  BY DEF ClientInv, Queued, Once
<1>. QED BY <1>1, <1>2

LEMMA StoredStays ==
  ASSUME ClientInv, Keeps, NEW i \in DOMAIN queue, NEW k \in DOMAIN queue[i].files,
         copies[queue[i].files[k].file] > 0
  PROVE  copies'[queue[i].files[k].file] > 0
<1>1. queue[i].files[k].file \in File /\ copies[queue[i].files[k].file] \in Nat
  BY FilesQueued
<1>. DEFINE f == queue[i].files[k].file
<1>2. copies[f] <= copies'[f] /\ copies'[f] \in Nat
  BY <1>1 DEF Keeps
<1>. HIDE DEF f
<1>3. copies[f] > 0 /\ copies[f] \in Nat
  BY <1>1 DEF f
<1>4. copies'[f] > 0
  BY <1>2, <1>3
<1>. QED BY <1>4 DEF f

LEMMA AllStoredStays ==
  ASSUME ClientInv, Keeps, NEW i \in DOMAIN queue, AllStored(i)
  PROVE  AllStored(i)'
<1>1. queue' = queue
  BY DEF Keeps
<1>. QED BY <1>1, StoredStays DEF AllStored

LEMMA Elsewhere ==
  ASSUME ClientInv, Keeps, NEW c \in Conn, Moves(c), NEW b \in Conn, b # c
  PROVE  LineOK(b)' /\ On(b)' = On(b)
<1>1. line'[b] = line[b] /\ queue' = queue
  BY DEF Moves, Keeps
<1>2. LineOK(b)
  BY DEF ClientInv
<1>3. On(b)' = On(b)
  BY <1>1 DEF On
<1>4. line[b].of # 0 => line[b].of \in DOMAIN queue
  BY <1>2 DEF LineOK
<1>5. ASSUME line[b].at = "serving", NEW k \in DOMAIN queue[line[b].of].files, k <= line[b].stored
      PROVE  copies'[queue[line[b].of].files[k].file] > 0
  <2>1. line[b].of \in DOMAIN queue /\ copies[queue[line[b].of].files[k].file] > 0
    BY <1>2, <1>4, <1>5 DEF LineOK
  <2>. QED BY <2>1, StoredStays
<1>6. ASSUME line[b].at = "answered", line[b].status = "201"
      PROVE  AllStored(line[b].of)'
  <2>1. AllStored(line[b].of) /\ line[b].of \in DOMAIN queue
    BY <1>2, <1>4, <1>6 DEF LineOK
  <2>2. PICK i : i = line[b].of
    OBVIOUS
  <2>3. AllStored(i)' /\ line'[b].of = i
    BY <1>1, <2>1, <2>2, AllStoredStays
  <2>. QED BY <1>1, <2>2, <2>3 DEF AllStored
<1>. QED BY <1>1, <1>2, <1>3, <1>5, <1>6 DEF LineOK, AllStored

LEMMA PendingMoves ==
  ASSUME ClientInv, NEW c \in Conn, Moves(c), NEW i, NEW k
  PROVE  /\ Cardinality(Pending(i, k)) \in Nat /\ Cardinality(Pending(i, k)') \in Nat
         /\ (c \in Pending(i, k) <=> c \in Pending(i, k)') =>
               Cardinality(Pending(i, k)') = Cardinality(Pending(i, k))
         /\ c \notin Pending(i, k) /\ c \in Pending(i, k)' =>
               Cardinality(Pending(i, k)') = Cardinality(Pending(i, k)) + 1
         /\ c \in Pending(i, k) /\ c \notin Pending(i, k)' =>
               Cardinality(Pending(i, k)) = Cardinality(Pending(i, k)') + 1
<1>1. \A b \in Conn : b # c => (b \in Pending(i, k) <=> b \in Pending(i, k)')
  BY DEF Pending, Moves
<1>2. Pending(i, k) \subseteq Conn /\ Pending(i, k)' \subseteq Conn
  BY DEF Pending
<1>. DEFINE S == Pending(i, k)
            T == Pending(i, k)'
<1>3. S \ {c} = T \ {c}
  BY <1>1, <1>2
<1>4. IsFiniteSet(S)
  BY PendingCounts
<1>. HIDE DEF S, T
<1>5. /\ Cardinality(S) \in Nat /\ Cardinality(T) \in Nat
      /\ (c \in S <=> c \in T) => T = S
      /\ c \notin S /\ c \in T => Cardinality(T) = Cardinality(S) + 1
      /\ c \in S /\ c \notin T => Cardinality(S) = Cardinality(T) + 1
  BY <1>3, <1>4, SetChange
<1>. QED BY <1>5 DEF S, T

\* The budget holds if no step makes more room in it than it marks a failure.
LEMMA BudgetKept ==
  ASSUME ClientInv, queue' = queue, copies' \in [File -> Nat],
         NEW i \in DOMAIN queue, NEW k \in DOMAIN queue[i].files,
         hits'[i] \in Nat, Cardinality(Pending(i, k)') \in Nat,
         Load(i, k)' + hits[i] <= Load(i, k) + hits'[i]
  PROVE  Load(i, k)' <= 1 + hits'[i]
<1>1. queue[i].files[k].file \in File /\ copies[queue[i].files[k].file] \in Nat
  BY FilesQueued
<1>2. Load(i, k) \in Nat
  BY <1>1, PendingCounts DEF Load
<1>3. copies'[queue[i].files[k].file] \in Nat
  BY <1>1
<1>4. Load(i, k)' \in Nat
  BY <1>3 DEF Load
<1>5. hits[i] \in Nat /\ Load(i, k) <= 1 + hits[i]
  BY QueueFacts DEF ClientInv, Budget
<1>6. \A a, b, h, g \in Nat : b + h <= a + g /\ a <= 1 + h => b <= 1 + g
  OBVIOUS
<1>. QED BY <1>2, <1>4, <1>5, <1>6

Quiet == queue' = queue /\ stage' = stage /\ got' = got /\ closed' = closed

Eases ==
  \A i \in DOMAIN queue : \A k \in DOMAIN queue[i].files :
    Load(i, k)' + hits[i] <= Load(i, k) + hits'[i]

\* The entry i stays or becomes one that may be sent once more.
LEMMA OwesMoves ==
  ASSUME NEW c \in Conn, Moves(c), NEW i, shown'[i] = shown[i], waiting' = waiting,
         Owes(i)', ~Owes(i)
  PROVE  line'[c].of = i /\ line'[c].at = "answered" /\ line'[c].status # "201"
BY DEF Owes, Moves

LEMMA TypesKept ==
  ASSUME ClientInv, Quiet, NEW c \in Conn, Moves(c), Keeps,
         shown' \in Seq({"sending", "failed", "done"}), Len(shown') = Len(shown),
         hits' \in Seq(Nat), Len(hits') = Len(hits), waiting' \in Seq(Nat)
  PROVE  Typed'
BY DEF ClientInv, Typed, Staged, Quiet, Moves, Keeps

LEMMA BudgetEased ==
  ASSUME ClientInv, Quiet, NEW c \in Conn, Moves(c), Keeps, hits' \in Seq(Nat), Len(hits') = Len(hits),
         Eases
  PROVE  Budget'
<1>1. ASSUME NEW i \in DOMAIN queue, NEW k \in DOMAIN queue[i].files
      PROVE  Load(i, k)' <= 1 + hits'[i]
  <2>1. hits' \in [1..Len(hits') -> Nat] /\ i \in 1..Len(hits)
    BY LenProperties, QueueFacts DEF ClientInv, Typed
  <2>2. hits'[i] \in Nat
    BY <2>1
  <2>3. Cardinality(Pending(i, k)') \in Nat
    BY PendingMoves
  <2>. QED BY <2>2, <2>3, BudgetKept DEF Quiet, Eases, Keeps
<1>. QED BY <1>1 DEF Budget, Quiet

\* A step of the server on the connection c.
LEMMA ServerStep ==
  ASSUME ClientInv, Quiet, NEW c \in Conn, Moves(c), Keeps, shown' = shown, waiting' = waiting,
         LineOK(c)', On(c)' = On(c), Stocked', hits' \in Seq(Nat), Len(hits') = Len(hits), Eases
  PROVE  ClientInv'
<1>1. Typed'
  BY TypesKept DEF ClientInv, Typed
<1>2. ReadRight' /\ Queued'
  BY Calm DEF Quiet
<1>3. \A b \in Conn : LineOK(b)' /\ On(b)' = On(b)
  BY Elsewhere
<1>4. Tracked'
  BY <1>3 DEF ClientInv, Tracked, Quiet
<1>5. Budget'
  BY BudgetEased
<1>6. Done'
  <2>1. ASSUME NEW i \in DOMAIN queue, shown'[i] = "done" PROVE AllStored(i)'
    BY <2>1, AllStoredStays DEF ClientInv, Done
  <2>. QED BY <2>1 DEF Done, Quiet
<1>. QED BY <1>1, <1>2, <1>3, <1>4, <1>5, <1>6 DEF ClientInv

Statuses == {"201", "400", "413", "429", "500"}

LEMMA Answered ==
  ASSUME ClientInv, NEW c \in Conn, line[c].at \in {"sent", "serving"}, NEW status \in Statuses,
         Answer(c, status), Quiet, copies' = copies,
         status = "201" => AllStored(line[c].of)
  PROVE  /\ Moves(c) /\ LineOK(c)' /\ On(c)' = On(c) /\ Keeps
         /\ line'[c].at \notin {"sent", "serving"}
         /\ line'[c].at = "answered" => line'[c].of = line[c].of /\ line'[c].status = status
<1>. DEFINE l == IF line[c].heard THEN [line[c] EXCEPT !.at = "answered", !.status = status] ELSE Idle
<1>1. line \in [Conn -> Line] /\ line[c] \in Line /\ Idle \in Line
  BY LineFacts DEF ClientInv, Typed
<1>2. l \in Line
  BY <1>1 DEF Line, Statuses
<1>3. line' = [line EXCEPT ![c] = l]
  BY DEF Answer
<1>4. line'[c] = l /\ Moves(c)
  <2>. HIDE DEF l
  <2>. QED BY <1>1, <1>2, <1>3 DEF Moves
<1>5. Keeps
  <2>1. \A f \in File : copies[f] \in Nat
    BY DEF ClientInv, Typed
  <2>2. \A n \in Nat : n <= n
    OBVIOUS
  <2>. QED BY <2>1, <2>2 DEF ClientInv, Typed, Quiet, Keeps
<1>6. LineOK(c) /\ Idle.of = 0 /\ Idle.at = "idle" /\ Idle.heard
  BY LineFacts DEF ClientInv
<1>7. line[c].of # 0 /\ line[c].of \in DOMAIN queue
  BY <1>6 DEF LineOK
<1>8. CASE line[c].heard
  <2>1. /\ l.of = line[c].of /\ l.at = "answered" /\ l.status = status /\ l.heard
    BY <1>1, <1>8 DEF Line
  <2>2. status = "201" => AllStored(line[c].of)'
    <3>1. PICK i : i = line[c].of
      OBVIOUS
    <3>2. status = "201" => AllStored(i)'
      BY <1>5, <1>7, <3>1, AllStoredStays
    <3>3. line'[c].of = i
      BY <1>4, <2>1, <3>1
    <3>. QED BY <3>1, <3>2, <3>3 DEF AllStored, Quiet
  <2>3. On(c)' = On(c)
    BY <1>4, <1>8, <2>1 DEF On
  <2>4. LineOK(c)'
    BY <1>4, <1>7, <2>1, <2>2 DEF LineOK, Quiet
  <2>. QED BY <1>4, <1>5, <2>1, <2>3, <2>4
<1>9. CASE ~line[c].heard
  <2>1. l = Idle
    BY <1>9
  <2>2. line'[c] = Idle
    BY <1>4, <2>1
  <2>3. LineOK(c)'
    BY <1>6, <2>2 DEF LineOK
  <2>4. On(c)' = On(c)
    BY <1>6, <1>9, <2>2 DEF On
  <2>. QED BY <1>4, <1>5, <1>6, <2>2, <2>3, <2>4
<1>. QED BY <1>1, <1>8, <1>9 DEF Line

LEMMA HitMarked ==
  ASSUME ClientInv, NEW i \in DOMAIN queue, hits' = [hits EXCEPT ![i] = @ + 1]
  PROVE  /\ hits' \in Seq(Nat) /\ Len(hits') = Len(hits)
         /\ \A j \in DOMAIN queue : hits'[j] = IF j = i THEN hits[i] + 1 ELSE hits[j]
<1>1. hits \in Seq(Nat) /\ i \in 1..Len(hits) /\ DOMAIN queue = 1..Len(hits) /\ hits[i] \in Nat
  BY QueueFacts DEF ClientInv, Typed
<1>2. hits[i] + 1 \in Nat
  BY <1>1
<1>3. hits' = [hits EXCEPT ![i] = hits[i] + 1]
  OBVIOUS
<1>. DEFINE n == hits[i] + 1
<1>. HIDE DEF n
<1>4. hits' = [hits EXCEPT ![i] = n] /\ n \in Nat
  BY <1>2, <1>3 DEF n
<1>5. /\ hits' \in Seq(Nat) /\ Len(hits') = Len(hits)
      /\ \A j \in 1..Len(hits) : hits'[j] = IF j = i THEN n ELSE hits[j]
  BY <1>1, <1>4, ExceptSeq
<1>. QED BY <1>1, <1>5 DEF n

LEMMA HitsKept ==
  ASSUME ClientInv, hits' = hits
  PROVE  hits' \in Seq(Nat) /\ Len(hits') = Len(hits)
BY DEF ClientInv, Typed

\* What a step adds to the load of a file, and to the failures of its entry.
LEMMA LoadAdds ==
  ASSUME ClientInv, NEW i \in DOMAIN queue, NEW k \in DOMAIN queue[i].files,
         queue' = queue, copies' \in [File -> Nat],
         NEW c \in Conn, Moves(c), NEW m \in 0..1, hits'[i] = hits[i] + m,
         copies'[queue[i].files[k].file] + Cardinality(Pending(i, k)')
           + (IF Owes(i)' THEN 1 ELSE 0)
           <= copies[queue[i].files[k].file] + Cardinality(Pending(i, k))
                + (IF Owes(i) THEN 1 ELSE 0) + m
  PROVE  Load(i, k)' + hits[i] <= Load(i, k) + hits'[i]
<1>1. queue[i].files[k].file \in File /\ copies[queue[i].files[k].file] \in Nat
  BY FilesQueued
<1>2. copies'[queue[i].files[k].file] \in Nat /\ hits[i] \in Nat
  BY <1>1, QueueFacts DEF ClientInv
<1>3. Cardinality(Pending(i, k)) \in Nat /\ Cardinality(Pending(i, k)') \in Nat
  BY PendingMoves
<1>4. /\ Load(i, k) \in Nat
      /\ Load(i, k) = copies[queue[i].files[k].file] + Cardinality(Pending(i, k))
                        + (IF Owes(i) THEN 1 ELSE 0)
  BY <1>1, <1>3 DEF Load
<1>5. /\ Load(i, k)' \in Nat
      /\ Load(i, k)' = copies'[queue[i].files[k].file] + Cardinality(Pending(i, k)')
                         + (IF Owes(i)' THEN 1 ELSE 0)
  BY <1>2, <1>3 DEF Load
<1>6. Load(i, k)' <= Load(i, k) + m
  BY <1>4, <1>5
<1>7. \A a, b, h, n \in Nat : b <= a + n => b + h <= a + (h + n)
  OBVIOUS
<1>8. Load(i, k)' + hits[i] <= Load(i, k) + (hits[i] + m)
  BY <1>2, <1>4, <1>5, <1>6, <1>7
<1>. QED BY <1>8

LEMMA AnswerStep ==
  ASSUME ClientInv, NEW c \in Conn, line[c].at \in {"sent", "serving"}, NEW status \in Statuses,
         Answer(c, status), Quiet, copies' = copies, shown' = shown, waiting' = waiting,
         status = "201" => AllStored(line[c].of),
         \/ hits' = [hits EXCEPT ![line[c].of] = @ + 1]
         \/ hits' = hits /\ (status = "201" \/ line[c].at = "sent")
  PROVE  ClientInv'
<1>1. /\ Moves(c) /\ LineOK(c)' /\ On(c)' = On(c) /\ Keeps
      /\ line'[c].at \notin {"sent", "serving"}
      /\ line'[c].at = "answered" => line'[c].of = line[c].of /\ line'[c].status = status
  BY Answered
<1>2. PICK of : of = line[c].of
  OBVIOUS
<1>3. LineOK(c) /\ of \in DOMAIN queue
  BY <1>2 DEF ClientInv, LineOK
<1>4. /\ hits' \in Seq(Nat) /\ Len(hits') = Len(hits)
      /\ \E m \in 0..1 : /\ \A j \in DOMAIN queue : hits'[j] = hits[j] + (IF j = of THEN m ELSE 0)
                         /\ m = 0 => status = "201" \/ line[c].at = "sent"
  <2>0. \A j \in DOMAIN queue : hits[j] \in Nat
    BY QueueFacts DEF ClientInv
  <2>1. CASE hits' = [hits EXCEPT ![of] = @ + 1]
    <3>1. /\ hits' \in Seq(Nat) /\ Len(hits') = Len(hits)
          /\ \A j \in DOMAIN queue : hits'[j] = IF j = of THEN hits[of] + 1 ELSE hits[j]
      BY <1>3, <2>1, HitMarked
    <3>2. 1 \in 0..1 /\ \A j \in DOMAIN queue : hits'[j] = hits[j] + (IF j = of THEN 1 ELSE 0)
      BY <1>3, <2>0, <3>1
    <3>. QED BY <3>1, <3>2
  <2>2. CASE hits' = hits /\ (status = "201" \/ line[c].at = "sent")
    <3>1. \A j \in DOMAIN queue : hits'[j] = hits[j] + (IF j = of THEN 0 ELSE 0)
      BY <2>0, <2>2
    <3>2. hits' \in Seq(Nat) /\ Len(hits') = Len(hits) /\ 0 \in 0..1
      BY <2>2, HitsKept
    <3>. QED BY <2>2, <3>1, <3>2
  <2>. QED BY <1>2, <2>1, <2>2
<1>5. PICK m \in 0..1 : /\ \A j \in DOMAIN queue : hits'[j] = hits[j] + (IF j = of THEN m ELSE 0)
                        /\ m = 0 => status = "201" \/ line[c].at = "sent"
  BY <1>4
<1>6. ASSUME NEW i \in DOMAIN queue, NEW k \in DOMAIN queue[i].files
      PROVE  Load(i, k)' + hits[i] <= Load(i, k) + hits'[i]
  <2>. DEFINE n == copies[queue[i].files[k].file]
              p == Cardinality(Pending(i, k))
              q == Cardinality(Pending(i, k)')
              o == IF Owes(i) THEN 1 ELSE 0
              r == IF Owes(i)' THEN 1 ELSE 0
              j == IF i = of THEN m ELSE 0
  <2>1. n \in Nat /\ p \in Nat /\ q \in Nat /\ o \in 0..1 /\ r \in 0..1 /\ j \in 0..1
    BY <1>1, PendingMoves, FilesQueued
  <2>2. c \notin Pending(i, k)'
    BY <1>1 DEF Pending
  <2>3. q <= p /\ (line[c].at = "sent" /\ i = of => p = q + 1)
    <3>1. q = p \/ p = q + 1
      BY <1>1, <2>2, PendingMoves
    <3>2. line[c].at = "sent" /\ i = of => c \in Pending(i, k)
      <4>1. k \in Nat /\ k > 0
        BY FilesQueued
      <4>. QED BY <1>2, <1>3, <4>1 DEF Pending, LineOK
    <3>3. line[c].at = "sent" /\ i = of => p = q + 1
      BY <1>1, <2>2, <3>2, PendingMoves
    <3>4. q <= p
      <4>. HIDE DEF p, q
      <4>. QED BY <2>1, <3>1
    <3>. QED BY <3>3, <3>4
  <2>4. o = 0 /\ r = 1 => i = of /\ status # "201"
    <3>1. Owes(i)' /\ ~Owes(i) => i = of /\ status # "201"
      BY <1>1, <1>2, OwesMoves
    <3>. QED BY <3>1
  <2>5. n + q + r <= n + p + o + j
    <3>1. o = 0 /\ r = 1 => j = 1 \/ p = q + 1
      BY <1>5, <2>3, <2>4
    <3>. HIDE DEF n, p, q, o, r, j
    <3>. QED BY <2>1, <2>3, <3>1
  <2>6. hits'[i] = hits[i] + j
    BY <1>5
  <2>7. copies' \in [File -> Nat] /\ queue' = queue /\ copies' = copies
    BY <1>1 DEF Keeps
  <2>. HIDE DEF j
  <2>. QED BY <1>1, <2>1, <2>5, <2>6, <2>7, LoadAdds
<1>7. Stocked'
  BY DEF ClientInv, Stocked, Quiet
<1>. QED BY <1>1, <1>4, <1>6, <1>7, ServerStep DEF Eases

LEMMA LineMoved ==
  ASSUME ClientInv, NEW c \in Conn, NEW l \in Line, line' = [line EXCEPT ![c] = l]
  PROVE  Moves(c) /\ line'[c] = l
BY DEF ClientInv, Typed, Moves

LEMMA CopiesKept ==
  ASSUME ClientInv, Quiet, copies' = copies
  PROVE  Keeps /\ Stocked'
<1>1. \A f \in File : copies[f] \in Nat
  BY DEF ClientInv, Typed
<1>2. \A n \in Nat : n <= n
  OBVIOUS
<1>3. Keeps
  BY <1>1, <1>2 DEF ClientInv, Typed, Quiet, Keeps
<1>4. Stocked'
  BY DEF ClientInv, Stocked, Quiet
<1>. QED BY <1>3, <1>4

\* A request that goes on, or ends unheard.
LEMMA UnheardStep ==
  ASSUME ClientInv, Quiet, NEW c \in Conn, Moves(c),
         copies' = copies, shown' = shown, waiting' = waiting, hits' = hits,
         LineOK(c)', On(c)' = On(c), line'[c].at # "answered",
         line'[c].at \in {"sent", "serving"} =>
           /\ line[c].at \in {"sent", "serving"}
           /\ line'[c].of = line[c].of /\ line'[c].stored = line[c].stored
  PROVE  ClientInv'
<1>1. ASSUME NEW i \in DOMAIN queue, NEW k \in DOMAIN queue[i].files
      PROVE  Load(i, k)' + hits[i] <= Load(i, k) + hits'[i]
  <2>. DEFINE n == copies[queue[i].files[k].file]
              p == Cardinality(Pending(i, k))
              q == Cardinality(Pending(i, k)')
              o == IF Owes(i) THEN 1 ELSE 0
              r == IF Owes(i)' THEN 1 ELSE 0
  <2>1. n \in Nat /\ p \in Nat /\ q \in Nat /\ o \in 0..1 /\ r \in 0..1
    BY PendingMoves, FilesQueued
  <2>2. c \in Pending(i, k)' => c \in Pending(i, k)
    BY DEF Pending
  <2>3. q = p \/ p = q + 1
    BY <2>2, PendingMoves
  <2>4. Owes(i)' => Owes(i)
    BY OwesMoves
  <2>5. r <= o
    BY <2>4
  <2>6. n + q + r <= n + p + o + 0
    <3>. HIDE DEF n, p, q, o, r
    <3>. QED BY <2>1, <2>3, <2>5
  <2>7. hits'[i] = hits[i] + 0 /\ 0 \in 0..1
    BY QueueFacts DEF ClientInv
  <2>8. copies' \in [File -> Nat] /\ queue' = queue
    BY DEF ClientInv, Typed, Quiet
  <2>. QED BY <2>6, <2>7, <2>8, LoadAdds
<1>2. Keeps /\ Stocked'
  BY CopiesKept
<1>3. hits' \in Seq(Nat) /\ Len(hits') = Len(hits)
  BY HitsKept
<1>. QED BY <1>1, <1>2, <1>3, ServerStep DEF Eases

LEMMA AdmitStep ==
  ASSUME ClientInv, NEW c \in Conn, Admit(c) PROVE ClientInv'
<1>1. Quiet /\ copies' = copies /\ shown' = shown /\ waiting' = waiting /\ hits' = hits
  BY DEF Admit, readVars, pageVars, Quiet
<1>. DEFINE l == [line[c] EXCEPT !.at = "serving"]
<1>2. line[c] \in Line /\ line[c].at = "sent" /\ line' = [line EXCEPT ![c].at = "serving"] /\ LineOK(c)
  BY LineFacts DEF Admit, ClientInv
<1>3. /\ l \in Line /\ l.at = "serving" /\ l.of = line[c].of /\ l.stored = line[c].stored
      /\ l.heard = line[c].heard /\ line' = [line EXCEPT ![c] = l]
  BY <1>2 DEF Line
<1>. HIDE DEF l
<1>4. Moves(c) /\ line'[c] = l
  BY <1>3, LineMoved
<1>5. On(c)' = On(c)
  BY <1>3, <1>4 DEF On
<1>6. line[c].of # 0 /\ line[c].of \in DOMAIN queue /\ line[c].stored = 0
  BY <1>2 DEF LineOK
<1>7. LineOK(c)'
  <2>1. ASSUME NEW k \in DOMAIN queue[line[c].of].files PROVE ~(k <= 0)
    <3>1. k \in Nat /\ k > 0
      BY <1>6, FilesQueued
    <3>. QED BY <3>1
  <2>. QED BY <1>1, <1>3, <1>4, <1>6, <2>1 DEF LineOK, Quiet
<1>. QED BY <1>1, <1>2, <1>3, <1>4, <1>5, <1>7, UnheardStep

LEMMA VanishStep ==
  ASSUME ClientInv, NEW c \in Conn, Vanish(c) PROVE ClientInv'
<1>1. Quiet /\ copies' = copies /\ shown' = shown /\ waiting' = waiting /\ hits' = hits
  BY DEF Vanish, readVars, pageVars, Quiet
<1>2. ~line[c].heard /\ line' = [line EXCEPT ![c] = Idle]
  BY DEF Vanish
<1>3. Idle \in Line /\ Idle.of = 0 /\ Idle.at = "idle" /\ Idle.heard
  BY LineFacts DEF ClientInv
<1>4. Moves(c) /\ line'[c] = Idle
  BY <1>2, <1>3, LineMoved
<1>5. On(c)' = On(c)
  BY <1>2, <1>3, <1>4 DEF On
<1>6. LineOK(c)'
  BY <1>3, <1>4 DEF LineOK
<1>. QED BY <1>1, <1>3, <1>4, <1>5, <1>6, UnheardStep

LEMMA RefuseStep ==
  ASSUME ClientInv, NEW c \in Conn, Refuse(c) PROVE ClientInv'
<1>1. /\ Quiet /\ copies' = copies /\ shown' = shown /\ waiting' = waiting /\ hits' = hits
      /\ line[c].at = "sent" /\ Answer(c, "429")
  BY DEF Refuse, readVars, pageVars, Quiet
<1>2. "429" \in Statuses /\ "429" # "201"
  BY DEF Statuses
<1>. QED BY <1>1, <1>2, AnswerStep

LEMMA FinishStep ==
  ASSUME ClientInv, NEW c \in Conn, Finish(c) PROVE ClientInv'
<1>1. /\ Quiet /\ copies' = copies /\ shown' = shown /\ waiting' = waiting
      /\ line[c].at = "serving" /\ line[c].stored = Len(queue[line[c].of].files)
  BY DEF Finish, readVars, pageVars, Quiet
<1>2. "201" \in Statuses /\ "400" \in Statuses /\ "400" # "201"
  BY DEF Statuses
<1>3. CASE line[c].stored > 0
  <2>1. Answer(c, "201") /\ hits' = hits
    BY <1>3 DEF Finish
  <2>2. LineOK(c) /\ line[c].of \in DOMAIN queue
    BY <1>1 DEF ClientInv, LineOK
  <2>3. DOMAIN queue[line[c].of].files = 1..line[c].stored /\ line[c].stored \in Nat
    BY <1>1, <2>2, FilesQueued
  <2>4. DOMAIN queue[line[c].of].files # {} /\ \A k \in DOMAIN queue[line[c].of].files : k <= line[c].stored
    BY <1>3, <2>3
  <2>5. AllStored(line[c].of)
    BY <1>1, <2>2, <2>4 DEF LineOK, AllStored
  <2>. QED BY <1>1, <1>2, <2>1, <2>5, AnswerStep
<1>4. CASE ~(line[c].stored > 0)
  <2>1. Answer(c, "400") /\ hits' = [hits EXCEPT ![line[c].of] = @ + 1]
    BY <1>4 DEF Finish
  <2>. QED BY <1>1, <1>2, <2>1, AnswerStep
<1>. QED BY <1>3, <1>4

LEMMA TooManyFilesStep ==
  ASSUME ClientInv, NEW c \in Conn, TooManyFiles(c) PROVE ClientInv'
<1>1. /\ Quiet /\ copies' = copies /\ shown' = shown /\ waiting' = waiting
      /\ line[c].at = "serving" /\ Answer(c, "413") /\ hits' = [hits EXCEPT ![line[c].of] = @ + 1]
  BY DEF TooManyFiles, readVars, pageVars, Quiet
<1>2. "413" \in Statuses /\ "413" # "201"
  BY DEF Statuses
<1>. QED BY <1>1, <1>2, AnswerStep

LEMMA ServerFailsStep ==
  ASSUME ClientInv, NEW c \in Conn, ServerFails(c) PROVE ClientInv'
<1>1. /\ Quiet /\ copies' = copies /\ shown' = shown /\ waiting' = waiting
      /\ line[c].at \in {"sent", "serving"} /\ Answer(c, "500")
      /\ hits' = [hits EXCEPT ![line[c].of] = @ + 1]
  BY DEF ServerFails, readVars, pageVars, Quiet
<1>2. "500" \in Statuses /\ "500" # "201"
  BY DEF Statuses
<1>. QED BY <1>1, <1>2, AnswerStep

LEMMA StoreNextStep ==
  ASSUME ClientInv, NEW c \in Conn, StoreNext(c) PROVE ClientInv'
<1>1. PICK of : of = line[c].of
  OBVIOUS
<1>2. PICK n : n = line[c].stored + 1
  OBVIOUS
<1>. DEFINE files == queue[of].files
            f == files[n].file
            l == [line[c] EXCEPT !.stored = n]
<1>3. /\ Quiet /\ shown' = shown /\ waiting' = waiting /\ hits' = hits /\ line[c].at = "serving"
      /\ n <= Len(files) /\ copies' = [copies EXCEPT ![f] = @ + 1]
      /\ line' = [line EXCEPT ![c].stored = n]
  BY <1>1, <1>2 DEF StoreNext, readVars, pageVars, Quiet
<1>4. /\ line[c] \in Line /\ LineOK(c) /\ of \in DOMAIN queue /\ of # 0
      /\ line[c].stored \in Nat /\ n \in Nat /\ n > 0 /\ n # line[c].stored
  <2>1. line[c] \in Line /\ LineOK(c) /\ of \in Nat /\ line[c].stored \in Nat
    BY <1>1, LineFacts DEF ClientInv
  <2>2. of # 0 /\ of \in DOMAIN queue
    BY <1>1, <1>3, <2>1 DEF LineOK
  <2>3. n \in Nat /\ n > 0 /\ n # line[c].stored
    BY <1>2, <2>1
  <2>. QED BY <2>1, <2>2, <2>3
<1>5. n \in DOMAIN files
  <2>1. Len(files) \in Nat /\ DOMAIN files = 1..Len(files)
    BY <1>4, FilesQueued
  <2>. HIDE DEF files
  <2>. QED BY <1>3, <1>4, <2>1
<1>6. f \in File /\ copies[f] \in Nat /\ copies \in [File -> Nat]
  <2>1. f \in File
    BY <1>4, <1>5, FilesQueued
  <2>2. copies \in [File -> Nat]
    BY DEF ClientInv, Typed
  <2>. HIDE DEF f
  <2>. QED BY <2>1, <2>2
<1>7. /\ copies' \in [File -> Nat] /\ copies'[f] = copies[f] + 1
      /\ \A x \in File : x # f => copies'[x] = copies[x]
  <2>1. copies' = [copies EXCEPT ![f] = @ + 1]
    BY <1>3
  <2>. HIDE DEF f
  <2>. QED BY <1>6, <2>1
<1>8. /\ l \in Line /\ l.at = "serving" /\ l.of = of /\ l.stored = n
      /\ l.heard = line[c].heard /\ line' = [line EXCEPT ![c] = l]
  BY <1>1, <1>3, <1>4 DEF Line
<1>9. Moves(c) /\ line'[c] = l
  <2>. HIDE DEF l
  <2>. QED BY <1>8, LineMoved
<1>. HIDE DEF l
<1>10. Keeps
  <2>1. \A x \in File : copies[x] <= copies'[x]
    <3>1. \A x \in File : copies[x] \in Nat
      BY <1>6
    <3>2. \A m \in Nat : m <= m /\ m <= m + 1
      OBVIOUS
    <3>. HIDE DEF f
    <3>. QED BY <1>6, <1>7, <3>1, <3>2
  <2>. QED BY <1>3, <1>7, <2>1 DEF Keeps, Quiet
<1>11. Stocked'
  <2>1. ASSUME NEW x \in File, copies'[x] # 0
        PROVE  \E i \in DOMAIN queue : \E k \in DOMAIN queue[i].files : queue[i].files[k].file = x
    <3>1. CASE x = f
      BY <1>4, <1>5, <3>1
    <3>2. CASE x # f
      BY <1>7, <2>1, <3>2 DEF ClientInv, Stocked
    <3>. QED BY <3>1, <3>2
  <2>. QED BY <1>3, <2>1 DEF Stocked, Quiet
<1>12. On(c)' = On(c)
  BY <1>1, <1>8, <1>9 DEF On
<1>13. LineOK(c)'
  <2>1. ASSUME NEW k \in DOMAIN files, k <= n PROVE copies'[files[k].file] > 0
    <3>1. k \in Nat
      BY <1>4, FilesQueued
    <3>2. CASE k = n
      <4>. HIDE DEF f
      <4>1. copies'[f] > 0
        BY <1>6, <1>7
      <4>. QED BY <3>2, <4>1 DEF f
    <3>3. CASE k # n
      <4>1. k <= line[c].stored
        BY <1>2, <1>4, <2>1, <3>1, <3>3
      <4>2. copies[files[k].file] > 0
        BY <1>1, <1>3, <1>4, <4>1 DEF LineOK
      <4>. QED BY <1>4, <1>10, <4>2, StoredStays
    <3>. QED BY <3>2, <3>3
  <2>. QED BY <1>3, <1>4, <1>8, <1>9, <2>1 DEF LineOK, Quiet
<1>14. ASSUME NEW i \in DOMAIN queue, NEW k \in DOMAIN queue[i].files
       PROVE  Load(i, k)' + hits[i] <= Load(i, k) + hits'[i]
  <2>. DEFINE m == copies[queue[i].files[k].file]
              d == copies'[queue[i].files[k].file]
              p == Cardinality(Pending(i, k))
              q == Cardinality(Pending(i, k)')
              o == IF Owes(i) THEN 1 ELSE 0
              r == IF Owes(i)' THEN 1 ELSE 0
  <2>1. queue[i].files[k].file \in File /\ m \in Nat /\ d \in Nat /\ k \in Nat
    BY <1>7, FilesQueued
  <2>2. p \in Nat /\ q \in Nat /\ o \in 0..1 /\ r \in 0..1
    BY <1>9, PendingMoves
  <2>3. Owes(i)' => Owes(i)
    BY <1>3, <1>8, <1>9, OwesMoves
  <2>4. r <= o
    BY <2>3
  <2>5. ASSUME i = of, k = n PROVE d + q + r <= m + p + o + 0
    <3>1. d = m + 1
      BY <1>7, <2>5
    <3>2. c \in Pending(i, k) /\ c \notin Pending(i, k)'
      <4>1. line[c].stored < n /\ ~(n < n)
        BY <1>2, <1>4
      <4>. QED BY <1>1, <1>3, <1>8, <1>9, <2>5, <4>1 DEF Pending
    <3>3. p = q + 1
      BY <1>9, <3>2, PendingMoves
    <3>. HIDE DEF m, d, p, q, o, r
    <3>. QED BY <2>1, <2>2, <2>4, <3>1, <3>3
  <2>6. ASSUME ~(i = of /\ k = n) PROVE d + q + r <= m + p + o + 0
    <3>1. queue[i].files[k].file # f
      BY <1>4, <1>5, <2>6 DEF ClientInv, Queued, Once
    <3>2. d = m
      BY <1>7, <2>1, <3>1
    <3>3. c \in Pending(i, k)' => c \in Pending(i, k)
      <4>1. n < k => line[c].stored < k
        BY <1>2, <1>4, <2>1
      <4>. QED BY <1>1, <1>3, <1>8, <1>9, <4>1 DEF Pending
    <3>4. q = p \/ p = q + 1
      BY <1>9, <3>3, PendingMoves
    <3>. HIDE DEF m, d, p, q, o, r
    <3>. QED BY <2>1, <2>2, <2>4, <3>2, <3>4
  <2>7. d + q + r <= m + p + o + 0
    BY <2>5, <2>6
  <2>8. hits'[i] = hits[i] + 0 /\ 0 \in 0..1
    BY <1>3, QueueFacts DEF ClientInv
  <2>. QED BY <1>3, <1>7, <1>9, <2>7, <2>8, LoadAdds DEF Quiet
<1>15. hits' \in Seq(Nat) /\ Len(hits') = Len(hits)
  BY <1>3, HitsKept
<1>. QED BY <1>3, <1>9, <1>10, <1>11, <1>12, <1>13, <1>14, <1>15, ServerStep DEF Eases

-----------------------------------------------------------------------------
(* Steps of the page, which leave what is stored alone.                    *)

Shown == {"sending", "failed", "done"}

LEMMA ShownSet ==
  ASSUME ClientInv, NEW i \in DOMAIN queue, NEW s \in Shown, shown' = [shown EXCEPT ![i] = s]
  PROVE  /\ shown' \in Seq(Shown) /\ Len(shown') = Len(shown)
         /\ \A j \in DOMAIN queue : shown'[j] = IF j = i THEN s ELSE shown[j]
<1>1. shown \in Seq(Shown) /\ DOMAIN queue = 1..Len(shown)
  BY QueueFacts DEF ClientInv, Typed, Shown
<1>. QED BY <1>1, ExceptSeq

LEMMA PageStep ==
  ASSUME ClientInv, Quiet, NEW c \in Conn, Moves(c), copies' = copies,
         shown' \in Seq(Shown), Len(shown') = Len(shown), waiting' \in Seq(Nat),
         hits' \in Seq(Nat), Len(hits') = Len(hits), LineOK(c)', Tracked', Eases, Done'
  PROVE  ClientInv'
<1>1. Keeps /\ Stocked'
  BY CopiesKept
<1>2. Typed'
  BY <1>1, TypesKept DEF Shown
<1>3. ReadRight' /\ Queued'
  BY Calm DEF Quiet
<1>4. \A b \in Conn : LineOK(b)'
  BY <1>1, Elsewhere
<1>5. Budget'
  BY <1>1, BudgetEased
<1>. QED BY <1>1, <1>2, <1>3, <1>4, <1>5 DEF ClientInv

LEMMA ConnectStep ==
  ASSUME ClientInv, NEW c \in Conn, Connect(c) PROVE ClientInv'
<1>1. /\ Quiet /\ copies' = copies /\ shown' = shown /\ hits' = hits
      /\ waiting # <<>> /\ line[c] = Idle /\ waiting' = Tail(waiting)
  BY DEF Connect, readVars, pageVars, Quiet
<1>2. PICK n : n = Head(waiting)
  OBVIOUS
<1>. DEFINE l == [Idle EXCEPT !.of = n, !.at = "sent"]
<1>3. line' = [line EXCEPT ![c] = l]
  BY <1>2 DEF Connect
<1>4. waiting \in Seq(Nat) /\ Len(waiting) \in Nat /\ DOMAIN waiting = 1..Len(waiting)
  BY QueueFacts DEF ClientInv, Typed
<1>5. /\ Len(waiting) > 0 /\ 1 \in DOMAIN waiting /\ n = waiting[1] /\ waiting' \in Seq(Nat)
      /\ Len(waiting') = Len(waiting) - 1
      /\ \A k \in 1..Len(waiting') : waiting'[k] = waiting[k + 1]
  <2>1. Len(waiting) > 0
    <3>1. Len(waiting) \in Nat \ {0}
      BY <1>1, <1>4, EmptySeq
    <3>. QED BY <3>1
  <2>2. n = waiting[1]
    BY <1>2
  <2>3. 1 \in 1..Len(waiting)
    BY <1>4, <2>1
  <2>. QED BY <1>1, <1>4, <2>1, <2>2, <2>3, HeadTailProperties
<1>6. /\ DOMAIN waiting' = 1..Len(waiting')
      /\ \A k \in DOMAIN waiting' : /\ k + 1 \in DOMAIN waiting /\ k + 1 # 1
                                    /\ waiting'[k] = waiting[k + 1]
      /\ \A k \in DOMAIN waiting : k # 1 => k - 1 \in DOMAIN waiting' /\ waiting'[k - 1] = waiting[k]
  <2>1. DOMAIN waiting' = 1..Len(waiting')
    BY <1>5, LenProperties
  <2>2. \A k \in 1..Len(waiting') : k + 1 \in 1..Len(waiting) /\ k + 1 # 1
    BY <1>4, <1>5
  <2>3. \A k \in 1..Len(waiting) : k # 1 => k - 1 \in 1..Len(waiting') /\ (k - 1) + 1 = k
    BY <1>4, <1>5
  <2>4. \A k \in 1..Len(waiting) : k # 1 => waiting'[k - 1] = waiting[k]
    <3>1. ASSUME NEW k \in 1..Len(waiting), k # 1 PROVE waiting'[k - 1] = waiting[k]
      <4>1. waiting'[k - 1] = waiting[(k - 1) + 1] /\ (k - 1) + 1 = k
        BY <1>5, <2>3, <3>1
      <4>. QED BY <4>1
    <3>. QED BY <3>1
  <2>5. \A k \in 1..Len(waiting) : k # 1 => k - 1 \in 1..Len(waiting')
    BY <2>3
  <2>6. DOMAIN waiting = 1..Len(waiting) /\ \A k \in 1..Len(waiting') : waiting'[k] = waiting[k + 1]
    BY <1>4, <1>5
  <2>7. \A k \in DOMAIN waiting' : /\ k + 1 \in DOMAIN waiting /\ k + 1 # 1
                                   /\ waiting'[k] = waiting[k + 1]
    BY <2>1, <2>2, <2>6
  <2>8. \A k \in DOMAIN waiting : k # 1 => k - 1 \in DOMAIN waiting' /\ waiting'[k - 1] = waiting[k]
    BY <2>1, <2>4, <2>5, <2>6
  <2>. QED BY <2>1, <2>7, <2>8
<1>7. n \in DOMAIN queue /\ n \in Nat /\ n # 0 /\ queue[n].sent /\ shown[n] = "sending"
      /\ \A b \in Conn : On(b) # n
  <2>1. 1 \in DOMAIN waiting /\ n = waiting[1]
    BY <1>5
  <2>2. n \in DOMAIN queue /\ \A b \in Conn : On(b) # n
    BY <2>1 DEF ClientInv, Tracked
  <2>3. queue[n].sent /\ shown[n] = "sending"
    BY <2>1, <2>2 DEF ClientInv, Tracked
  <2>4. DOMAIN queue \subseteq Nat /\ 0 \notin DOMAIN queue
    BY QueueFacts DEF ClientInv
  <2>. QED BY <2>2, <2>3, <2>4
<1>8. /\ l \in Line /\ l.of = n /\ l.at = "sent" /\ l.heard /\ l.stored = 0 /\ Idle.of = 0 /\ Idle.at = "idle"
  BY <1>7 DEF Line, Idle
<1>9. Moves(c) /\ line'[c] = l
  <2>. HIDE DEF l
  <2>. QED BY <1>3, <1>8, LineMoved
<1>. HIDE DEF l
<1>10. LineOK(c)' /\ On(c)' = n
  BY <1>1, <1>7, <1>8, <1>9 DEF LineOK, On, Quiet
<1>11. Keeps
  BY <1>1, CopiesKept
<1>12. \A b \in Conn : b # c => On(b)' = On(b)
  BY <1>9, <1>11, Elsewhere
<1>13. On(c) = 0
  BY <1>1, <1>8 DEF On
<1>14. Tracked'
  <2>1. ASSUME NEW a \in Conn, NEW b \in Conn, On(a)' = On(b)', On(b)' # 0 PROVE a = b
    BY <1>7, <1>10, <1>12, <2>1 DEF ClientInv, Tracked
  <2>2. ASSUME NEW j \in DOMAIN waiting', NEW k \in DOMAIN waiting', waiting'[j] = waiting'[k]
        PROVE  j = k
    <3>1. j + 1 = k + 1
      BY <1>6, <2>2 DEF ClientInv, Tracked
    <3>2. j \in Nat /\ k \in Nat
      BY <1>5, <1>6
    <3>. QED BY <3>1, <3>2
  <2>3. ASSUME NEW k \in DOMAIN waiting'
        PROVE  waiting'[k] \in DOMAIN queue /\ \A b \in Conn : On(b)' # waiting'[k]
    <3>1. waiting'[k] # n
      BY <1>5, <1>6 DEF ClientInv, Tracked
    <3>. QED BY <1>6, <1>10, <1>12, <3>1 DEF ClientInv, Tracked
  <2>4. ASSUME NEW i \in DOMAIN queue
        PROVE  /\ ~queue[i].sent => shown'[i] = "sending"
               /\ queue[i].sent /\ shown'[i] = "sending" <=>
                    (\E k \in DOMAIN waiting' : waiting'[k] = i) \/ (\E b \in Conn : On(b)' = i)
    <3>1. CASE i = n
      BY <1>1, <1>7, <1>10, <3>1
    <3>2. CASE i # n
      <4>1. (\E k \in DOMAIN waiting' : waiting'[k] = i) <=> \E k \in DOMAIN waiting : waiting[k] = i
        <5>1. ASSUME NEW k \in DOMAIN waiting', waiting'[k] = i
              PROVE  k + 1 \in DOMAIN waiting /\ waiting[k + 1] = i
          BY <1>6, <5>1
        <5>2. ASSUME NEW k \in DOMAIN waiting, waiting[k] = i
              PROVE  k - 1 \in DOMAIN waiting' /\ waiting'[k - 1] = i
          BY <1>5, <1>6, <3>2, <5>2
        <5>. QED BY <5>1, <5>2
      <4>2. (\E b \in Conn : On(b)' = i) <=> \E b \in Conn : On(b) = i
        <5>1. i # 0
          BY QueueFacts DEF ClientInv
        <5>. QED BY <1>10, <1>12, <1>13, <3>2, <5>1
      <4>. QED BY <1>1, <4>1, <4>2 DEF ClientInv, Tracked
    <3>. QED BY <3>1, <3>2
  <2>5. queue' = queue
    BY <1>1 DEF Quiet
  <2>. QED BY <2>1, <2>2, <2>3, <2>4, <2>5 DEF Tracked
<1>15. ASSUME NEW i \in DOMAIN queue, NEW k \in DOMAIN queue[i].files
       PROVE  Load(i, k)' + hits[i] <= Load(i, k) + hits'[i]
  <2>. DEFINE m == copies[queue[i].files[k].file]
              p == Cardinality(Pending(i, k))
              q == Cardinality(Pending(i, k)')
              o == IF Owes(i) THEN 1 ELSE 0
              r == IF Owes(i)' THEN 1 ELSE 0
  <2>1. m \in Nat /\ p \in Nat /\ q \in Nat /\ o \in 0..1 /\ r \in 0..1 /\ k \in Nat /\ k > 0
    BY <1>9, PendingMoves, FilesQueued
  <2>2. c \notin Pending(i, k)
    BY <1>1, <1>8 DEF Pending
  <2>3. ASSUME i = n PROVE m + q + r <= m + p + o + 0
    <3>1. c \in Pending(i, k)'
      BY <1>8, <1>9, <2>1, <2>3 DEF Pending
    <3>2. q = p + 1
      BY <1>9, <2>2, <3>1, PendingMoves
    <3>3. Owes(i)
      BY <1>5, <2>3 DEF Owes
    <3>4. ~Owes(i)'
      <4>1. shown'[i] # "failed"
        BY <1>1, <1>7, <2>3
      <4>2. ~\E j \in DOMAIN waiting' : waiting'[j] = i
        BY <1>5, <1>6, <2>3 DEF ClientInv, Tracked
      <4>3. ASSUME NEW b \in Conn, line'[b].of = i, line'[b].at = "answered" PROVE FALSE
        <5>1. b # c
          BY <1>8, <1>9, <4>3
        <5>2. line[b].of = i /\ line[b].at = "answered" /\ LineOK(b)
          BY <1>9, <4>3, <5>1 DEF Moves, ClientInv
        <5>3. On(b) = i
          BY <5>2 DEF LineOK, On
        <5>. QED BY <1>7, <2>3, <5>3
      <4>. QED BY <4>1, <4>2, <4>3 DEF Owes
    <3>5. o = 1 /\ r = 0
      BY <3>3, <3>4
    <3>. HIDE DEF m, p, q, o, r
    <3>. QED BY <2>1, <3>2, <3>5
  <2>4. ASSUME i # n PROVE m + q + r <= m + p + o + 0
    <3>1. c \notin Pending(i, k)'
      BY <1>8, <1>9, <2>4 DEF Pending
    <3>2. q = p
      BY <1>9, <2>2, <3>1, PendingMoves
    <3>3. Owes(i)' => Owes(i)
      BY <1>1, <1>6, <1>8, <1>9, <2>4 DEF Owes, Moves
    <3>4. r <= o
      BY <3>3
    <3>. HIDE DEF m, p, q, o, r
    <3>. QED BY <2>1, <3>2, <3>4
  <2>5. hits'[i] = hits[i] + 0 /\ 0 \in 0..1
    BY <1>1, QueueFacts DEF ClientInv
  <2>6. copies' \in [File -> Nat] /\ queue' = queue
    BY <1>1 DEF ClientInv, Typed, Quiet
  <2>7. m + q + r <= m + p + o + 0
    BY <2>3, <2>4
  <2>8. copies'[queue[i].files[k].file] = m
    BY <1>1
  <2>. QED BY <1>9, <2>5, <2>6, <2>7, <2>8, LoadAdds
<1>16. Done'
  BY <1>1 DEF ClientInv, Done, Quiet, AllStored
<1>17. hits' \in Seq(Nat) /\ Len(hits') = Len(hits) /\ shown' \in Seq(Shown) /\ Len(shown') = Len(shown)
  BY <1>1 DEF ClientInv, Typed, Shown
<1>. QED BY <1>1, <1>5, <1>9, <1>10, <1>14, <1>15, <1>16, <1>17, PageStep DEF Eases

\* The page has heard of the entry n on c, and shows it so.
LEMMA HeardOf ==
  ASSUME ClientInv, Quiet, NEW c \in Conn, Moves(c), Keeps, waiting' = waiting,
         NEW n \in DOMAIN queue, On(c) = n, On(c)' = 0,
         NEW s \in Shown \ {"sending"}, shown' = [shown EXCEPT ![n] = s]
  PROVE  /\ Tracked'
         /\ \A k \in DOMAIN waiting : waiting[k] # n
         /\ \A b \in Conn : b # c => On(b) # n
<1>1. /\ n # 0 /\ \A k \in DOMAIN waiting : waiting[k] # n
      /\ queue[n].sent /\ \A b \in Conn : b # c => On(b) # n
  BY QueueFacts DEF ClientInv, Tracked
<1>2. \A b \in Conn : b # c => On(b)' = On(b)
  BY Elsewhere
<1>3. \A j \in DOMAIN queue : shown'[j] = IF j = n THEN s ELSE shown[j]
  BY ShownSet
<1>4. ASSUME NEW i \in DOMAIN queue
      PROVE  /\ ~queue[i].sent => shown'[i] = "sending"
             /\ queue[i].sent /\ shown'[i] = "sending" <=>
                  (\E k \in DOMAIN waiting' : waiting'[k] = i) \/ (\E b \in Conn : On(b)' = i)
  <2>0. i # 0
    BY QueueFacts DEF ClientInv
  <2>1. CASE i = n
    BY <1>1, <1>2, <1>3, <2>0, <2>1
  <2>2. CASE i # n
    <3>1. (\E b \in Conn : On(b)' = i) <=> \E b \in Conn : On(b) = i
      BY <1>2, <2>0, <2>2
    <3>. QED BY <1>3, <2>2, <3>1 DEF ClientInv, Tracked
  <2>. QED BY <2>1, <2>2
<1>5. ASSUME NEW a \in Conn, NEW b \in Conn, On(a)' = On(b)', On(b)' # 0 PROVE a = b
  BY <1>2, <1>5 DEF ClientInv, Tracked
<1>6. ASSUME NEW k \in DOMAIN waiting'
      PROVE  waiting'[k] \in DOMAIN queue /\ \A b \in Conn : On(b)' # waiting'[k]
  <2>1. waiting'[k] \in DOMAIN queue /\ waiting'[k] # 0 /\ \A b \in Conn : On(b) # waiting'[k]
    BY QueueFacts DEF ClientInv, Tracked
  <2>. QED BY <1>2, <2>1
<1>7. \A j, k \in DOMAIN waiting' : waiting'[j] = waiting'[k] => j = k
  BY DEF ClientInv, Tracked
<1>8. Tracked'
  <2>1. queue' = queue
    BY DEF Quiet
  <2>. QED BY <1>4, <1>5, <1>6, <1>7, <2>1 DEF Tracked
<1>. QED BY <1>1, <1>8

LEMMA HearStep ==
  ASSUME ClientInv, NEW c \in Conn, Hear(c) PROVE ClientInv'
<1>1. PICK n : n = line[c].of
  OBVIOUS
<1>2. PICK s \in {"done", "failed"} : s = IF line[c].status = "201" THEN "done" ELSE "failed"
  OBVIOUS
<1>3. /\ Quiet /\ copies' = copies /\ waiting' = waiting /\ hits' = hits /\ line[c].at = "answered"
      /\ shown' = [shown EXCEPT ![n] = s] /\ line' = [line EXCEPT ![c] = Idle]
  BY <1>1, <1>2 DEF Hear, Accepted, Fail, readVars, pageVars, Quiet
<1>4. LineOK(c) /\ n \in DOMAIN queue /\ On(c) = n
  BY <1>1, <1>3 DEF ClientInv, LineOK, On
<1>5. Idle \in Line /\ Idle.of = 0 /\ Idle.at = "idle" /\ Idle.heard
  BY LineFacts DEF ClientInv
<1>6. Moves(c) /\ line'[c] = Idle
  BY <1>3, <1>5, LineMoved
<1>7. LineOK(c)' /\ On(c)' = 0
  BY <1>5, <1>6 DEF LineOK, On
<1>8. Keeps
  BY <1>3, CopiesKept
<1>9. s \in Shown \ {"sending"} /\ s \in Shown
  BY DEF Shown
<1>10. /\ Tracked'
       /\ \A k \in DOMAIN waiting : waiting[k] # n
       /\ \A b \in Conn : b # c => On(b) # n
  BY <1>3, <1>4, <1>6, <1>7, <1>8, <1>9, HeardOf
<1>11. /\ shown' \in Seq(Shown) /\ Len(shown') = Len(shown)
       /\ \A j \in DOMAIN queue : shown'[j] = IF j = n THEN s ELSE shown[j]
  BY <1>3, <1>4, <1>9, ShownSet
<1>12. ASSUME NEW i \in DOMAIN queue, NEW k \in DOMAIN queue[i].files
       PROVE  Load(i, k)' + hits[i] <= Load(i, k) + hits'[i]
  <2>. DEFINE m == copies[queue[i].files[k].file]
              p == Cardinality(Pending(i, k))
              q == Cardinality(Pending(i, k)')
              o == IF Owes(i) THEN 1 ELSE 0
              r == IF Owes(i)' THEN 1 ELSE 0
  <2>1. m \in Nat /\ p \in Nat /\ q \in Nat /\ o \in 0..1 /\ r \in 0..1
    BY <1>6, PendingMoves, FilesQueued
  <2>2. q = p
    <3>1. c \notin Pending(i, k) /\ c \notin Pending(i, k)'
      BY <1>3, <1>5, <1>6 DEF Pending
    <3>. QED BY <1>6, <3>1, PendingMoves
  <2>3. Owes(i)' => Owes(i)
    <3>1. CASE i = n /\ s = "done"
      <4>1. shown'[i] # "failed"
        BY <1>11, <3>1
      <4>2. ~\E j \in DOMAIN waiting' : waiting'[j] = i
        BY <1>3, <1>10, <3>1
      <4>3. ASSUME NEW b \in Conn, line'[b].of = i, line'[b].at = "answered" PROVE FALSE
        <5>1. b # c
          BY <1>5, <1>6, <4>3
        <5>2. line[b].of = i /\ line[b].at = "answered" /\ LineOK(b)
          BY <1>6, <4>3, <5>1 DEF Moves, ClientInv
        <5>3. On(b) = i
          BY <5>2 DEF LineOK, On
        <5>. QED BY <1>10, <3>1, <5>1, <5>3
      <4>. QED BY <4>1, <4>2, <4>3 DEF Owes
    <3>2. CASE i = n /\ s # "done"
      BY <1>1, <1>2, <1>3, <3>2 DEF Owes
    <3>3. CASE i # n
      BY <1>3, <1>5, <1>6, <1>11, <3>3, OwesMoves
    <3>. QED BY <3>1, <3>2, <3>3
  <2>4. r <= o
    BY <2>3
  <2>5. m + q + r <= m + p + o + 0
    <3>. HIDE DEF m, p, q, o, r
    <3>. QED BY <2>1, <2>2, <2>4
  <2>6. hits'[i] = hits[i] + 0 /\ 0 \in 0..1 /\ copies'[queue[i].files[k].file] = m
    BY <1>3, QueueFacts DEF ClientInv
  <2>7. copies' \in [File -> Nat] /\ queue' = queue
    BY <1>3 DEF ClientInv, Typed, Quiet
  <2>. QED BY <1>6, <2>5, <2>6, <2>7, LoadAdds
<1>13. Done'
  <2>1. ASSUME NEW i \in DOMAIN queue, shown'[i] = "done" PROVE AllStored(i)
    <3>1. CASE i = n
      <4>1. line[c].status = "201"
        BY <1>2, <1>11, <2>1, <3>1
      <4>. QED BY <1>1, <1>3, <1>4, <3>1, <4>1 DEF LineOK
    <3>2. CASE i # n
      BY <1>11, <2>1, <3>2 DEF ClientInv, Done
    <3>. QED BY <3>1, <3>2
  <2>. QED BY <1>3, <2>1 DEF Done, AllStored, Quiet
<1>14. hits' \in Seq(Nat) /\ Len(hits') = Len(hits) /\ waiting' \in Seq(Nat)
  BY <1>3 DEF ClientInv, Typed
<1>. QED BY <1>3, <1>6, <1>7, <1>10, <1>11, <1>12, <1>13, <1>14, PageStep DEF Eases

LEMMA LoseStep ==
  ASSUME ClientInv, NEW c \in Conn, Lose(c) PROVE ClientInv'
<1>1. PICK n : n = line[c].of
  OBVIOUS
<1>. DEFINE l == IF line[c].at = "answered" THEN Idle ELSE [line[c] EXCEPT !.heard = FALSE]
            s == "failed"
<1>2. /\ Quiet /\ copies' = copies /\ waiting' = waiting /\ n # 0 /\ line[c].heard
      /\ hits' = [hits EXCEPT ![n] = @ + 1]
      /\ shown' = [shown EXCEPT ![n] = s] /\ line' = [line EXCEPT ![c] = l]
  BY <1>1 DEF Lose, Fail, readVars, pageVars, Quiet
<1>3. LineOK(c) /\ n \in DOMAIN queue /\ On(c) = n
  BY <1>1, <1>2 DEF ClientInv, LineOK, On
<1>4. /\ Idle \in Line /\ Idle.of = 0 /\ Idle.at = "idle" /\ Idle.heard
      /\ line[c] \in Line /\ line[c].heard \in BOOLEAN
  BY LineFacts DEF ClientInv
<1>5. /\ l \in Line
      /\ line[c].at = "answered" => l = Idle
      /\ line[c].at # "answered" => /\ l.of = line[c].of /\ l.at = line[c].at /\ ~l.heard
                                    /\ l.stored = line[c].stored /\ l.status = line[c].status
  BY <1>4 DEF Line
<1>6. Moves(c) /\ line'[c] = l
  <2>. HIDE DEF l
  <2>. QED BY <1>2, <1>5, LineMoved
<1>. HIDE DEF l
<1>7. Keeps
  BY <1>2, CopiesKept
<1>8. On(c)' = 0
  BY <1>4, <1>5, <1>6 DEF On
<1>9. LineOK(c)'
  <2>1. CASE line[c].at = "answered"
    BY <1>4, <1>5, <1>6, <2>1 DEF LineOK
  <2>2. CASE line[c].at # "answered"
    BY <1>1, <1>2, <1>3, <1>5, <1>6, <2>2 DEF LineOK, Quiet
  <2>. QED BY <2>1, <2>2
<1>10. s \in Shown \ {"sending"} /\ s \in Shown
  BY DEF Shown
<1>. HIDE DEF s
<1>11. Tracked'
  BY <1>2, <1>3, <1>6, <1>7, <1>8, <1>10, HeardOf
<1>12. /\ shown' \in Seq(Shown) /\ Len(shown') = Len(shown)
       /\ \A j \in DOMAIN queue : shown'[j] = IF j = n THEN s ELSE shown[j]
  BY <1>2, <1>3, <1>10, ShownSet
<1>13. /\ hits' \in Seq(Nat) /\ Len(hits') = Len(hits)
       /\ \A j \in DOMAIN queue : hits'[j] = IF j = n THEN hits[n] + 1 ELSE hits[j]
  BY <1>2, <1>3, HitMarked
<1>14. ASSUME NEW i \in DOMAIN queue, NEW k \in DOMAIN queue[i].files
       PROVE  Load(i, k)' + hits[i] <= Load(i, k) + hits'[i]
  <2>. DEFINE m == copies[queue[i].files[k].file]
              p == Cardinality(Pending(i, k))
              q == Cardinality(Pending(i, k)')
              o == IF Owes(i) THEN 1 ELSE 0
              r == IF Owes(i)' THEN 1 ELSE 0
              j == IF i = n THEN 1 ELSE 0
  <2>1. m \in Nat /\ p \in Nat /\ q \in Nat /\ o \in 0..1 /\ r \in 0..1 /\ j \in 0..1
    BY <1>6, PendingMoves, FilesQueued
  <2>2. q = p
    <3>1. c \in Pending(i, k) <=> c \in Pending(i, k)'
      <4>1. CASE line[c].at = "answered"
        BY <1>4, <1>5, <1>6, <4>1 DEF Pending
      <4>2. CASE line[c].at # "answered"
        BY <1>5, <1>6, <4>2 DEF Pending
      <4>. QED BY <4>1, <4>2
    <3>. QED BY <1>6, <3>1, PendingMoves
  <2>3. i # n /\ Owes(i)' => Owes(i)
    <3>1. line'[c].at # "answered"
      BY <1>4, <1>5, <1>6
    <3>. QED BY <1>2, <1>6, <1>12, <3>1, OwesMoves
  <2>4. r <= o + j
    BY <2>3
  <2>5. m + q + r <= m + p + o + j
    <3>. HIDE DEF m, p, q, o, r, j
    <3>. QED BY <2>1, <2>2, <2>4
  <2>6. hits'[i] = hits[i] + j /\ copies'[queue[i].files[k].file] = m
    BY <1>2, <1>13, QueueFacts DEF ClientInv
  <2>7. copies' \in [File -> Nat] /\ queue' = queue
    BY <1>2 DEF ClientInv, Typed, Quiet
  <2>. HIDE DEF j
  <2>. QED BY <1>6, <2>1, <2>5, <2>6, <2>7, LoadAdds
<1>15. Done'
  <2>1. ASSUME NEW i \in DOMAIN queue, shown'[i] = "done" PROVE AllStored(i)
    <3>1. i # n
      BY <1>12, <2>1 DEF s
    <3>. QED BY <1>12, <2>1, <3>1 DEF ClientInv, Done
  <2>. QED BY <1>2, <2>1 DEF Done, AllStored, Quiet
<1>16. waiting' \in Seq(Nat)
  BY <1>2 DEF ClientInv, Typed
<1>. QED BY <1>2, <1>6, <1>9, <1>11, <1>12, <1>13, <1>14, <1>15, <1>16, PageStep DEF Eases

LEMMA RetryStep ==
  ASSUME ClientInv, NEW n \in DOMAIN queue, Retry(n) PROVE ClientInv'
<1>1. PICK s : s = "sending"
  OBVIOUS
<1>2. /\ Quiet /\ copies' = copies /\ line' = line /\ hits' = hits /\ shown[n] = "failed"
      /\ shown' = [shown EXCEPT ![n] = s] /\ waiting' = Append(waiting, n)
  BY <1>1 DEF Retry, Retriable, readVars, pageVars, Quiet
<1>3. /\ shown' \in Seq(Shown) /\ Len(shown') = Len(shown)
      /\ \A j \in DOMAIN queue : shown'[j] = IF j = n THEN s ELSE shown[j]
  <2>1. s \in Shown
    BY <1>1 DEF Shown
  <2>2. shown' = [shown EXCEPT ![n] = s]
    BY <1>2
  <2>. QED BY <2>1, <2>2, ShownSet
<1>4. waiting \in Seq(Nat) /\ Len(waiting) \in Nat /\ DOMAIN waiting = 1..Len(waiting) /\ n \in Nat
  BY QueueFacts DEF ClientInv, Typed
<1>. DEFINE e == Len(waiting) + 1
<1>5. /\ waiting' \in Seq(Nat) /\ Len(waiting') = e /\ waiting'[e] = n
      /\ \A k \in DOMAIN waiting : waiting'[k] = waiting[k]
  BY <1>2, <1>4, AppendProperties
<1>6. DOMAIN waiting' = DOMAIN waiting \cup {e} /\ e \notin DOMAIN waiting
  <2>1. DOMAIN waiting' = 1..e
    BY <1>5, LenProperties
  <2>. QED BY <1>4, <2>1
<1>. HIDE DEF e
<1>7. n # 0 /\ queue[n].sent /\ (\A k \in DOMAIN waiting : waiting[k] # n) /\ \A b \in Conn : On(b) # n
  BY <1>2, QueueFacts DEF ClientInv, Tracked
<1>8. \A b \in Conn : LineOK(b)' /\ On(b)' = On(b)
  BY <1>2 DEF ClientInv, LineOK, AllStored, On, Quiet
<1>9. Typed'
  BY <1>2, <1>3, <1>5 DEF ClientInv, Typed, Staged, Quiet, Shown
<1>10. ReadRight' /\ Queued' /\ Stocked'
  BY <1>2, Calm, CopiesKept DEF Quiet
<1>11. Tracked'
  <2>1. \A a, b \in Conn : On(a)' = On(b)' /\ On(b)' # 0 => a = b
    BY <1>8 DEF ClientInv, Tracked
  <2>2. \A j, k \in DOMAIN waiting' : waiting'[j] = waiting'[k] => j = k
    BY <1>5, <1>6, <1>7 DEF ClientInv, Tracked
  <2>3. \A k \in DOMAIN waiting' :
          waiting'[k] \in DOMAIN queue /\ \A b \in Conn : On(b)' # waiting'[k]
    BY <1>5, <1>6, <1>7, <1>8 DEF ClientInv, Tracked
  <2>4. ASSUME NEW i \in DOMAIN queue
        PROVE  /\ ~queue[i].sent => shown'[i] = "sending"
               /\ queue[i].sent /\ shown'[i] = "sending" <=>
                    (\E k \in DOMAIN waiting' : waiting'[k] = i) \/ (\E b \in Conn : On(b)' = i)
    <3>1. CASE i = n
      BY <1>1, <1>3, <1>5, <1>6, <1>7, <3>1
    <3>2. CASE i # n
      <4>1. (\E k \in DOMAIN waiting' : waiting'[k] = i) <=> \E k \in DOMAIN waiting : waiting[k] = i
        BY <1>5, <1>6, <3>2
      <4>. QED BY <1>3, <1>8, <3>2, <4>1 DEF ClientInv, Tracked
    <3>. QED BY <3>1, <3>2
  <2>5. queue' = queue
    BY <1>2 DEF Quiet
  <2>. QED BY <2>1, <2>2, <2>3, <2>4, <2>5 DEF Tracked
<1>12. Budget'
  <2>1. ASSUME NEW i \in DOMAIN queue, NEW k \in DOMAIN queue[i].files
        PROVE  Load(i, k)' <= 1 + hits'[i]
    <3>. DEFINE m == copies[queue[i].files[k].file]
                p == Cardinality(Pending(i, k))
                o == IF Owes(i) THEN 1 ELSE 0
                r == IF Owes(i)' THEN 1 ELSE 0
    <3>1. m \in Nat /\ p \in Nat /\ o \in 0..1 /\ r \in 0..1 /\ hits[i] \in Nat
      BY PendingCounts, FilesQueued, QueueFacts DEF ClientInv
    <3>2. Pending(i, k)' = Pending(i, k)
      BY <1>2 DEF Pending
    <3>3. Owes(i)' => Owes(i)
      <4>1. CASE i = n
        BY <1>2, <4>1 DEF Owes
      <4>2. CASE i # n
        BY <1>2, <1>3, <1>5, <1>6, <4>2 DEF Owes
      <4>. QED BY <4>1, <4>2
    <3>4. r <= o
      BY <3>3
    <3>5. m + p + o <= 1 + hits[i]
      BY DEF ClientInv, Budget, Load
    <3>6. Load(i, k)' = m + p + r
      BY <1>2, <3>2 DEF Load, Quiet
    <3>. HIDE DEF m, p, o, r
    <3>7. m + p + r <= 1 + hits[i]
      BY <3>1, <3>4, <3>5
    <3>. QED BY <1>2, <3>6, <3>7
  <2>. QED BY <1>2, <2>1 DEF Budget, Quiet
<1>13. Done'
  <2>1. ASSUME NEW i \in DOMAIN queue, shown'[i] = "done" PROVE AllStored(i)
    <3>1. i # n
      BY <1>1, <1>3, <2>1
    <3>. QED BY <1>3, <2>1, <3>1 DEF ClientInv, Done
  <2>. QED BY <1>2, <2>1 DEF Done, AllStored, Quiet
<1>. QED BY <1>8, <1>9, <1>10, <1>11, <1>12, <1>13 DEF ClientInv

-----------------------------------------------------------------------------
(* Steps that read what was dropped.                                       *)

LEMMA ReadingStep ==
  ASSUME ClientInv, queue' = queue, shown' = shown, waiting' = waiting, line' = line,
         copies' = copies, hits' = hits, Staged', ReadRight', Queued'
  PROVE  ClientInv'
<1>1. Typed' /\ Stocked' /\ Done'
  BY DEF ClientInv, Typed, Stocked, Done, AllStored
<1>2. \A b \in Conn : LineOK(b)' /\ On(b)' = On(b)
  BY DEF ClientInv, LineOK, AllStored, On
<1>3. Tracked'
  BY <1>2 DEF ClientInv, Tracked
<1>4. Budget'
  BY DEF ClientInv, Budget, Load, Pending, Owes
<1>. QED BY <1>1, <1>2, <1>3, <1>4 DEF ClientInv

LEMMA StageStep ==
  ASSUME ClientInv, NEW g \in Gesture, stage[g] # "queued", NEW s \in States \ {"queued"},
         s = "reading" => Kind[g] = "drop", stage' = [stage EXCEPT ![g] = s], got' = got, closed' = closed,
         queue' = queue, shown' = shown, waiting' = waiting, line' = line,
         copies' = copies, hits' = hits
  PROVE  ClientInv'
<1>1. stage \in [Gesture -> States] /\ s \in States /\ s # "queued"
  BY DEF ClientInv, Typed, Staged
<1>2. Staged' /\ \A h \in Gesture : stage'[h] = "queued" <=> stage[h] = "queued"
  BY <1>1 DEF ClientInv, Typed, Staged
<1>3. ReadRight'
  BY DEF ClientInv, ReadRight, ReadOK
<1>4. Queued'
  BY <1>2 DEF ClientInv, Queued, Once
<1>. QED BY <1>2, <1>3, <1>4, ReadingStep

LEMMA ReadBatchStep ==
  ASSUME ClientInv, NEW g \in Gesture, NEW d \in Directory, ReadBatch(g, d) PROVE ClientInv'
<1>1. /\ stage' = stage /\ closed' = closed /\ queue' = queue /\ shown' = shown
      /\ waiting' = waiting /\ line' = line /\ copies' = copies /\ hits' = hits /\ d \notin closed
  BY DEF ReadBatch, Open, pageVars
<1>2. PICK n \in 1..Batch : got[d] + n <= Len(Children[d]) /\ got' = [got EXCEPT ![d] = @ + n]
  BY DEF ReadBatch
<1>3. \A e \in Directory : Len(Children[e]) \in Nat /\ got[e] \in 0..Len(Children[e])
  BY TreeAssumption, LenProperties DEF ClientInv, ReadRight, ReadOK
<1>4. got[d] + n \in 0..Len(Children[d])
  BY <1>2, <1>3, ClientAssumption
<1>5. \A e \in Directory : got'[e] = got[e] \/ (e = d /\ got'[e] = got[d] + n)
  BY <1>2
<1>6. \A e \in Directory : got'[e] \in 0..Len(Children[e]) /\ (e # d => got'[e] = got[e])
  BY <1>3, <1>4, <1>5
<1>7. ReadRight'
  BY <1>1, <1>6 DEF ClientInv, ReadRight, ReadOK
<1>8. Queued'
  BY <1>1 DEF ClientInv, Queued, Once
<1>. QED BY <1>1, <1>7, <1>8, ReadingStep DEF ClientInv, Typed, Staged

LEMMA CloseDirectoryStep ==
  ASSUME ClientInv, NEW g \in Gesture, NEW d \in Directory, CloseDirectory(g, d) PROVE ClientInv'
<1>1. /\ stage' = stage /\ got' = got /\ queue' = queue /\ shown' = shown /\ waiting' = waiting
      /\ line' = line /\ copies' = copies /\ hits' = hits /\ closed' = closed \cup {d}
      /\ got[d] = Len(Children[d])
  BY DEF CloseDirectory, Complete, pageVars
<1>2. ReadRight'
  BY <1>1 DEF ClientInv, ReadRight, ReadOK
<1>3. Queued'
  BY <1>1 DEF ClientInv, Queued, Once
<1>. QED BY <1>1, <1>2, <1>3, ReadingStep DEF ClientInv, Typed, Staged

LEMMA DropStep ==
  ASSUME ClientInv, NEW g \in Gesture, Drop(g) PROVE ClientInv'
<1>1. stage[g] # "queued" /\ "reading" \in States \ {"queued"} /\ Kind[g] = "drop"
  BY DEF Drop, States
<1>. QED BY <1>1, StageStep DEF Drop, readVars

LEMMA ReportDropErrorStep ==
  ASSUME ClientInv, NEW g \in Gesture, stage[g] = "reading", ReportDropError(g) PROVE ClientInv'
<1>1. stage[g] # "queued" /\ "unreadable" \in States \ {"queued"} /\ "unreadable" # "reading"
  BY DEF States
<1>. QED BY <1>1, StageStep DEF ReportDropError, readVars

-----------------------------------------------------------------------------
(* The step that queues a gesture.                                         *)

\* t is s and the n elements of f.
Extended(s, t, n, f) ==
  /\ \A i \in DOMAIN s : i \in DOMAIN t /\ t[i] = s[i]
  /\ \A j \in 1..n : Len(s) + j \in DOMAIN t /\ Len(s) + j \notin DOMAIN s /\ t[Len(s) + j] = f[j]
  /\ \A i \in DOMAIN t : i \in DOMAIN s \/ \E j \in 1..n : i = Len(s) + j

LEMMA Joined ==
  ASSUME NEW X, NEW s \in Seq(X), NEW n \in Nat, NEW f \in [1..n -> X]
  PROVE  s \o f \in Seq(X) /\ Len(s \o f) = Len(s) + n /\ Extended(s, s \o f, n, f)
<1>1. f \in Seq(X) /\ Len(f) = n /\ Len(s) \in Nat /\ DOMAIN s = 1..Len(s)
  BY FunctionIsSeq, LenProperties
<1>2. /\ s \o f \in Seq(X) /\ Len(s \o f) = Len(s) + n
      /\ \A i \in 1..(Len(s) + n) : (s \o f)[i] = IF i <= Len(s) THEN s[i] ELSE f[i - Len(s)]
  BY <1>1, ConcatProperties
<1>3. DOMAIN (s \o f) = 1..(Len(s) + n)
  BY <1>2, LenProperties
<1>. DEFINE t == s \o f
            m == Len(s)
<1>. HIDE DEF t, m
<1>4. /\ m \in Nat /\ DOMAIN s = 1..m /\ DOMAIN t = 1..(m + n)
      /\ \A i \in 1..(m + n) : t[i] = IF i <= m THEN s[i] ELSE f[i - m]
  BY <1>1, <1>2, <1>3 DEF t, m
<1>5. \A i \in 1..m : i \in 1..(m + n) /\ i <= m
  BY <1>4
<1>6. \A j \in 1..n : m + j \in 1..(m + n) /\ m + j \notin 1..m /\ ~(m + j <= m) /\ (m + j) - m = j
  BY <1>4
<1>7. \A i \in 1..(m + n) : i \in 1..m \/ (i - m \in 1..n /\ i = m + (i - m))
  BY <1>4
<1>8. \A i \in DOMAIN s : i \in DOMAIN t /\ t[i] = s[i]
  BY <1>4, <1>5
<1>9. \A j \in 1..n : m + j \in DOMAIN t /\ m + j \notin DOMAIN s /\ t[m + j] = f[j]
  BY <1>4, <1>6
<1>10. \A i \in DOMAIN t : i \in DOMAIN s \/ \E j \in 1..n : i = m + j
  BY <1>4, <1>7
<1>. QED BY <1>2, <1>8, <1>9, <1>10 DEF Extended, t, m

\* What joins the queue, its m-th entry being new.
Entry(g, es, s, j) == [by |-> g, root |-> es[j].root, files |-> es[j].files, sent |-> j <= s]

Joins(g, es, s, n) ==
  /\ n \in Nat /\ DOMAIN es = 1..n /\ s \in 0..n
  /\ queue' \in Seq(Range(queue')) /\ Len(queue') = Len(queue) + n
  /\ Extended(queue, queue', n, [j \in 1..n |-> Entry(g, es, s, j)])
  /\ shown' \in Seq(Shown) /\ Len(shown') = Len(queue) + n
  /\ Extended(shown, shown', n, [j \in 1..n |-> "sending"])
  /\ waiting' \in Seq(Nat)
  /\ Extended(waiting, waiting', s, [j \in 1..s |-> Len(queue) + j])
  /\ hits' \in Seq(Nat) /\ Len(hits') = Len(queue) + n
  /\ Extended(hits, hits', n, [j \in 1..n |-> 0])

LEMMA UploadJoins ==
  ASSUME ClientInv, NEW g \in Gesture, NEW es, NEW s, Entries(g, es, s), Upload(g, es, s)
  PROVE  \E n : Joins(g, es, s, n)
<1>1. PICK R, I : es \in Seq([root : R, files : Seq(I)])
  BY DEF Entries
<1>2. PICK n : n = Len(es)
  OBVIOUS
<1>3. n \in Nat /\ DOMAIN es = 1..n /\ s \in 0..n /\ s \in Nat
  <2>1. n \in Nat /\ DOMAIN es = 1..n
    BY <1>1, <1>2, LenProperties
  <2>. QED BY <1>2, <2>1 DEF Entries
<1>4. Len(queue) \in Nat /\ queue \in Seq(Range(queue)) /\ Len(shown) = Len(queue) /\ Len(hits) = Len(queue)
  BY QueueFacts DEF ClientInv, Typed
<1>5. /\ queue' \in Seq(Range(queue')) /\ Len(queue') = Len(queue) + n
      /\ Extended(queue, queue', n, [j \in 1..n |-> Entry(g, es, s, j)])
  <2>. DEFINE f == [j \in 1..n |-> Entry(g, es, s, j)]
              X == Range(queue) \cup {Entry(g, es, s, j) : j \in 1..n}
  <2>1. queue' = queue \o f
    BY <1>3 DEF Upload, Entry
  <2>2. f \in [1..n -> X]
    OBVIOUS
  <2>3. queue \in Seq(X)
    <3>1. Range(queue) \subseteq X
      OBVIOUS
    <3>. HIDE DEF X
    <3>. QED BY <1>4, <3>1, SeqMonotonic
  <2>. HIDE DEF f, X
  <2>4. queue \o f \in Seq(X) /\ Len(queue \o f) = Len(queue) + n /\ Extended(queue, queue \o f, n, f)
    BY <1>3, <2>2, <2>3, Joined
  <2>5. queue' \in [1..Len(queue') -> X] /\ Len(queue') \in Nat
    BY <2>1, <2>4, LenProperties
  <2>6. queue' \in [1..Len(queue') -> Range(queue')]
    BY <2>5 DEF Range
  <2>7. queue' \in Seq(Range(queue'))
    BY <2>5, <2>6, FunctionIsSeq
  <2>. QED BY <2>1, <2>4, <2>7 DEF f
<1>6. /\ shown' \in Seq(Shown) /\ Len(shown') = Len(queue) + n
      /\ Extended(shown, shown', n, [j \in 1..n |-> "sending"])
  <2>. DEFINE f == [j \in 1..n |-> "sending"]
  <2>1. shown' = shown \o f
    BY <1>3 DEF Upload
  <2>2. f \in [1..n -> Shown] /\ shown \in Seq(Shown)
    BY DEF Shown, ClientInv, Typed
  <2>. HIDE DEF f
  <2>3. shown \o f \in Seq(Shown) /\ Len(shown \o f) = Len(shown) + n /\ Extended(shown, shown \o f, n, f)
    BY <1>3, <2>2, Joined
  <2>. QED BY <1>4, <2>1, <2>3 DEF f
<1>7. waiting' \in Seq(Nat) /\ Extended(waiting, waiting', s, [j \in 1..s |-> Len(queue) + j])
  <2>. DEFINE f == [j \in 1..s |-> Len(queue) + j]
  <2>1. waiting' = waiting \o f
    BY <1>3 DEF Upload
  <2>2. f \in [1..s -> Nat] /\ waiting \in Seq(Nat)
    BY <1>3, <1>4 DEF ClientInv, Typed
  <2>. HIDE DEF f
  <2>3. waiting \o f \in Seq(Nat) /\ Extended(waiting, waiting \o f, s, f)
    BY <1>3, <2>2, Joined
  <2>. QED BY <2>1, <2>3 DEF f
<1>8. /\ hits' \in Seq(Nat) /\ Len(hits') = Len(queue) + n
      /\ Extended(hits, hits', n, [j \in 1..n |-> 0])
  <2>. DEFINE f == [j \in 1..n |-> 0]
  <2>1. hits' = hits \o f
    BY <1>3 DEF Upload
  <2>2. f \in [1..n -> Nat] /\ hits \in Seq(Nat)
    BY DEF ClientInv, Typed
  <2>. HIDE DEF f
  <2>3. hits \o f \in Seq(Nat) /\ Len(hits \o f) = Len(hits) + n /\ Extended(hits, hits \o f, n, f)
    BY <1>3, <2>2, Joined
  <2>. QED BY <1>4, <2>1, <2>3 DEF f
<1>. QED BY <1>3, <1>5, <1>6, <1>7, <1>8 DEF Joins

\* The same, said of the old entries and of the new ones.
LEMMA JoinedFacts ==
  ASSUME ClientInv, NEW g, NEW es, NEW s, NEW n, Joins(g, es, s, n)
  PROVE  /\ \A i \in DOMAIN queue : /\ i \in DOMAIN queue' /\ queue'[i] = queue[i]
                                    /\ shown'[i] = shown[i] /\ hits'[i] = hits[i]
         /\ \A j \in DOMAIN es :
              /\ Len(queue) + j \in DOMAIN queue' /\ Len(queue) + j \notin DOMAIN queue
              /\ queue'[Len(queue) + j] = Entry(g, es, s, j)
              /\ shown'[Len(queue) + j] = "sending" /\ hits'[Len(queue) + j] = 0
         /\ \A j \in 1..s :
              Len(waiting) + j \in DOMAIN waiting' /\ waiting'[Len(waiting) + j] = Len(queue) + j
         /\ \A i \in DOMAIN queue' : i \in DOMAIN queue \/ \E j \in DOMAIN es : i = Len(queue) + j
         /\ \A k \in DOMAIN waiting : k \in DOMAIN waiting' /\ waiting'[k] = waiting[k]
         /\ \A k \in DOMAIN waiting' :
              k \in DOMAIN waiting \/ \E j \in 1..s : k = Len(waiting) + j
<1>1. /\ Len(shown) = Len(queue) /\ Len(hits) = Len(queue)
      /\ DOMAIN shown = DOMAIN queue /\ DOMAIN hits = DOMAIN queue
  BY QueueFacts DEF ClientInv, Typed
<1>2. DOMAIN es = 1..n
  BY DEF Joins
<1>3. \A i \in DOMAIN queue : /\ i \in DOMAIN queue' /\ queue'[i] = queue[i]
                              /\ shown'[i] = shown[i] /\ hits'[i] = hits[i]
  BY <1>1 DEF Joins, Extended
<1>4. ASSUME NEW j \in 1..n
      PROVE  /\ Len(queue) + j \in DOMAIN queue' /\ Len(queue) + j \notin DOMAIN queue
             /\ queue'[Len(queue) + j] = Entry(g, es, s, j)
             /\ shown'[Len(queue) + j] = "sending" /\ hits'[Len(queue) + j] = 0
  <2>1. /\ Len(queue) + j \in DOMAIN queue' /\ Len(queue) + j \notin DOMAIN queue
        /\ queue'[Len(queue) + j] = [x \in 1..n |-> Entry(g, es, s, x)][j]
    BY DEF Joins, Extended
  <2>2. shown'[Len(queue) + j] = [x \in 1..n |-> "sending"][j]
    BY <1>1 DEF Joins, Extended
  <2>3. hits'[Len(queue) + j] = [x \in 1..n |-> 0][j]
    BY <1>1 DEF Joins, Extended
  <2>. QED BY <2>1, <2>2, <2>3
<1>5. \A i \in DOMAIN queue' : i \in DOMAIN queue \/ \E j \in 1..n : i = Len(queue) + j
  BY DEF Joins, Extended
<1>6. /\ \A k \in DOMAIN waiting : k \in DOMAIN waiting' /\ waiting'[k] = waiting[k]
      /\ \A k \in DOMAIN waiting' : k \in DOMAIN waiting \/ \E j \in 1..s : k = Len(waiting) + j
  BY DEF Joins, Extended
<1>7. ASSUME NEW j \in 1..s
      PROVE  Len(waiting) + j \in DOMAIN waiting' /\ waiting'[Len(waiting) + j] = Len(queue) + j
  <2>1. /\ Len(waiting) + j \in DOMAIN waiting'
        /\ waiting'[Len(waiting) + j] = [x \in 1..s |-> Len(queue) + x][j]
    BY DEF Joins, Extended
  <2>. QED BY <2>1
<1>. QED BY <1>2, <1>3, <1>4, <1>5, <1>6, <1>7

LEMMA UploadStep ==
  ASSUME ClientInv, NEW g \in Gesture, stage[g] # "queued", NEW es, NEW s,
         Entries(g, es, s), Upload(g, es, s)
  PROVE  ClientInv'
<1>1. /\ line' = line /\ copies' = copies /\ got' = got /\ closed' = closed
      /\ stage' = [stage EXCEPT ![g] = "queued"]
  BY DEF Upload, readVars
<1>2. PICK n : Joins(g, es, s, n)
  BY UploadJoins
<1>3. PICK N : N = Len(queue)
  OBVIOUS
<1>4. PICK M : M = Len(waiting)
  OBVIOUS
<1>5. /\ N \in Nat /\ DOMAIN queue = 1..N /\ M \in Nat /\ n \in Nat /\ DOMAIN es = 1..n
      /\ s \in 0..n /\ 1..s \subseteq 1..n
  BY <1>2, <1>3, <1>4, QueueFacts DEF ClientInv, Joins
<1>6. /\ \A i \in DOMAIN queue : /\ i \in DOMAIN queue' /\ queue'[i] = queue[i]
                                 /\ shown'[i] = shown[i] /\ hits'[i] = hits[i]
      /\ \A k \in DOMAIN waiting : k \in DOMAIN waiting' /\ waiting'[k] = waiting[k]
  BY <1>2, JoinedFacts
<1>7. /\ \A j \in DOMAIN es :
           /\ N + j \in DOMAIN queue' /\ N + j \notin DOMAIN queue /\ queue'[N + j] = Entry(g, es, s, j)
           /\ shown'[N + j] = "sending" /\ hits'[N + j] = 0
      /\ \A j \in 1..s :
           /\ j \in DOMAIN es /\ N + j \notin DOMAIN queue
           /\ M + j \in DOMAIN waiting' /\ waiting'[M + j] = N + j
      /\ \A i \in DOMAIN queue' : i \in DOMAIN queue \/ \E j \in DOMAIN es : i = N + j
      /\ \A k \in DOMAIN waiting' : k \in DOMAIN waiting \/ \E j \in 1..s : k = M + j
      /\ \A k \in DOMAIN waiting' : k \in DOMAIN waiting \/ waiting'[k] \notin DOMAIN queue
  <2>1. /\ \A j \in DOMAIN es :
             /\ N + j \in DOMAIN queue' /\ N + j \notin DOMAIN queue /\ queue'[N + j] = Entry(g, es, s, j)
             /\ shown'[N + j] = "sending" /\ hits'[N + j] = 0
        /\ \A j \in 1..s : M + j \in DOMAIN waiting' /\ waiting'[M + j] = N + j
        /\ \A i \in DOMAIN queue' : i \in DOMAIN queue \/ \E j \in DOMAIN es : i = N + j
        /\ \A k \in DOMAIN waiting' : k \in DOMAIN waiting \/ \E j \in 1..s : k = M + j
    BY <1>2, <1>3, <1>4, JoinedFacts
  <2>2. \A j \in 1..s : j \in DOMAIN es
    BY <1>5
  <2>. QED BY <2>1, <2>2
<1>8. /\ Staged' /\ stage'[g] = "queued"
      /\ \A h \in Gesture : h # g => stage'[h] = stage[h]
  BY <1>1 DEF ClientInv, Typed, Staged, States
<1>9. PICK owner : \A h \in Gesture : \A f \in FilesOf(h) : owner[f] = h
  BY FilesOwned
<1>10. \A i \in DOMAIN queue : queue[i].by \in Gesture /\ queue[i].by # g /\ stage[queue[i].by] = "queued"
  BY DEF ClientInv, Queued
\* No entry has had a file of this gesture.
<1>11. \A i \in DOMAIN queue : \A k \in DOMAIN queue[i].files : queue[i].files[k].file \notin FilesOf(g)
  BY <1>9, <1>10 DEF ClientInv, Queued
<1>12. \A j \in DOMAIN es : /\ Entry(g, es, s, j).by = g /\ Entry(g, es, s, j).root = es[j].root
                            /\ Entry(g, es, s, j).files = es[j].files
                            /\ (Entry(g, es, s, j).sent <=> j <= s)
  BY DEF Entry
<1>13. \A j \in DOMAIN es : \A k \in DOMAIN es[j].files :
         es[j].files[k].file \in FilesOf(g) /\ Belongs(g, es[j].root, es[j].files[k])
  BY DEF Entries
<1>14. Typed'
  <2>1. Len(shown') = Len(queue') /\ Len(hits') = Len(queue')
    BY <1>2 DEF Joins
  <2>. QED BY <1>1, <1>2, <1>8, <2>1 DEF ClientInv, Typed, Joins, Shown
<1>15. ReadRight'
  BY <1>1 DEF ClientInv, ReadRight, ReadOK
<1>16. Queued'
  <2>1. ASSUME NEW i \in DOMAIN queue'
        PROVE  /\ queue'[i].by \in Gesture /\ stage'[queue'[i].by] = "queued"
               /\ \E I : queue'[i].files \in Seq(I)
               /\ \A k \in DOMAIN queue'[i].files :
                    /\ queue'[i].files[k].file \in FilesOf(queue'[i].by)
                    /\ Belongs(queue'[i].by, queue'[i].root, queue'[i].files[k])
    <3>1. CASE i \in DOMAIN queue
      BY <1>6, <1>8, <1>10, <3>1 DEF ClientInv, Queued
    <3>2. CASE \E j \in DOMAIN es : i = N + j
      <4>1. PICK j \in DOMAIN es : i = N + j
        BY <3>2
      <4>2. queue'[i].by = g /\ queue'[i].root = es[j].root /\ queue'[i].files = es[j].files
        BY <1>7, <1>12, <4>1
      <4>3. \E I : es[j].files \in Seq(I)
        <5>1. PICK R, I : es \in Seq([root : R, files : Seq(I)])
          BY DEF Entries
        <5>2. j \in 1..Len(es)
          BY <5>1, LenProperties
        <5>3. es[j] \in [root : R, files : Seq(I)]
          BY <5>1, <5>2, ElementOfSeq
        <5>. QED BY <5>3
      <4>. QED BY <1>8, <1>13, <4>2, <4>3
    <3>. QED BY <1>7, <3>1, <3>2
  <2>2. Once(queue')
    <3>. SUFFICES ASSUME NEW i \in DOMAIN queue', NEW j \in DOMAIN queue',
                         NEW k \in DOMAIN queue'[i].files, NEW l \in DOMAIN queue'[j].files,
                         queue'[i].files[k].file = queue'[j].files[l].file
                  PROVE  i = j /\ k = l
      BY DEF Once
    <3>1. CASE i \in DOMAIN queue /\ j \in DOMAIN queue
      BY <1>6, <3>1 DEF ClientInv, Queued, Once
    <3>2. CASE (\E x \in DOMAIN es : i = N + x) /\ (\E y \in DOMAIN es : j = N + y)
      <4>1. PICK x \in DOMAIN es, y \in DOMAIN es : i = N + x /\ j = N + y
        BY <3>2
      <4>2. queue'[i].files = es[x].files /\ queue'[j].files = es[y].files
        BY <1>7, <1>12, <4>1
      <4>3. x = y /\ k = l
        BY <4>2 DEF Entries, Once
      <4>. QED BY <4>1, <4>3
    <3>3. CASE i \in DOMAIN queue /\ (\E y \in DOMAIN es : j = N + y)
      <4>1. PICK y \in DOMAIN es : j = N + y
        BY <3>3
      <4>2. queue'[i].files = queue[i].files /\ queue'[j].files = es[y].files
        BY <1>6, <1>7, <1>12, <3>3, <4>1
      <4>. QED BY <1>11, <1>13, <3>3, <4>2
    <3>4. CASE (\E x \in DOMAIN es : i = N + x) /\ j \in DOMAIN queue
      <4>1. PICK x \in DOMAIN es : i = N + x
        BY <3>4
      <4>2. queue'[j].files = queue[j].files /\ queue'[i].files = es[x].files
        BY <1>6, <1>7, <1>12, <3>4, <4>1
      <4>. QED BY <1>11, <1>13, <3>4, <4>2
    <3>. QED BY <1>7, <3>1, <3>2, <3>3, <3>4
  <2>3. ASSUME NEW h \in Gesture, stage'[h] = "queued", NEW f \in TakenUp(h)
        PROVE  \E i \in DOMAIN queue' :
                 queue'[i].by = h /\ queue'[i].sent /\ \E k \in DOMAIN queue'[i].files : queue'[i].files[k].file = f
    <3>1. CASE h = g
      <4>1. PICK j \in DOMAIN es : j <= s /\ \E k \in DOMAIN es[j].files : es[j].files[k].file = f
        BY <2>3, <3>1 DEF Entries
      <4>. QED BY <1>7, <1>12, <3>1, <4>1
    <3>2. CASE h # g
      <4>1. PICK i \in DOMAIN queue :
              queue[i].by = h /\ queue[i].sent /\ \E k \in DOMAIN queue[i].files : queue[i].files[k].file = f
        BY <1>8, <2>3, <3>2 DEF ClientInv, Queued
      <4>. QED BY <1>6, <4>1
    <3>. QED BY <3>1, <3>2
  <2>. QED BY <2>1, <2>2, <2>3 DEF Queued
<1>17. Stocked'
  <2>1. ASSUME NEW f \in File, copies[f] # 0
        PROVE  \E i \in DOMAIN queue' : \E k \in DOMAIN queue'[i].files : queue'[i].files[k].file = f
    <3>1. PICK i \in DOMAIN queue : \E k \in DOMAIN queue[i].files : queue[i].files[k].file = f
      BY <2>1 DEF ClientInv, Stocked
    <3>. QED BY <1>6, <3>1
  <2>. QED BY <1>1, <2>1 DEF Stocked
<1>18. ASSUME NEW i \in DOMAIN queue, AllStored(i) PROVE AllStored(i)'
  BY <1>1, <1>6, <1>18 DEF AllStored
<1>19. ASSUME NEW b \in Conn PROVE LineOK(b)' /\ On(b)' = On(b)
  <2>1. LineOK(b) /\ On(b)' = On(b)
    BY <1>1 DEF ClientInv, On
  <2>2. line[b].of # 0 => /\ line[b].of \in DOMAIN queue /\ line[b].of \in DOMAIN queue'
                          /\ queue'[line[b].of] = queue[line[b].of]
    BY <1>6, <2>1 DEF LineOK
  <2>. QED BY <1>1, <2>1, <2>2 DEF LineOK, AllStored
<1>20. Tracked'
  <2>1. \A a, b \in Conn : On(a)' = On(b)' /\ On(b)' # 0 => a = b
    BY <1>19 DEF ClientInv, Tracked
  <2>2. \A k \in DOMAIN waiting : waiting[k] \in DOMAIN queue
    BY DEF ClientInv, Tracked
  <2>3. ASSUME NEW k \in DOMAIN waiting', NEW l \in DOMAIN waiting', waiting'[k] = waiting'[l]
        PROVE  k = l
    <3>1. CASE k \in DOMAIN waiting /\ l \in DOMAIN waiting
      BY <1>6, <2>3, <3>1 DEF ClientInv, Tracked
    <3>2. CASE (\E x \in 1..s : k = M + x) /\ (\E y \in 1..s : l = M + y)
      <4>1. PICK x \in 1..s, y \in 1..s : k = M + x /\ l = M + y
        BY <3>2
      <4>2. N + x = N + y
        BY <1>7, <2>3, <4>1
      <4>3. x = y
        BY <1>5, <4>2
      <4>. QED BY <4>1, <4>3
    <3>3. CASE k \in DOMAIN waiting /\ (\E y \in 1..s : l = M + y)
      BY <1>6, <1>7, <2>2, <2>3, <3>3
    <3>4. CASE (\E x \in 1..s : k = M + x) /\ l \in DOMAIN waiting
      BY <1>6, <1>7, <2>2, <2>3, <3>4
    <3>. QED BY <1>7, <3>1, <3>2, <3>3, <3>4
  <2>4. \A b \in Conn : On(b) = 0 \/ On(b) \in DOMAIN queue
    BY DEF ClientInv, LineOK, On
  <2>5. ASSUME NEW k \in DOMAIN waiting'
        PROVE  waiting'[k] \in DOMAIN queue' /\ \A b \in Conn : On(b)' # waiting'[k]
    <3>1. CASE k \in DOMAIN waiting
      BY <1>6, <1>19, <3>1 DEF ClientInv, Tracked
    <3>2. CASE \E x \in 1..s : k = M + x
      <4>1. PICK x \in 1..s : k = M + x
        BY <3>2
      <4>2. N + x # 0
        BY <1>5
      <4>. QED BY <1>7, <1>19, <2>4, <4>1, <4>2
    <3>. QED BY <1>7, <3>1, <3>2
  <2>6. ASSUME NEW i \in DOMAIN queue'
        PROVE  /\ ~queue'[i].sent => shown'[i] = "sending"
               /\ queue'[i].sent /\ shown'[i] = "sending" <=>
                    (\E k \in DOMAIN waiting' : waiting'[k] = i) \/ (\E b \in Conn : On(b)' = i)
    <3>1. CASE i \in DOMAIN queue
      <4>1. (\E k \in DOMAIN waiting' : waiting'[k] = i) <=> \E k \in DOMAIN waiting : waiting[k] = i
        BY <1>6, <1>7, <3>1
      <4>2. queue'[i] = queue[i] /\ shown'[i] = shown[i] /\ \A b \in Conn : On(b)' = On(b)
        BY <1>6, <1>19, <3>1
      <4>. QED BY <3>1, <4>1, <4>2 DEF ClientInv, Tracked
    <3>2. CASE \E j \in DOMAIN es : i = N + j
      <4>1. PICK j \in DOMAIN es : i = N + j
        BY <3>2
      <4>2. /\ shown'[i] = "sending" /\ (queue'[i].sent <=> j <= s)
            /\ i \notin DOMAIN queue /\ i # 0
        BY <1>5, <1>7, <1>12, <4>1
      <4>3. \A b \in Conn : On(b)' # i
        BY <1>19, <2>4, <4>2
      <4>4. j <= s <=> j \in 1..s
        BY <1>5
      <4>5. \A x \in 1..s : N + x = N + j => x = j
        BY <1>5
      <4>6. (\E k \in DOMAIN waiting' : waiting'[k] = i) <=> j \in 1..s
        BY <1>6, <1>7, <2>2, <4>1, <4>2, <4>5
      <4>. QED BY <4>2, <4>3, <4>4, <4>6
    <3>. QED BY <1>7, <3>1, <3>2
  <2>. QED BY <2>1, <2>3, <2>5, <2>6 DEF Tracked
<1>21. ASSUME NEW i \in DOMAIN queue', NEW k \in DOMAIN queue'[i].files
       PROVE  Load(i, k)' <= 1 + hits'[i]
  <2>1. Pending(i, k)' = Pending(i, k)
    BY <1>1 DEF Pending
  <2>2. CASE i \in DOMAIN queue
    <3>1. queue'[i] = queue[i] /\ hits'[i] = hits[i] /\ shown'[i] = shown[i]
      BY <1>6, <2>2
    <3>2. Owes(i)' <=> Owes(i)
      <4>1. (\E j \in DOMAIN waiting' : waiting'[j] = i) <=> \E j \in DOMAIN waiting : waiting[j] = i
        BY <1>6, <1>7, <2>2
      <4>. QED BY <1>1, <3>1, <4>1 DEF Owes
    <3>3. Load(i, k)' = Load(i, k)
      BY <1>1, <2>1, <3>1, <3>2 DEF Load
    <3>4. Load(i, k) <= 1 + hits[i]
      BY <2>2, <3>1 DEF ClientInv, Budget
    <3>. QED BY <3>1, <3>3, <3>4
  <2>3. CASE \E j \in DOMAIN es : i = N + j
    <3>1. PICK j \in DOMAIN es : i = N + j
      BY <2>3
    <3>2. queue'[i].files = es[j].files /\ hits'[i] = 0 /\ i \notin DOMAIN queue /\ i # 0
      BY <1>5, <1>7, <1>12, <3>1
    <3>3. Pending(i, k) = {}
      BY <3>2 DEF ClientInv, LineOK, Pending
    <3>4. Cardinality(Pending(i, k)') = 0
      BY <2>1, <3>3, FS_EmptySet
    <3>5. es[j].files[k].file \in FilesOf(g) /\ es[j].files[k].file \in File
      BY <1>13, <3>2, FilesTyped
    <3>6. copies[es[j].files[k].file] = 0
      BY <1>11, <3>5 DEF ClientInv, Stocked
    <3>7. copies'[queue'[i].files[k].file] = 0
      BY <1>1, <3>2, <3>6
    <3>8. Load(i, k)' = 0 + 0 + (IF Owes(i)' THEN 1 ELSE 0)
      BY <3>4, <3>7 DEF Load
    <3>9. (IF Owes(i)' THEN 1 ELSE 0) \in 0..1
      OBVIOUS
    <3>. QED BY <3>2, <3>8, <3>9
  <2>. QED BY <1>7, <2>2, <2>3
<1>22. Done'
  <2>1. ASSUME NEW i \in DOMAIN queue', shown'[i] = "done" PROVE AllStored(i)'
    <3>1. i \in DOMAIN queue /\ shown[i] = "done"
      BY <1>6, <1>7, <2>1
    <3>. QED BY <1>18, <3>1 DEF ClientInv, Done
  <2>. QED BY <2>1 DEF Done
<1>. QED BY <1>14, <1>15, <1>16, <1>17, <1>19, <1>20, <1>21, <1>22 DEF ClientInv, Budget

LEMMA PickStep ==
  ASSUME ClientInv, NEW g \in Gesture, Pick(g) PROVE ClientInv'
<1>1. PICK es : es = PickedEntries(g)
  OBVIOUS
<1>2. Kind[g] # "drop" /\ stage[g] # "queued" /\ Upload(g, es, Started(g))
  BY <1>1 DEF Pick
<1>3. Entries(g, es, Started(g))
  BY <1>1, <1>2, PickedWhole
<1>. QED BY <1>2, <1>3, UploadStep

LEMMA DroppedStep ==
  ASSUME ClientInv, NEW g \in Gesture, Dropped(g) PROVE ClientInv'
<1>1. PICK es : es = DroppedEntries(g)
  OBVIOUS
<1>2. /\ stage[g] = "reading" /\ Kind[g] = "drop" /\ DirectoriesOf[g] \subseteq closed
      /\ ReportDropError(g) \/ Upload(g, es, Len(es))
  BY <1>1 DEF Dropped, ClientInv, Typed, Staged
<1>3. CASE ReportDropError(g)
  BY <1>2, <1>3, ReportDropErrorStep
<1>4. CASE Upload(g, es, Len(es))
  <2>1. AllRead(g) /\ ReadOK
    BY <1>2 DEF AllRead, ClientInv, ReadRight
  <2>2. Entries(g, es, Len(es))
    <3>1. Whole(g, DroppedEntries(g))
      BY <1>2, <2>1, DroppedWhole
    <3>. QED BY <1>1, <3>1, WholeEntries
  <2>. QED BY <1>2, <1>4, <2>2, UploadStep
<1>. QED BY <1>2, <1>3, <1>4

-----------------------------------------------------------------------------
(* The invariant, and what follows from it.                                *)

LEMMA InvStays ==
  ASSUME ClientInv, [ClientNext]_clientVars PROVE ClientInv'
<1>1. ASSUME NEW g \in Gesture, Pick(g) PROVE ClientInv'
  BY <1>1, PickStep
<1>2. ASSUME NEW g \in Gesture, Drop(g) PROVE ClientInv'
  BY <1>2, DropStep
<1>3. ASSUME NEW g \in Gesture, Dropped(g) PROVE ClientInv'
  BY <1>3, DroppedStep
<1>4. ASSUME NEW g \in Gesture, NEW d \in Directory, ReadBatch(g, d) PROVE ClientInv'
  BY <1>4, ReadBatchStep
<1>5. ASSUME NEW g \in Gesture, NEW d \in Directory, CloseDirectory(g, d) PROVE ClientInv'
  BY <1>5, CloseDirectoryStep
<1>6. ASSUME NEW g \in Gesture, ReadFails(g) PROVE ClientInv'
  BY <1>6, ReportDropErrorStep DEF ReadFails
<1>7. ASSUME NEW i \in DOMAIN queue, Retry(i) PROVE ClientInv'
  BY <1>7, RetryStep
<1>8. ASSUME NEW c \in Conn, Connect(c) PROVE ClientInv'
  BY <1>8, ConnectStep
<1>9. ASSUME NEW c \in Conn, Hear(c) PROVE ClientInv'
  BY <1>9, HearStep
<1>10. ASSUME NEW c \in Conn, Lose(c) PROVE ClientInv'
  BY <1>10, LoseStep
<1>11. ASSUME NEW c \in Conn, Serve(c) PROVE ClientInv'
  BY <1>11, AdmitStep, RefuseStep, StoreNextStep, FinishStep, TooManyFilesStep, VanishStep DEF Serve
<1>12. ASSUME NEW c \in Conn, ServerFails(c) PROVE ClientInv'
  BY <1>12, ServerFailsStep
<1>13. CASE UNCHANGED clientVars
  <2>1. /\ got' = got /\ closed' = closed /\ stage' = stage /\ queue' = queue /\ shown' = shown
        /\ waiting' = waiting /\ line' = line /\ copies' = copies /\ hits' = hits
    BY <1>13 DEF clientVars, readVars, pageVars
  <2>2. ReadRight' /\ Queued' /\ Staged'
    BY <2>1, Calm DEF ClientInv, Typed, Staged
  <2>. QED BY <2>1, <2>2, ReadingStep
<1>14. CASE ClientNext
  BY <1>1, <1>2, <1>3, <1>4, <1>5, <1>6, <1>7, <1>8, <1>9, <1>10, <1>11, <1>12, <1>14
     DEF ClientNext, Read
<1>. QED BY <1>13, <1>14

THEOREM ClientInvariant == ClientSpec => []ClientInv
<1>1. ClientInv /\ [ClientNext]_clientVars => ClientInv'
  BY InvStays
<1>. QED BY <1>1, InvInit, PTL DEF ClientSpec

\* Every variable of the page keeps its type, and an entry that was sent and
\* shows itself as being sent has exactly one request that waits, or that is
\* heard of, while connections break and entries are sent again; no other
\* entry has one.  The entry of a second picked file (app.js:28) was never
\* sent, and shows itself as being sent for ever.
THEOREM ClientTypesCorrect == ClientSpec => []ClientTypeOK
<1>1. ClientInv => ClientTypeOK
  BY InvImplies
<1>. QED BY <1>1, ClientInvariant, PTL

\* "Dropped folders are uploaded recursively with their directory structure
\* preserved": for all trees and all folders, entriesFromFiles and
\* droppedEntries put every file of a drop or of a picked folder into the
\* queue, once and where it belongs, or none of them, in whatever order the
\* callbacks of the browser come.  Of several files picked without a folder
\* exactly the first is queued and sent (app.js:28).
THEOREM GesturesWhole == ClientSpec => []GestureWhole
<1>1. ClientInv => GestureWhole
  BY InvImplies
<1>. QED BY <1>1, ClientInvariant, PTL

\* The page shows an entry as uploaded only if the server has every file of
\* it, whatever was lost, refused or sent again before.
THEOREM UploadedAlwaysStored == ClientSpec => []UploadedIsStored
<1>1. ClientInv => UploadedIsStored
  BY InvImplies
<1>. QED BY <1>1, ClientInvariant, PTL

\* No file is stored more than once without a failure that explains it, also
\* when the server goes on with a request that the page has given up.
THEOREM CopiesAlwaysExplained == ClientSpec => []CopiesExplained
<1>1. ClientInv => CopiesExplained
  BY InvImplies
<1>. QED BY <1>1, ClientInvariant, PTL
=============================================================================
