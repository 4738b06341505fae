------------------------ MODULE FolderUpload_proofs -------------------------
(***************************************************************************)
(* Proofs about FolderUpload, for every set of requests and bodies, every  *)
(* number of candidates and every limit of a name.                         *)
(***************************************************************************)
EXTENDS FolderUpload, Foundations, SequenceTheorems

-----------------------------------------------------------------------------
(* Paths.                                                                  *)

IsPath(p) == \E S : p \in Seq(S)

LEMMA PathLength ==
  ASSUME NEW p, IsPath(p)
  PROVE  Len(p) \in Nat /\ DOMAIN p = 1..Len(p) /\ (p = <<>> <=> Len(p) = 0)
<1>1. PICK S : p \in Seq(S)
  BY DEF IsPath
<1>. QED BY <1>1, EmptySeq, LenProperties

\* A path with one more name.
LEMMA PathAppend ==
  ASSUME NEW p, IsPath(p), NEW x
  PROVE  /\ IsPath(Append(p, x)) /\ Append(p, x) # <<>>
         /\ Len(Append(p, x)) = Len(p) + 1
         /\ \A i \in 1..Len(p) : Append(p, x)[i] = p[i]
         /\ Front(Append(p, x)) = p /\ Last(Append(p, x)) = x
         /\ Append(p, x)[1] = IF p = <<>> THEN x ELSE p[1]
<1>1. PICK S : p \in Seq(S)
  BY DEF IsPath
<1>. DEFINE T == S \cup {x}
            q == Append(p, x)
<1>2. p \in Seq(T) /\ x \in T
  BY <1>1, SeqMonotonic
<1>3. /\ q \in Seq(T) /\ Len(q) = Len(p) + 1 /\ Len(p) \in Nat
      /\ \A i \in 1..Len(p) : q[i] = p[i]
      /\ q[Len(p) + 1] = x
  BY <1>2, AppendProperties, LenProperties
<1>4. q # <<>> /\ IsPath(q)
  BY <1>3, EmptySeq DEF IsPath
<1>5. Front(q) = p
  <2>1. /\ SubSeq(q, 1, Len(p)) \in Seq(T) /\ Len(SubSeq(q, 1, Len(p))) = Len(p)
        /\ \A i \in 1..Len(p) : SubSeq(q, 1, Len(p))[i] = q[i]
    <3>1. \A i \in 1..Len(p) : q[i] \in T
      BY <1>2, <1>3, ElementOfSeq
    <3>. HIDE DEF T, q
    <3>. QED BY <1>3, <3>1, SubSeqProperties
  <2>2. SubSeq(q, 1, Len(p)) = p
    <3>. HIDE DEF T, q
    <3>. QED BY <1>2, <1>3, <2>1, SeqEqual
  <2>. HIDE DEF T, q
  <2>3. Len(q) - 1 = Len(p)
    BY <1>3
  <2>. QED BY <2>2, <2>3 DEF Front
<1>6. Last(q) = x
  BY <1>3 DEF Last
<1>7. q[1] = IF p = <<>> THEN x ELSE p[1]
  BY <1>1, <1>3, EmptySeq
<1>. QED BY <1>3, <1>4, <1>5, <1>6, <1>7

LEMMA PathOne ==
  ASSUME NEW x
  PROVE  /\ IsPath(<<x>>) /\ <<x>> # <<>> /\ Len(<<x>>) = 1 /\ <<x>>[1] = x
         /\ <<x>> \in Seq({x}) /\ DOMAIN <<x>> = {1}
<1>1. <<x>> \in Seq({x})
  OBVIOUS
<1>2. Len(<<x>>) = 1
  OBVIOUS
<1>3. DOMAIN <<x>> = {1}
  <2>1. DOMAIN <<x>> = 1..1
    BY <1>1, <1>2, LenProperties
  <2>. QED BY <2>1
<1>. QED BY <1>1, <1>3 DEF IsPath

-----------------------------------------------------------------------------
(* The length of a name in bytes.                                          *)

LEMMA WidthPositive == \A c : Width(c) \in Nat \ {0}
<1>. SUFFICES ASSUME NEW c PROVE Width(c) \in Nat \ {0}
  OBVIOUS
<1>1. CASE c = "replacement"
  <2>1. c \notin DOMAIN Wide
    BY <1>1, NamesAssumption
  <2>2. Width(c) = 3
    BY <1>1, <2>1 DEF Width
  <2>. QED BY <2>2
<1>2. CASE c # "replacement" /\ c \in DOMAIN Wide
  BY <1>2, NamesAssumption DEF Width
<1>3. CASE c # "replacement" /\ c \notin DOMAIN Wide
  BY <1>3 DEF Width
<1>. QED BY <1>1, <1>2, <1>3

\* a[i] is the number of bytes of the first i characters.
ByteCount(a, name) ==
  /\ a \in [0..Len(name) -> Nat] /\ a[0] = 0
  /\ \A i \in 1..Len(name) : a[i] = a[i - 1] + Width(name[i])

\* Any count of the bytes, character by character, comes to Bytes.
LEMMA BytesCount ==
  ASSUME NEW S, NEW name \in Seq(S)
  PROVE  \E a : ByteCount(a, name) /\ Bytes(name) = a[Len(name)]
<1>. DEFINE n == Len(name)
            G == [u \in Nat \X (1..n) |-> u[1] + Width(name[u[2]])]
            Eq(f) == f = [s \in SUBSET DOMAIN name |->
                            IF s = {} THEN 0 ELSE f[s \ {Max(s)}] + Width(name[Max(s)])]
<1>1. n \in Nat /\ DOMAIN name = 1..n
  BY LenProperties
<1>2. G \in [Nat \X (1..n) -> Nat]
  BY WidthPositive
<1>3. PICK f \in [SUBSET (1..n) -> Nat] : FoldsUp(f, n, 0, G)
  <2>. HIDE DEF G, n
  <2>. QED BY <1>1, <1>2, FoldExists
<1>4. ASSUME NEW s \in SUBSET (1..n), s # {}
      PROVE  Max(s) = Greatest(s) /\ Max(s) \in 1..n /\ s \ {Max(s)} \in SUBSET (1..n)
  <2>1. Max(s) = Greatest(s)
    BY DEF Max, Greatest
  <2>. HIDE DEF n
  <2>. QED BY <1>1, <1>4, <2>1, GreatestElement
<1>5. ASSUME NEW s \in SUBSET (1..n), s # {}
      PROVE  f[s] = f[s \ {Max(s)}] + Width(name[Max(s)])
  <2>1. f[s] = G[<<f[s \ {Max(s)}], Max(s)>>]
    BY <1>3, <1>4, <1>5 DEF FoldsUp
  <2>2. f[s \ {Max(s)}] \in Nat
    BY <1>4, <1>5
  <2>. QED BY <1>4, <1>5, <2>1, <2>2
<1>6. f[{}] = 0
  BY <1>3 DEF FoldsUp
<1>7. Eq(f)
  BY <1>1, <1>5, <1>6
<1>8. PICK iter : Eq(iter) /\ Bytes(name) = iter[DOMAIN name]
  <2>1. Bytes(name) = (CHOOSE g : Eq(g))[DOMAIN name]
    BY DEF Bytes, FoldLeft, MapThenFoldSet
  <2>2. Eq(CHOOSE g : Eq(g))
    BY <1>7
  <2>. QED BY <2>1, <2>2
<1>9. FoldAlike(iter, f, n)
  <2>1. \A s \in SUBSET (1..n) :
          iter[s] = IF s = {} THEN 0 ELSE iter[s \ {Max(s)}] + Width(name[Max(s)])
    BY <1>1, <1>8
  <2>2. ASSUME NEW s \in SUBSET (1..n), s # {},
               iter[s \ {Greatest(s)}] = f[s \ {Greatest(s)}]
        PROVE  iter[s] = f[s]
    BY <1>4, <1>5, <2>1, <2>2
  <2>3. iter[{}] = 0
    BY <2>1
  <2>. HIDE DEF n
  <2>. QED BY <1>6, <2>2, <2>3 DEF FoldAlike
<1>10. Bytes(name) = f[1..n]
  <2>1. n \in Nat
    BY <1>1
  <2>2. \A s \in SUBSET (1..n) : iter[s] = f[s]
    <3>. HIDE DEF n
    <3>. QED BY <1>9, <2>1, FoldUnique, ZenonT(30)
  <2>. QED BY <1>1, <1>8, <2>2
<1>. DEFINE a == [i \in 0..n |-> f[1..i]]
<1>11. a \in [0..n -> Nat] /\ a[0] = 0 /\ a[n] = f[1..n]
  <2>1. \A i \in 0..n : 1..i \in SUBSET (1..n)
    BY <1>1
  <2>2. 1..0 = {} /\ 0 \in 0..n /\ n \in 0..n
    BY <1>1
  <2>. QED BY <1>6, <2>1, <2>2
<1>12. ASSUME NEW i \in 1..n PROVE a[i] = a[i - 1] + Width(name[i])
  <2>1. /\ 1..i \in SUBSET (1..n) /\ 1..i # {} /\ i \in 0..n /\ i - 1 \in 0..n
        /\ (1..i) \ {i} = 1..(i - 1)
    BY <1>1
  <2>2. Max(1..i) = i
    <3>1. Greatest(1..i) \in 1..i /\ \A y \in 1..i : Greatest(1..i) >= y
      <4>. HIDE DEF n
      <4>. QED BY <1>1, <2>1, GreatestElement
    <3>2. i \in 1..i
      BY <1>1
    <3>3. Greatest(1..i) >= i
      BY <3>1, <3>2
    <3>4. Max(1..i) = Greatest(1..i)
      BY <1>4, <2>1
    <3>5. \A g \in 1..i : g >= i => g = i
      BY <1>1
    <3>. QED BY <3>1, <3>3, <3>4, <3>5
  <2>3. f[1..i] = f[1..(i - 1)] + Width(name[i])
    BY <1>5, <2>1, <2>2
  <2>. QED BY <2>1, <2>3
<1>. HIDE DEF a
<1>13. ByteCount(a, name)
  BY <1>11, <1>12 DEF ByteCount
<1>. QED BY <1>10, <1>11, <1>13

LEMMA ChainBytes ==
  ASSUME NEW S, NEW name \in Seq(S), NEW a, ByteCount(a, name)
  PROVE  Bytes(name) = a[Len(name)] /\ Bytes(name) \in Nat
<1>1. PICK b : ByteCount(b, name) /\ Bytes(name) = b[Len(name)]
  BY BytesCount
<1>. DEFINE T == {i \in 0..Len(name) : a[i] = b[i]}
<1>2. 0 \in T /\ Len(name) \in Nat
  BY <1>1, LenProperties DEF ByteCount
<1>3. ASSUME NEW m \in 0..(Len(name) - 1), m \in T PROVE m + 1 \in T
  <2>1. m + 1 \in 1..Len(name) /\ (m + 1) - 1 = m /\ a[m] = b[m]
    BY <1>2, <1>3
  <2>2. a[m + 1] = b[m + 1]
    BY <1>1, <2>1 DEF ByteCount
  <2>. QED BY <1>2, <2>1, <2>2
<1>. HIDE DEF T
<1>4. 0..Len(name) \subseteq T
  BY <1>2, <1>3, AllUpTo
<1>5. Len(name) \in 0..Len(name)
  BY <1>2
<1>. QED BY <1>1, <1>4, <1>5 DEF T, ByteCount

\* The bytes of two names, one after the other.
LEMMA BytesConcat ==
  ASSUME NEW S, NEW s \in Seq(S), NEW t \in Seq(S)
  PROVE  Bytes(s \o t) = Bytes(s) + Bytes(t) /\ Bytes(s) \in Nat /\ Bytes(t) \in Nat
<1>1. PICK a : ByteCount(a, s) /\ Bytes(s) = a[Len(s)]
  BY BytesCount
<1>2. PICK b : ByteCount(b, t) /\ Bytes(t) = b[Len(t)]
  BY BytesCount
<1>. DEFINE m == Len(s)
            n == Len(t)
            c == [i \in 0..(m + n) |-> IF i <= m THEN a[i] ELSE a[m] + b[i - m]]
<1>3. /\ m \in Nat /\ n \in Nat /\ s \o t \in Seq(S) /\ Len(s \o t) = m + n
      /\ \A i \in 1..m + n : (s \o t)[i] = IF i <= m THEN s[i] ELSE t[i - m]
  BY LenProperties, ConcatProperties
<1>4. /\ a \in [0..m -> Nat] /\ a[0] = 0 /\ \A i \in 1..m : a[i] = a[i - 1] + Width(s[i])
      /\ b \in [0..n -> Nat] /\ b[0] = 0 /\ \A i \in 1..n : b[i] = b[i - 1] + Width(t[i])
  BY <1>1, <1>2 DEF ByteCount
<1>. HIDE DEF m, n
<1>5. c \in [0..(m + n) -> Nat]
  <2>1. ASSUME NEW i \in 0..(m + n) PROVE (IF i <= m THEN a[i] ELSE a[m] + b[i - m]) \in Nat
    <3>1. CASE i <= m
      BY <1>3, <1>4, <3>1
    <3>2. CASE ~(i <= m)
      <4>1. i - m \in 0..n /\ m \in 0..m
        BY <1>3, <3>2
      <4>. QED BY <1>4, <3>2, <4>1
    <3>. QED BY <3>1, <3>2
  <2>. QED BY <2>1
<1>6. ASSUME NEW i \in 1..(m + n) PROVE c[i] = c[i - 1] + Width((s \o t)[i])
  <2>1. i \in 0..(m + n) /\ i - 1 \in 0..(m + n)
    BY <1>3
  <2>2. CASE i <= m
    <3>1. i \in 1..m /\ i - 1 <= m
      BY <1>3, <2>2
    <3>. QED BY <1>3, <1>4, <2>1, <2>2, <3>1
  <2>3. CASE i = m + 1
    <3>1. 1 \in 1..n /\ i - m = 1 /\ i - 1 = m /\ ~(i <= m) /\ m <= m
      BY <1>3, <2>3
    <3>2. b[1] = Width(t[1])
      <4>1. b[1] = b[1 - 1] + Width(t[1])
        BY <1>4, <3>1
      <4>. QED BY <1>4, <4>1, WidthPositive
    <3>3. c[i] = a[m] + b[1] /\ c[i - 1] = a[m] /\ (s \o t)[i] = t[1]
      BY <1>3, <2>1, <3>1
    <3>. HIDE DEF c
    <3>. QED BY <3>2, <3>3
  <2>4. CASE i > m + 1
    <3>1. i - m \in 1..n /\ (i - m) - 1 = (i - 1) - m /\ ~(i <= m) /\ ~(i - 1 <= m)
          /\ (i - 1) - m \in 0..n /\ m \in 0..m
      BY <1>3, <2>4
    <3>2. b[i - m] = b[(i - 1) - m] + Width(t[i - m])
      BY <1>4, <3>1
    <3>3. c[i] = a[m] + b[i - m] /\ c[i - 1] = a[m] + b[(i - 1) - m] /\ (s \o t)[i] = t[i - m]
      BY <1>3, <2>1, <3>1
    <3>4. a[m] \in Nat /\ b[(i - 1) - m] \in Nat /\ Width(t[i - m]) \in Nat
      BY <1>4, <3>1, WidthPositive
    <3>. HIDE DEF c
    <3>. QED BY <3>2, <3>3, <3>4
  <2>. QED BY <1>3, <2>2, <2>3, <2>4
<1>7. c[0] = 0 /\ c[m + n] = a[m] + b[n]
  <2>1. 0 \in 0..(m + n) /\ m + n \in 0..(m + n) /\ 0 <= m /\ m \in 0..m /\ n \in 0..n
    BY <1>3
  <2>2. CASE n = 0
    BY <1>3, <1>4, <2>1, <2>2
  <2>3. CASE n # 0
    <3>1. ~(m + n <= m) /\ (m + n) - m = n
      BY <1>3, <2>3
    <3>. QED BY <1>3, <1>4, <2>1, <3>1
  <2>. QED BY <2>2, <2>3
<1>. HIDE DEF c
<1>8. ByteCount(c, s \o t)
  BY <1>3, <1>5, <1>6, <1>7 DEF ByteCount
<1>9. Bytes(s \o t) = c[m + n]
  BY <1>3, <1>8, ChainBytes
<1>10. Bytes(s) = a[m] /\ Bytes(t) = b[n] /\ a[m] \in Nat /\ b[n] \in Nat
  <2>1. m \in 0..m /\ n \in 0..n
    BY <1>3
  <2>2. a[m] \in Nat /\ b[n] \in Nat
    BY <1>4, <2>1
  <2>. QED BY <1>1, <1>2, <2>2 DEF m, n
<1>. QED BY <1>7, <1>9, <1>10

\* A name of n characters of one byte each.
LEMMA BytesNarrow ==
  ASSUME NEW S, NEW name \in Seq(S), \A i \in 1..Len(name) : Width(name[i]) = 1
  PROVE  Bytes(name) = Len(name)
<1>. DEFINE a == [i \in 0..Len(name) |-> i]
<1>1. Len(name) \in Nat
  BY LenProperties
<1>2. ByteCount(a, name) /\ a[Len(name)] = Len(name)
  BY <1>1 DEF ByteCount
<1>. HIDE DEF a
<1>. QED BY <1>2, ChainBytes

LEMMA BytesOne ==
  ASSUME NEW c, Width(c) = 1, <<c>> \in Seq({c}), Len(<<c>>) = 1, <<c>>[1] = c
  PROVE  Bytes(<<c>>) = 1
<1>1. \A i \in 1..Len(<<c>>) : Width(<<c>>[i]) = 1
  <2>1. \A i \in 1..Len(<<c>>) : i = 1
    OBVIOUS
  <2>. QED BY <2>1
<1>. QED BY <1>1, BytesNarrow

\* A byte more.
LEMMA OneMore ==
  ASSUME NEW w \in Nat, NEW x \in Nat, NEW max \in Nat,
         NEW y, y = w + 1, NEW u, u = y + x, NEW v, v = w + x, v <= max
  PROVE  u \in Nat /\ u # 0 /\ u <= max + 1
OBVIOUS

\* A part of a name.
LEMMA BytesSub ==
  ASSUME NEW S, NEW name \in Seq(S), NEW i \in 1..(Len(name) + 1), NEW j \in 0..Len(name)
  PROVE  /\ SubSeq(name, i, j) \in Seq(S)
         /\ Range(SubSeq(name, i, j)) \subseteq Range(name)
         /\ Bytes(SubSeq(name, i, j)) \in Nat /\ Bytes(SubSeq(name, i, j)) <= Bytes(name)
<1>1. /\ Len(name) \in Nat /\ DOMAIN name = 1..Len(name)
      /\ \A k \in i..j : name[k] \in S
  BY LenProperties, ElementOfSeq
<1>2. /\ SubSeq(name, i, j) \in Seq(S)
      /\ Len(SubSeq(name, i, j)) = IF i <= j THEN j - i + 1 ELSE 0
      /\ \A k \in 1..(j - i + 1) : SubSeq(name, i, j)[k] = name[i + k - 1]
  BY <1>1, SubSeqProperties
<1>3. Range(SubSeq(name, i, j)) \subseteq Range(name)
  <2>1. ASSUME NEW k \in DOMAIN SubSeq(name, i, j) PROVE SubSeq(name, i, j)[k] \in Range(name)
    <3>1. k \in 1..Len(SubSeq(name, i, j))
      BY <1>2, <2>1, LenProperties
    <3>2. k \in 1..(j - i + 1) /\ i + k - 1 \in 1..Len(name)
      BY <1>1, <1>2, <3>1
    <3>. QED BY <1>1, <1>2, <3>2 DEF Range
  <2>. QED BY <2>1 DEF Range
<1>4. Bytes(SubSeq(name, i, j)) \in Nat /\ Bytes(SubSeq(name, i, j)) <= Bytes(name)
  <2>0. \A k \in 1..Len(name) : name[k] \in S
    BY ElementOfSeq
  <2>1. /\ SubSeq(name, 1, i - 1) \in Seq(S) /\ SubSeq(name, j + 1, Len(name)) \in Seq(S)
        /\ SubSeq(name, 1, j) \in Seq(S)
    BY <1>1, <2>0, SubSeqProperties
  <2>2. CASE i <= j
    <3>1. SubSeq(name, 1, j) = SubSeq(name, 1, i - 1) \o SubSeq(name, i, j)
      <4>1. /\ 1 \in 1..(Len(name) + 1) /\ i - 1 \in (1 - 1)..Len(name)
            /\ j \in (i - 1)..Len(name) /\ (i - 1) + 1 = i
        BY <1>1, <2>2
      <4>2. SubSeq(name, 1, i - 1) \o SubSeq(name, (i - 1) + 1, j) = SubSeq(name, 1, j)
        BY <4>1, ConcatAdjacentSubSeq
      <4>. QED BY <4>1, <4>2
    <3>2. name = SubSeq(name, 1, j) \o SubSeq(name, j + 1, Len(name))
      <4>1. /\ 1 \in 1..(Len(name) + 1) /\ j \in (1 - 1)..Len(name)
            /\ Len(name) \in j..Len(name)
        BY <1>1
      <4>2. SubSeq(name, 1, j) \o SubSeq(name, j + 1, Len(name)) = SubSeq(name, 1, Len(name))
        BY <4>1, ConcatAdjacentSubSeq
      <4>. QED BY <4>2, SubSeqFull
    <3>3. Bytes(name) = Bytes(SubSeq(name, 1, j)) + Bytes(SubSeq(name, j + 1, Len(name)))
          /\ Bytes(SubSeq(name, j + 1, Len(name))) \in Nat
      BY <2>1, <3>2, BytesConcat
    <3>4. /\ Bytes(SubSeq(name, 1, j)) = Bytes(SubSeq(name, 1, i - 1)) + Bytes(SubSeq(name, i, j))
          /\ Bytes(SubSeq(name, 1, i - 1)) \in Nat /\ Bytes(SubSeq(name, i, j)) \in Nat
      BY <1>2, <2>1, <3>1, BytesConcat
    <3>. QED BY <3>3, <3>4
  <2>3. CASE ~(i <= j)
    <3>1. Len(SubSeq(name, i, j)) = 0
      BY <1>2, <2>3
    <3>2. Bytes(SubSeq(name, i, j)) = 0
      <4>1. \A k \in 1..Len(SubSeq(name, i, j)) : Width(SubSeq(name, i, j)[k]) = 1
        BY <3>1
      <4>. QED BY <1>2, <3>1, <4>1, BytesNarrow
    <3>3. Bytes(name) \in Nat
      BY BytesConcat
    <3>. QED BY <3>2, <3>3
  <2>. QED BY <2>2, <2>3
<1>. QED BY <1>2, <1>3, <1>4

-----------------------------------------------------------------------------
(* The steps of safeFilename.                                              *)

\* The last index with a property, or 0.
LEMMA LastIndex ==
  ASSUME NEW n \in Nat, NEW P \in SUBSET (1..n)
  PROVE  \E i \in 0..n : (i > 0 => i \in P) /\ \A j \in (i + 1)..n : j \notin P
<1>1. CASE P = {}
  <2>1. 0 \in 0..n /\ ~(0 > 0)
    OBVIOUS
  <2>. QED BY <1>1, <2>1
<1>2. CASE P # {}
  <2>1. Greatest(P) \in P /\ \A y \in P : Greatest(P) >= y
    BY <1>2, GreatestElement
  <2>2. Greatest(P) \in 1..n
    BY <2>1
  <2>3. ASSUME NEW j \in (Greatest(P) + 1)..n PROVE j \notin P
    <3>1. ~(Greatest(P) >= j)
      BY <2>2
    <3>. QED BY <2>1, <3>1
  <2>4. Greatest(P) \in 0..n
    BY <2>2
  <2>. QED BY <2>1, <2>3, <2>4
<1>. QED BY <1>1, <1>2

LEMMA LastOfPlace ==
  ASSUME NEW S, NEW name \in Seq(S), NEW chars
  PROVE  /\ LastOf(name, chars) \in 0..Len(name)
         /\ LastOf(name, chars) > 0 => name[LastOf(name, chars)] \in chars
         /\ \A j \in (LastOf(name, chars) + 1)..Len(name) : name[j] \notin chars
<1>. DEFINE P == {i \in 1..Len(name) : name[i] \in chars}
<1>1. Len(name) \in Nat
  BY LenProperties
<1>2. PICK i \in 0..Len(name) : (i > 0 => i \in P) /\ \A j \in (i + 1)..Len(name) : j \notin P
  <2>. HIDE DEF P
  <2>1. P \in SUBSET (1..Len(name))
    BY DEF P
  <2>. QED BY <1>1, <2>1, LastIndex
<1>3. (i > 0 => name[i] \in chars) /\ \A j \in (i + 1)..Len(name) : name[j] \notin chars
  BY <1>1, <1>2
<1>. QED BY <1>2, <1>3 DEF LastOf

\* A sequence is one in every set that has its elements.
LEMMA SeqByRange ==
  ASSUME NEW S, NEW s \in Seq(S), NEW T, Range(s) \subseteq T
  PROVE  s \in Seq(T)
<1>1. s \in Seq(Range(s))
  BY SeqOfRange
<1>. QED BY <1>1, SeqMonotonic

\* strings.Trim takes away, and leaves nothing to trim at the end.
LEMMA TrimShortens ==
  ASSUME NEW S, NEW name \in Seq(S), NEW cut
  PROVE  /\ Trim(name, cut) \in Seq(S) /\ Range(Trim(name, cut)) \subseteq Range(name)
         /\ Bytes(Trim(name, cut)) \in Nat /\ Bytes(Trim(name, cut)) <= Bytes(name)
         /\ Trim(name, cut) # <<>> => Last(Trim(name, cut)) \notin cut
<1>. DEFINE kept == {i \in DOMAIN name : name[i] \notin cut}
            lo == CHOOSE i \in kept : \A j \in kept : i <= j
            hi == CHOOSE i \in kept : \A j \in kept : i >= j
<1>1. Len(name) \in Nat /\ DOMAIN name = 1..Len(name)
  BY LenProperties
<1>2. CASE kept = {}
  <2>1. Trim(name, cut) = <<>>
    BY <1>2 DEF Trim
  <2>2. <<>> \in Seq(S) /\ Len(<<>>) = 0 /\ Range(<<>>) = {}
    BY EmptySeq DEF Range
  <2>3. Bytes(<<>>) = 0
    <3>1. \A i \in 1..Len(<<>>) : Width(<<>>[i]) = 1
      BY <2>2
    <3>. QED BY <2>2, <3>1, BytesNarrow
  <2>4. Bytes(name) \in Nat
    BY BytesConcat
  <2>. QED BY <2>1, <2>2, <2>3, <2>4
<1>3. CASE kept # {}
  <2>1. Trim(name, cut) = SubSeq(name, lo, hi)
    BY <1>3 DEF Trim
  <2>2. lo \in kept /\ hi \in kept /\ lo <= hi
    <3>1. kept \subseteq Nat /\ kept \in SUBSET (1..Len(name))
      BY <1>1
    <3>. HIDE DEF kept
    <3>2. \E i \in kept : \A j \in kept : i <= j
      BY <1>3, <3>1, LeastElement
    <3>3. Greatest(kept) \in kept /\ \A j \in kept : Greatest(kept) >= j
      BY <1>1, <1>3, <3>1, GreatestElement
    <3>4. lo \in kept /\ \A j \in kept : lo <= j
      BY <3>2
    <3>5. hi \in kept
      BY <3>3
    <3>. QED BY <3>4, <3>5
  <2>3. lo \in 1..Len(name) /\ hi \in 1..Len(name) /\ name[hi] \notin cut
    BY <1>1, <2>2
  <2>. HIDE DEF lo, hi, kept
  <2>4. /\ SubSeq(name, lo, hi) \in Seq(S) /\ Range(SubSeq(name, lo, hi)) \subseteq Range(name)
        /\ Bytes(SubSeq(name, lo, hi)) \in Nat /\ Bytes(SubSeq(name, lo, hi)) <= Bytes(name)
    <3>1. lo \in 1..(Len(name) + 1) /\ hi \in 0..Len(name)
      BY <1>1, <2>3
    <3>. QED BY <3>1, BytesSub
  <2>5. Last(SubSeq(name, lo, hi)) = name[hi]
    <3>1. \A k \in lo..hi : name[k] \in S
      BY <1>1, <2>3, ElementOfSeq
    <3>2. /\ Len(SubSeq(name, lo, hi)) = hi - lo + 1
          /\ \A k \in 1..(hi - lo + 1) : SubSeq(name, lo, hi)[k] = name[lo + k - 1]
      BY <2>2, <2>3, <3>1, SubSeqProperties
    <3>3. hi - lo + 1 \in 1..(hi - lo + 1) /\ lo + (hi - lo + 1) - 1 = hi
      BY <1>1, <2>2, <2>3
    <3>. QED BY <3>2, <3>3 DEF Last
  <2>. QED BY <2>1, <2>3, <2>4, <2>5
<1>. QED BY <1>2, <1>3

\* Nothing of an empty name.
LEMMA BytesEmpty == Bytes(<<>>) = 0
<1>1. <<>> \in Seq({}) /\ Len(<<>>) = 0
  BY EmptySeq
<1>2. \A i \in 1..Len(<<>>) : Width(<<>>[i]) = 1
  BY <1>1
<1>. QED BY <1>1, <1>2, BytesNarrow

\* name[:keep] has at most keep bytes; a character cut in two leaves bytes that
\* are none of the name's.
LEMMA FirstBytesFit ==
  ASSUME NEW S, NEW name \in Seq(S), NEW keep \in Nat
  PROVE  /\ FirstBytes(name, keep) \in Seq(Range(name) \cup {"broken"})
         /\ Bytes(FirstBytes(name, keep)) \in Nat /\ Bytes(FirstBytes(name, keep)) <= keep
<1>. DEFINE Fits(m) == Bytes(SubSeq(name, 1, m)) <= keep
            T == {m \in 0..Len(name) : ~Fits(m)}
            n == CHOOSE m \in 0..Len(name) : Fits(m) /\ (m < Len(name) => Bytes(SubSeq(name, 1, m + 1)) > keep)
            prefix == SubSeq(name, 1, n)
            rest == IF n = Len(name) THEN 0 ELSE keep - Bytes(prefix)
            tail == [i \in 1..rest |-> "broken"]
<1>1. Len(name) \in Nat
  BY LenProperties
<1>2. ASSUME NEW m \in 0..Len(name)
      PROVE  /\ SubSeq(name, 1, m) \in Seq(S) /\ Range(SubSeq(name, 1, m)) \subseteq Range(name)
             /\ Bytes(SubSeq(name, 1, m)) \in Nat
  <2>1. 1 \in 1..(Len(name) + 1)
    BY <1>1
  <2>. QED BY <2>1, BytesSub
<1>3. Fits(0)
  <2>1. SubSeq(name, 1, 0) = <<>>
    <3>1. 1 > 0 /\ 1 \in Int /\ 0 \in Int
      OBVIOUS
    <3>. QED BY <3>1, SubSeqEmpty
  <2>2. Bytes(SubSeq(name, 1, 0)) = 0
    BY <2>1, BytesEmpty
  <2>3. 0 <= keep
    OBVIOUS
  <2>. QED BY <2>2, <2>3
<1>4. \E m \in 0..Len(name) : Fits(m) /\ (m < Len(name) => Bytes(SubSeq(name, 1, m + 1)) > keep)
  <2>1. CASE T = {}
    <3>1. Len(name) \in 0..Len(name) /\ ~(Len(name) < Len(name))
      BY <1>1
    <3>2. Fits(Len(name))
      BY <2>1, <3>1
    <3>. HIDE DEF Fits
    <3>. QED BY <3>1, <3>2
  <2>2. CASE T # {}
    <3>1. T \subseteq Nat
      BY <1>1
    <3>2. PICK m \in T : \A y \in T : m <= y
      <4>. HIDE DEF T
      <4>. QED BY <2>2, <3>1, LeastElement
    <3>3. m \in 1..Len(name) /\ ~Fits(m)
      <4>1. m \in 0..Len(name) /\ ~Fits(m)
        OBVIOUS
      <4>2. m # 0
        BY <1>3, <4>1
      <4>. HIDE DEF Fits
      <4>. QED BY <1>1, <4>1, <4>2
    <3>4. m - 1 \in 0..Len(name) /\ (m - 1) + 1 = m
      BY <1>1, <3>3
    <3>5. Fits(m - 1)
      <4>1. m - 1 \notin T
        <5>. HIDE DEF T
        <5>1. ~(m <= m - 1)
          BY <3>3
        <5>. QED BY <3>2, <5>1
      <4>. QED BY <3>4, <4>1
    <3>6. Bytes(SubSeq(name, 1, (m - 1) + 1)) > keep
      <4>1. Bytes(SubSeq(name, 1, m)) \in Nat /\ ~(Bytes(SubSeq(name, 1, m)) <= keep)
        BY <1>2, <3>3
      <4>. QED BY <3>4, <4>1
    <3>. HIDE DEF Fits, T
    <3>. QED BY <3>4, <3>5, <3>6
  <2>. QED BY <2>1, <2>2
<1>5. n \in 0..Len(name) /\ Fits(n)
  BY <1>4
<1>6. FirstBytes(name, keep) = prefix \o tail
  BY DEF FirstBytes
<1>. HIDE DEF n
<1>7. /\ prefix \in Seq(S) /\ Range(prefix) \subseteq Range(name)
      /\ Bytes(prefix) \in Nat /\ Bytes(prefix) <= keep
  BY <1>2, <1>5
<1>8. rest \in Nat /\ Bytes(prefix) + rest <= keep
  <2>. HIDE DEF prefix
  <2>. QED BY <1>7
<1>. HIDE DEF prefix, rest
<1>9. tail \in Seq({"broken"}) /\ Len(tail) = rest /\ \A i \in 1..rest : tail[i] = "broken"
  <2>1. tail \in [1..rest -> {"broken"}]
    OBVIOUS
  <2>2. tail \in Seq({"broken"})
    <3>. HIDE DEF tail
    <3>. QED BY <1>8, <2>1, SeqDef
  <2>. QED BY <1>8, <2>2, LenProperties
<1>. HIDE DEF tail
<1>10. Bytes(tail) = rest
  <2>1. Width("broken") = 1
    BY NamesAssumption DEF Width
  <2>. QED BY <1>9, <2>1, BytesNarrow
<1>. DEFINE C == Range(name) \cup {"broken"}
<1>11. prefix \in Seq(C) /\ tail \in Seq(C)
  BY <1>7, <1>9, SeqByRange, SeqMonotonic
<1>. HIDE DEF C
<1>12. /\ prefix \o tail \in Seq(C) /\ Bytes(prefix \o tail) = Bytes(prefix) + Bytes(tail)
  BY <1>11, ConcatProperties, BytesConcat
<1>. QED BY <1>6, <1>7, <1>8, <1>10, <1>12 DEF C

\* The extension is the end of the name.
LEMMA ExtEnds ==
  ASSUME NEW S, NEW name \in Seq(S)
  PROVE  /\ Ext(name) \in Seq(S) /\ Range(Ext(name)) \subseteq Range(name)
         /\ Bytes(Ext(name)) \in Nat /\ Bytes(Ext(name)) <= Bytes(name)
         /\ Len(Ext(name)) \in 0..Len(name)
         /\ name = SubSeq(name, 1, Len(name) - Len(Ext(name))) \o Ext(name)
         /\ Ext(name) # <<>> => Last(Ext(name)) = Last(name)
<1>. DEFINE i == LastOf(name, {"."})
<1>1. Len(name) \in Nat /\ i \in 0..Len(name) /\ \A k \in 1..Len(name) : name[k] \in S
  BY LastOfPlace, LenProperties, ElementOfSeq
<1>2. Ext(name) = IF i = 0 THEN <<>> ELSE SubSeq(name, i, Len(name))
  BY DEF Ext
<1>. HIDE DEF i
<1>3. CASE i = 0
  <2>1. Ext(name) = <<>> /\ <<>> \in Seq(S) /\ Range(<<>>) = {} /\ Len(<<>>) = 0
    BY <1>2, <1>3 DEF Range
  <2>2. Bytes(name) \in Nat
    BY BytesConcat
  <2>3. name = SubSeq(name, 1, Len(name) - 0) \o <<>>
    <3>1. Len(name) - 0 = Len(name)
      BY <1>1
    <3>. QED BY <3>1, SubSeqFull, ConcatEmptySeq
  <2>. QED BY <1>1, <2>1, <2>2, <2>3, BytesEmpty
<1>4. CASE i # 0
  <2>1. i \in 1..(Len(name) + 1) /\ Len(name) \in 0..Len(name)
    BY <1>1, <1>4
  <2>2. /\ SubSeq(name, i, Len(name)) \in Seq(S)
        /\ Range(SubSeq(name, i, Len(name))) \subseteq Range(name)
        /\ Bytes(SubSeq(name, i, Len(name))) \in Nat
        /\ Bytes(SubSeq(name, i, Len(name))) <= Bytes(name)
    BY <2>1, BytesSub
  <2>3. /\ Len(SubSeq(name, i, Len(name))) = Len(name) - i + 1
        /\ \A k \in 1..(Len(name) - i + 1) : SubSeq(name, i, Len(name))[k] = name[i + k - 1]
    <3>1. i <= Len(name) /\ \A k \in i..Len(name) : name[k] \in S
      BY <1>1, <1>4
    <3>. QED BY <1>1, <2>1, <3>1, SubSeqProperties
  <2>4. Last(SubSeq(name, i, Len(name))) = Last(name)
    <3>1. Len(name) - i + 1 \in 1..(Len(name) - i + 1) /\ i + (Len(name) - i + 1) - 1 = Len(name)
      BY <1>1, <1>4
    <3>. QED BY <2>3, <3>1 DEF Last
  <2>5. Len(name) - i + 1 \in 0..Len(name)
    BY <1>1, <1>4
  <2>6. name = SubSeq(name, 1, i - 1) \o SubSeq(name, i, Len(name))
    <3>1. /\ 1 \in 1..(Len(name) + 1) /\ i - 1 \in (1 - 1)..Len(name)
          /\ Len(name) \in (i - 1)..Len(name) /\ (i - 1) + 1 = i
      BY <1>1, <1>4
    <3>2. SubSeq(name, 1, i - 1) \o SubSeq(name, (i - 1) + 1, Len(name)) = SubSeq(name, 1, Len(name))
      BY <3>1, ConcatAdjacentSubSeq
    <3>. QED BY <3>1, <3>2, SubSeqFull
  <2>7. Len(name) - (Len(name) - i + 1) = i - 1
    BY <1>1
  <2>. QED BY <1>2, <1>4, <2>2, <2>3, <2>4, <2>5, <2>6, <2>7
<1>. QED BY <1>3, <1>4

\* filepath.Base leaves no separator, but for the one that stands for the root.
LEMMA BaseOfName ==
  ASSUME NEW S, NEW name \in Seq(S)
  PROVE  /\ Base(name) \in Seq(Range(name) \cup {".", "/"})
         /\ "\\" \notin Range(Base(name))
<1>. DEFINE seps == {"/", "\\"}
            C == Range(name) \cup {".", "/"}
            Ends(i) == (i > 0 => name[i] \notin seps) /\ \A j \in (i + 1)..Len(name) : name[j] \in seps
            k == CHOOSE i \in 0..Len(name) : Ends(i)
            path == SubSeq(name, 1, k)
            i == LastOf(path, seps)
<1>1. Len(name) \in Nat /\ \A j \in 1..Len(name) : name[j] \in S
  BY LenProperties, ElementOfSeq
<1>2. Base(name) = CASE name = <<>> -> Dot
                     [] path = <<>> /\ name # <<>> -> <<"/">>
                     [] OTHER -> SubSeq(path, i + 1, Len(path))
  BY DEF Base
<1>3. CASE name = <<>>
  <2>1. Base(name) = <<".">>
    BY <1>2, <1>3 DEF Dot
  <2>2. <<".">> \in Seq(C) /\ Range(<<".">>) = {"."}
    BY DEF Range
  <2>. QED BY <2>1, <2>2
<1>4. CASE name # <<>> /\ path = <<>>
  <2>1. Base(name) = <<"/">>
    BY <1>2, <1>4
  <2>2. <<"/">> \in Seq(C) /\ Range(<<"/">>) = {"/"}
    BY DEF Range
  <2>. QED BY <2>1, <2>2
<1>5. CASE name # <<>> /\ path # <<>>
  <2>1. k \in 0..Len(name)
    <3>. DEFINE P == {j \in 1..Len(name) : name[j] \notin seps}
    <3>1. PICK m \in 0..Len(name) : (m > 0 => m \in P) /\ \A j \in (m + 1)..Len(name) : j \notin P
      <4>1. P \in SUBSET (1..Len(name))
        OBVIOUS
      <4>. HIDE DEF P
      <4>. QED BY <1>1, <4>1, LastIndex
    <3>2. Ends(m)
      <4>1. \A j \in (m + 1)..Len(name) : j \in 1..Len(name)
        BY <1>1
      <4>. QED BY <3>1, <4>1
    <3>. HIDE DEF Ends
    <3>. QED BY <3>2
  <2>. HIDE DEF k
  <2>2. path \in Seq(S) /\ Range(path) \subseteq Range(name)
    <3>1. 1 \in 1..(Len(name) + 1)
      BY <1>1
    <3>. QED BY <2>1, <3>1, BytesSub
  <2>. HIDE DEF path
  <2>3. /\ Len(path) \in Nat /\ i \in 0..Len(path)
        /\ \A j \in (i + 1)..Len(path) : path[j] \notin seps
    <3>. HIDE DEF seps
    <3>. QED BY <2>2, LastOfPlace, LenProperties
  <2>4. Base(name) = SubSeq(path, i + 1, Len(path))
    BY <1>2, <1>5
  <2>. HIDE DEF i
  <2>5. /\ SubSeq(path, i + 1, Len(path)) \in Seq(S)
        /\ Range(SubSeq(path, i + 1, Len(path))) \subseteq Range(path)
    <3>1. i + 1 \in 1..(Len(path) + 1) /\ Len(path) \in 0..Len(path)
      BY <2>3
    <3>. QED BY <2>2, <3>1, BytesSub
  <2>6. Base(name) \in Seq(C)
    <3>1. Range(SubSeq(path, i + 1, Len(path))) \subseteq C
      BY <2>2, <2>5
    <3>. HIDE DEF C
    <3>. QED BY <2>4, <2>5, <3>1, SeqByRange
  <2>7. "\\" \notin Range(Base(name))
    <3>1. \A j \in (i + 1)..Len(path) : path[j] \in S
      <4>1. \A j \in (i + 1)..Len(path) : j \in 1..Len(path)
        BY <2>3
      <4>. QED BY <2>2, <4>1, ElementOfSeq
    <3>2. /\ Len(SubSeq(path, i + 1, Len(path))) =
               IF i + 1 <= Len(path) THEN Len(path) - (i + 1) + 1 ELSE 0
          /\ \A m \in 1..(Len(path) - (i + 1) + 1) :
               SubSeq(path, i + 1, Len(path))[m] = path[i + 1 + m - 1]
      <4>1. i + 1 \in Int /\ Len(path) \in Int
        BY <2>3
      <4>. QED BY <3>1, <4>1, SubSeqProperties
    <3>3. ASSUME NEW m \in DOMAIN SubSeq(path, i + 1, Len(path))
          PROVE  SubSeq(path, i + 1, Len(path))[m] # "\\"
      <4>1. m \in 1..Len(SubSeq(path, i + 1, Len(path)))
        BY <2>5, <3>3, LenProperties
      <4>2. m \in 1..(Len(path) - (i + 1) + 1) /\ i + 1 + m - 1 \in (i + 1)..Len(path)
        BY <2>3, <3>2, <4>1
      <4>. QED BY <2>3, <3>2, <4>2
    <3>. QED BY <2>4, <3>3 DEF Range
  <2>. QED BY <2>6, <2>7
<1>. QED BY <1>3, <1>4, <1>5

\* Nothing but what a name may have, and no blank at its end.
Allowed(s) == s \in Seq(Range(s)) /\ Range(s) \cap (Bad \cup {"/", "\\"}) = {}

Clean(s) == Allowed(s) /\ (s # <<>> => Last(s) # " ")

\* Within the limit.
Short(s) == Bytes(s) \in Nat /\ Bytes(s) <= MaxNameBytes

LEMMA ReplacedAllowed ==
  ASSUME NEW c, c # "\\"
  PROVE  Replaced(c) \notin Bad \cup {"/", "\\"}
<1>1. CASE c \in Bad \cup {"/"}
  <2>1. c # "broken"
    BY <1>1, NamesAssumption
  <2>2. Replaced(c) = "_"
    BY <1>1, <2>1 DEF Replaced
  <2>. QED BY <2>2, NamesAssumption
<1>2. CASE c = "broken"
  <2>1. c \notin Bad \cup {"/"}
    BY <1>2, NamesAssumption
  <2>2. Replaced(c) = "replacement"
    BY <1>2, <2>1 DEF Replaced
  <2>. QED BY <2>2, NamesAssumption
<1>3. CASE c \notin Bad \cup {"/"} /\ c # "broken"
  BY <1>3 DEF Replaced
<1>. QED BY <1>1, <1>2, <1>3

\* One name after the other.
LEMMA CleanConcat ==
  ASSUME NEW s, NEW t, Allowed(s), Clean(t), t = <<>> => Clean(s)
  PROVE  Clean(s \o t) /\ Bytes(s \o t) = Bytes(s) + Bytes(t)
<1>. DEFINE C == Range(s) \cup Range(t)
<1>1. s \in Seq(C) /\ t \in Seq(C)
  BY SeqMonotonic DEF Clean, Allowed
<1>2. /\ s \o t \in Seq(C) /\ Bytes(s \o t) = Bytes(s) + Bytes(t)
      /\ Len(s \o t) = Len(s) + Len(t) /\ Len(s) \in Nat /\ Len(t) \in Nat
      /\ \A i \in 1..(Len(s) + Len(t)) : (s \o t)[i] = IF i <= Len(s) THEN s[i] ELSE t[i - Len(s)]
  <2>. HIDE DEF C
  <2>. QED BY <1>1, BytesConcat, ConcatProperties, LenProperties
<1>3. Range(s \o t) \subseteq C
  <2>. HIDE DEF C
  <2>1. s \o t \in Seq(C)
    BY <1>2
  <2>. QED BY <2>1, RangeOfSeq
<1>4. s \o t \in Seq(Range(s \o t))
  BY <1>2, SeqOfRange
<1>5. s \o t # <<>> => Last(s \o t) # " "
  <2>1. CASE t = <<>>
    <3>1. s \o t = s
      BY <1>1, <2>1, ConcatEmptySeq
    <3>2. Clean(s)
      BY <2>1
    <3>. QED BY <3>1, <3>2 DEF Clean
  <2>2. CASE t # <<>>
    <3>1. Len(t) > 0
      BY <1>1, <1>2, <2>2, EmptySeq
    <3>2. Last(s \o t) = Last(t)
      <4>1. /\ Len(s) + Len(t) \in 1..(Len(s) + Len(t)) /\ ~(Len(s) + Len(t) <= Len(s))
            /\ (Len(s) + Len(t)) - Len(s) = Len(t)
        BY <1>2, <3>1
      <4>. QED BY <1>2, <4>1 DEF Last
    <3>. QED BY <2>2, <3>2 DEF Clean, Allowed
  <2>. QED BY <2>1, <2>2
<1>6. Range(s \o t) \cap (Bad \cup {"/", "\\"}) = {}
  BY <1>3 DEF Clean, Allowed
<1>. QED BY <1>2, <1>4, <1>5, <1>6 DEF Clean, Allowed

LEMMA CleanOne ==
  ASSUME NEW c, c \notin Bad \cup {"/", "\\", " "}
  PROVE  Clean(<<c>>)
<1>1. <<c>> \in Seq({c}) /\ Len(<<c>>) = 1 /\ <<c>>[1] = c /\ DOMAIN <<c>> = {1}
  BY PathOne
<1>2. Range(<<c>>) = {c} /\ Last(<<c>>) = c
  BY <1>1 DEF Range, Last
<1>. QED BY <1>1, <1>2 DEF Clean, Allowed

\* The limit keeps a name clean.
LEMMA CutFits ==
  ASSUME NEW name, Clean(name)
  PROVE  Clean(Cut(name)) /\ Short(Cut(name))
<1>. DEFINE ext == Ext(name)
            keep == MaxNameBytes - Bytes(ext)
            stem(k) == Trim(FirstBytes(name, k), Blank \cup {" "})
<1>1. name \in Seq(Range(name)) /\ Bytes(name) \in Nat /\ MaxNameBytes \in Nat
  BY BytesConcat, NamesAssumption DEF Clean, Allowed
<1>2. /\ ext \in Seq(Range(name)) /\ Range(ext) \subseteq Range(name)
      /\ Bytes(ext) \in Nat /\ Len(ext) \in 0..Len(name)
      /\ ext # <<>> => Last(ext) = Last(name)
  BY <1>1, ExtEnds
<1>3. Cut(name) = CASE Bytes(name) <= MaxNameBytes -> name
                    [] Bytes(name) > MaxNameBytes /\ keep >= 1 -> stem(keep) \o ext
                    [] OTHER -> stem(MaxNameBytes)
  BY DEF Cut
<1>4. ASSUME NEW k \in Nat
      PROVE  Clean(stem(k)) /\ Bytes(stem(k)) \in Nat /\ Bytes(stem(k)) <= k
  <2>1. /\ FirstBytes(name, k) \in Seq(Range(name) \cup {"broken"})
        /\ Bytes(FirstBytes(name, k)) \in Nat /\ Bytes(FirstBytes(name, k)) <= k
    BY <1>1, FirstBytesFit
  <2>2. /\ stem(k) \in Seq(Range(name) \cup {"broken"})
        /\ Range(stem(k)) \subseteq Range(FirstBytes(name, k))
        /\ Bytes(stem(k)) \in Nat /\ Bytes(stem(k)) <= Bytes(FirstBytes(name, k))
        /\ stem(k) # <<>> => Last(stem(k)) \notin Blank \cup {" "}
    BY <2>1, TrimShortens
  <2>3. "broken" \notin Bad \cup {"/", "\\"}
    BY NamesAssumption
  <2>. HIDE DEF stem
  <2>4. Range(stem(k)) \subseteq Range(name) \cup {"broken"} /\ stem(k) \in Seq(Range(stem(k)))
    BY <2>2, RangeOfSeq, SeqOfRange
  <2>5. Bytes(stem(k)) \in Nat /\ Bytes(stem(k)) <= k
    <3>1. \A x, y \in Nat : x <= y /\ y <= k => x <= k
      OBVIOUS
    <3>. QED BY <2>1, <2>2, <3>1
  <2>6. stem(k) # <<>> => Last(stem(k)) # " "
    BY <2>2
  <2>7. Range(stem(k)) \cap (Bad \cup {"/", "\\"}) = {}
    BY <2>3, <2>4 DEF Clean, Allowed
  <2>. QED BY <2>4, <2>5, <2>6, <2>7 DEF Clean, Allowed
<1>5. CASE Bytes(name) <= MaxNameBytes
  <2>1. Cut(name) = name
    <3>1. ~(Bytes(name) > MaxNameBytes)
      BY <1>1, <1>5
    <3>. HIDE DEF stem, keep
    <3>. QED BY <1>3, <1>5, <3>1
  <2>. QED BY <1>1, <1>5, <2>1 DEF Short
<1>6. CASE ~(Bytes(name) <= MaxNameBytes) /\ keep >= 1
  <2>1. Cut(name) = stem(keep) \o ext
    <3>1. Bytes(name) > MaxNameBytes
      BY <1>1, <1>6
    <3>. HIDE DEF stem, keep
    <3>. QED BY <1>3, <1>6, <3>1
  <2>2. keep \in Nat
    BY <1>1, <1>2, <1>6
  <2>3. Clean(ext)
    <3>1. ext \in Seq(Range(ext))
      BY <1>2, SeqOfRange
    <3>2. ext # <<>> => name # <<>>
      BY <1>1, <1>2, EmptySeq
    <3>. HIDE DEF ext
    <3>. QED BY <1>2, <3>1, <3>2 DEF Clean, Allowed
  <2>4. Clean(stem(keep)) /\ Bytes(stem(keep)) \in Nat /\ Bytes(stem(keep)) <= keep
    <3>. HIDE DEF stem, keep
    <3>. QED BY <1>4, <2>2
  <2>5. Clean(stem(keep) \o ext) /\ Bytes(stem(keep) \o ext) = Bytes(stem(keep)) + Bytes(ext)
    <3>. HIDE DEF stem, keep, ext
    <3>. QED BY <2>3, <2>4, CleanConcat DEF Clean
  <2>6. Bytes(stem(keep)) + Bytes(ext) <= MaxNameBytes /\ Bytes(stem(keep)) + Bytes(ext) \in Nat
    <3>1. keep + Bytes(ext) = MaxNameBytes
      BY <1>1, <1>2
    <3>. HIDE DEF stem, keep, ext
    <3>. QED BY <1>1, <1>2, <2>2, <2>4, <3>1
  <2>. QED BY <2>1, <2>5, <2>6 DEF Short
<1>7. CASE ~(Bytes(name) <= MaxNameBytes) /\ ~(keep >= 1)
  <2>1. Cut(name) = stem(MaxNameBytes)
    <3>. HIDE DEF stem, keep
    <3>. QED BY <1>3, <1>7
  <2>. QED BY <1>1, <1>4, <2>1 DEF Short
<1>. QED BY <1>5, <1>6, <1>7

\* Whatever a client sends.
LEMMA SafeNames ==
  ASSUME NEW S, NEW name \in Seq(S)
  PROVE  Clean(SafeFilename(name)) /\ Short(SafeFilename(name))
<1>. DEFINE base    == Base(name)
            replaced == [i \in DOMAIN base |-> Replaced(base[i])]
            trimmed == Trim(replaced, {" ", "."})
<1>1. base \in Seq(Range(name) \cup {".", "/"}) /\ "\\" \notin Range(base)
  BY BaseOfName
<1>2. SafeFilename(name) =
        IF trimmed = <<>> THEN <<>>
        ELSE Cut(IF Head(trimmed) = "-" THEN <<"_">> \o Tail(trimmed) ELSE trimmed)
  BY DEF SafeFilename
<1>. HIDE DEF base
<1>3. Len(base) \in Nat /\ DOMAIN base = 1..Len(base)
  BY <1>1, LenProperties
<1>4. replaced \in Seq(Range(replaced)) /\ Range(replaced) \cap (Bad \cup {"/", "\\"}) = {}
  <2>1. replaced \in [1..Len(base) -> Range(replaced)]
    BY <1>3 DEF Range
  <2>2. ASSUME NEW i \in DOMAIN base PROVE Replaced(base[i]) \notin Bad \cup {"/", "\\"}
    <3>1. base[i] # "\\"
      BY <1>1 DEF Range
    <3>. QED BY <3>1, ReplacedAllowed
  <2>3. Range(replaced) \cap (Bad \cup {"/", "\\"}) = {}
    BY <2>2 DEF Range
  <2>. HIDE DEF replaced
  <2>. QED BY <1>3, <2>1, <2>3, SeqDef
<1>. HIDE DEF replaced
<1>5. Clean(trimmed)
  <2>1. /\ trimmed \in Seq(Range(replaced)) /\ Range(trimmed) \subseteq Range(replaced)
        /\ trimmed # <<>> => Last(trimmed) \notin {" ", "."}
    BY <1>4, TrimShortens
  <2>2. trimmed \in Seq(Range(trimmed))
    BY <2>1, SeqOfRange
  <2>. HIDE DEF trimmed
  <2>. QED BY <1>4, <2>1, <2>2 DEF Clean, Allowed
<1>. HIDE DEF trimmed
<1>6. CASE trimmed = <<>>
  <2>1. SafeFilename(name) = <<>>
    BY <1>2, <1>6
  <2>2. Clean(<<>>)
    BY <1>5, <1>6
  <2>3. Short(<<>>)
    <3>1. Bytes(<<>>) = 0 /\ MaxNameBytes \in Nat
      BY BytesEmpty, NamesAssumption
    <3>2. 0 <= MaxNameBytes /\ 0 \in Nat
      BY <3>1
    <3>. QED BY <3>1, <3>2 DEF Short
  <2>. QED BY <2>1, <2>2, <2>3
<1>7. CASE trimmed # <<>> /\ Head(trimmed) = "-"
  <2>1. SafeFilename(name) = Cut(<<"_">> \o Tail(trimmed))
    BY <1>2, <1>7
  <2>2. Clean(<<"_">>)
    BY CleanOne, NamesAssumption
  <2>3. Clean(Tail(trimmed))
    <3>1. trimmed \in Seq(Range(trimmed))
      BY <1>5 DEF Clean, Allowed
    <3>2. /\ Tail(trimmed) \in Seq(Range(trimmed)) /\ Len(Tail(trimmed)) = Len(trimmed) - 1
          /\ \A i \in 1..Len(Tail(trimmed)) : Tail(trimmed)[i] = trimmed[i + 1]
          /\ Len(trimmed) \in Nat /\ Len(Tail(trimmed)) \in Nat
      BY <1>7, <3>1, HeadTailProperties, LenProperties
    <3>3. Range(Tail(trimmed)) \subseteq Range(trimmed) /\ Tail(trimmed) \in Seq(Range(Tail(trimmed)))
      BY <3>2, RangeOfSeq, SeqOfRange
    <3>4. Tail(trimmed) # <<>> => Last(Tail(trimmed)) = Last(trimmed)
      <4>1. SUFFICES ASSUME Tail(trimmed) # <<>> PROVE Last(Tail(trimmed)) = Last(trimmed)
        OBVIOUS
      <4>2. Len(Tail(trimmed)) # 0
        BY <3>2, <4>1, EmptySeq
      <4>3. Len(Tail(trimmed)) \in 1..Len(Tail(trimmed)) /\ Len(Tail(trimmed)) + 1 = Len(trimmed)
        BY <3>2, <4>2
      <4>. QED BY <3>2, <4>3 DEF Last
    <3>. QED BY <1>5, <1>7, <3>3, <3>4 DEF Clean, Allowed
  <2>4. Clean(<<"_">> \o Tail(trimmed))
    BY <2>2, <2>3, CleanConcat DEF Clean
  <2>. QED BY <2>1, <2>4, CutFits
<1>8. CASE trimmed # <<>> /\ Head(trimmed) # "-"
  <2>1. SafeFilename(name) = Cut(trimmed)
    BY <1>2, <1>8
  <2>. QED BY <1>5, <2>1, CutFits
<1>. QED BY <1>6, <1>7, <1>8

\* A character between the two parts of a name, or after it.
LEMMA CleanInserted ==
  ASSUME NEW s, NEW t, Allowed(s), Clean(t), Short(s \o t),
         NEW c, c \notin Bad \cup DOMAIN Wide \cup {"/", "\\", " ", "replacement"}
  PROVE  /\ Clean(Append(s, c) \o t) /\ Append(s, c) \o t # <<>>
         /\ Bytes(Append(s, c) \o t) \in Nat /\ Bytes(Append(s, c) \o t) <= MaxNameBytes + 1
<1>1. Clean(<<c>>) /\ <<c>> # <<>>
  BY CleanOne, PathOne
<1>2. Bytes(<<c>>) = 1
  <2>1. Width(c) = 1
    BY DEF Width
  <2>2. <<c>> \in Seq({c}) /\ Len(<<c>>) = 1 /\ <<c>>[1] = c
    BY PathOne
  <2>. QED BY <2>1, <2>2, BytesOne
<1>3. Append(s, c) = s \o <<c>>
  <2>. DEFINE C == Range(s) \cup {c}
  <2>1. s \in Seq(C) /\ c \in C
    BY SeqMonotonic DEF Allowed
  <2>. HIDE DEF C
  <2>. QED BY <2>1, AppendIsConcat
<1>4. Clean(Append(s, c)) /\ Bytes(Append(s, c)) = Bytes(s) + 1
  BY <1>1, <1>2, <1>3, CleanConcat
<1>5. /\ Clean(Append(s, c) \o t)
      /\ Bytes(Append(s, c) \o t) = Bytes(Append(s, c)) + Bytes(t)
  BY <1>4, CleanConcat DEF Clean
<1>6. Bytes(s \o t) = Bytes(s) + Bytes(t) /\ Bytes(s) \in Nat /\ Bytes(t) \in Nat
  <2>1. s \in Seq(Range(s) \cup Range(t)) /\ t \in Seq(Range(s) \cup Range(t))
    BY SeqMonotonic DEF Clean, Allowed
  <2>. QED BY <2>1, BytesConcat
<1>7. Bytes(s \o t) \in Nat /\ Bytes(s \o t) <= MaxNameBytes /\ MaxNameBytes \in Nat
  BY NamesAssumption DEF Short
<1>8. /\ Bytes(Append(s, c) \o t) \in Nat /\ Bytes(Append(s, c) \o t) # 0
      /\ Bytes(Append(s, c) \o t) <= MaxNameBytes + 1
  <2>. DEFINE w == Bytes(s)
              x == Bytes(t)
              y == Bytes(Append(s, c))
              u == Bytes(Append(s, c) \o t)
              v == Bytes(s \o t)
  <2>1. w \in Nat /\ x \in Nat /\ y = w + 1 /\ u = y + x /\ v = w + x
    BY <1>4, <1>5, <1>6
  <2>2. v <= MaxNameBytes /\ MaxNameBytes \in Nat
    BY <1>7
  <2>. HIDE DEF w, x, y, u, v
  <2>3. u \in Nat /\ u # 0 /\ u <= MaxNameBytes + 1
    BY <2>1, <2>2, OneMore
  <2>. QED BY <2>3 DEF u
<1>9. Append(s, c) \o t # <<>>
  BY <1>8, BytesEmpty
<1>. QED BY <1>5, <1>8, <1>9

-----------------------------------------------------------------------------
(* filepath.Join.                                                          *)

\* What is joined so far: no dot, and dots that lead up only in front.
Climb(segments) ==
  {q \in Seq({Safe[s] : s \in Range(segments)} \ {Dot}) :
     \A i, j \in 1..Len(q) : i <= j /\ q[j] = DotDot => q[i] = DotDot}

\* One more segment.
JoinStep(path, s) ==
  LET name == Safe[s] IN
    CASE name = Dot -> path
      [] name = DotDot /\ path # <<>> /\ Last(path) # DotDot -> Front(path)
      [] OTHER -> Append(path, name)

LEMMA JoinStepClimbs ==
  ASSUME NEW segments, NEW path \in Climb(segments), NEW s \in Range(segments)
  PROVE  JoinStep(path, s) \in Climb(segments)
<1>. DEFINE name == Safe[s]
            M == {Safe[t] : t \in Range(segments)}
            N == M \ {Dot}
<1>1. path \in Seq(N) /\ Len(path) \in Nat
  BY LenProperties DEF Climb
<1>2. name \in M
  OBVIOUS
<1>3. \A i, j \in 1..Len(path) : i <= j /\ path[j] = DotDot => path[i] = DotDot
  BY DEF Climb
<1>0. Dot # DotDot
  BY DEF Dot, DotDot
<1>4. CASE name = Dot
  BY <1>0, <1>4 DEF JoinStep
<1>5. CASE name # Dot /\ name = DotDot /\ path # <<>> /\ Last(path) # DotDot
  <2>1. JoinStep(path, s) = SubSeq(path, 1, Len(path) - 1)
    BY <1>5 DEF JoinStep, Front
  <2>2. \A i \in 1..(Len(path) - 1) : path[i] \in N
    BY <1>1, ElementOfSeq
  <2>3. /\ SubSeq(path, 1, Len(path) - 1) \in Seq(N)
        /\ Len(SubSeq(path, 1, Len(path) - 1)) = Len(path) - 1
        /\ \A i \in 1..(Len(path) - 1) : SubSeq(path, 1, Len(path) - 1)[i] = path[i]
    <3>1. Len(path) # 0
      BY <1>1, <1>5, EmptySeq
    <3>2. Len(path) - 1 \in Nat /\ (Len(path) - 1) - 1 + 1 = Len(path) - 1
          /\ \A i \in 1..(Len(path) - 1) : 1 + i - 1 = i
      BY <1>1, <3>1
    <3>3. /\ SubSeq(path, 1, Len(path) - 1) \in Seq(N)
          /\ Len(SubSeq(path, 1, Len(path) - 1))
               = IF 1 <= Len(path) - 1 THEN (Len(path) - 1) - 1 + 1 ELSE 0
          /\ \A i \in 1..((Len(path) - 1) - 1 + 1) :
               SubSeq(path, 1, Len(path) - 1)[i] = path[1 + i - 1]
      <4>. HIDE DEF N
      <4>. QED BY <2>2, <3>2, SubSeqProperties
    <3>. HIDE DEF N
    <3>. QED BY <3>2, <3>3
  <2>. DEFINE q == SubSeq(path, 1, Len(path) - 1)
  <2>4. ASSUME NEW i \in 1..Len(q), NEW j \in 1..Len(q), i <= j, q[j] = DotDot
        PROVE  q[i] = DotDot
    <3>. HIDE DEF q
    <3>1. i \in 1..Len(path) /\ j \in 1..Len(path) /\ path[j] = DotDot /\ q[i] = path[i]
      BY <1>1, <2>3, <2>4 DEF q
    <3>. QED BY <1>3, <2>4, <3>1
  <2>. HIDE DEF q
  <2>. QED BY <2>1, <2>3, <2>4 DEF Climb, q
<1>6. CASE name # Dot /\ ~(name = DotDot /\ path # <<>> /\ Last(path) # DotDot)
  <2>1. JoinStep(path, s) = Append(path, name) /\ name \in N
    BY <1>2, <1>6 DEF JoinStep
  <2>2. /\ Append(path, name) \in Seq(N) /\ Len(Append(path, name)) = Len(path) + 1
        /\ \A i \in 1..Len(path) : Append(path, name)[i] = path[i]
        /\ Append(path, name)[Len(path) + 1] = name
    <3>. HIDE DEF name, N
    <3>. QED BY <1>1, <2>1, AppendProperties
  <2>3. ASSUME NEW i \in 1..(Len(path) + 1), NEW j \in 1..(Len(path) + 1), i <= j,
               Append(path, name)[j] = DotDot
        PROVE  Append(path, name)[i] = DotDot
    <3>. HIDE DEF name, N
    <3>1. CASE j <= Len(path)
      BY <1>1, <1>3, <2>2, <2>3, <3>1
    <3>2. CASE j = Len(path) + 1 /\ i = j
      BY <2>3, <3>2
    <3>3. CASE j = Len(path) + 1 /\ i <= Len(path)
      <4>1. name = DotDot /\ Len(path) \in 1..Len(path) /\ path # <<>>
        BY <1>1, <2>2, <2>3, <3>3, EmptySeq
      <4>2. path[Len(path)] = DotDot
        BY <1>6, <4>1 DEF Last
      <4>. QED BY <1>1, <1>3, <2>2, <3>3, <4>1, <4>2
    <3>. QED BY <1>1, <2>3, <3>1, <3>2, <3>3
  <2>. HIDE DEF name
  <2>. QED BY <2>1, <2>2, <2>3 DEF Climb
<1>. QED BY <1>4, <1>5, <1>6

\* Whatever the segments are, they are joined to such a path.
LEMMA JoinedClimbs ==
  ASSUME NEW segments, segments \in Seq(Range(segments))
  PROVE  Joined(segments) \in Climb(segments) /\ (segments = <<>> => Joined(segments) = <<>>)
<1>. DEFINE n == Len(segments)
            G == [u \in Climb(segments) \X (1..n) |-> JoinStep(u[1], segments[u[2]])]
            Eq(f) == f = [s \in SUBSET DOMAIN segments |->
                            IF s = {} THEN <<>>
                            ELSE JoinStep(f[s \ {Max(s)}], segments[Max(s)])]
<1>1. n \in Nat /\ DOMAIN segments = 1..n
  BY LenProperties
<1>2. G \in [Climb(segments) \X (1..n) -> Climb(segments)] /\ <<>> \in Climb(segments)
  <2>1. \A u \in Climb(segments) \X (1..n) :
          JoinStep(u[1], segments[u[2]]) \in Climb(segments)
    <3>1. \A i \in 1..n : segments[i] \in Range(segments)
      BY <1>1 DEF Range
    <3>. QED BY <3>1, JoinStepClimbs
  <2>. QED BY <2>1, EmptySeq DEF Climb
<1>3. PICK f \in [SUBSET (1..n) -> Climb(segments)] : FoldsUp(f, n, <<>>, G)
  <2>. HIDE DEF G, n
  <2>. QED BY <1>1, <1>2, FoldExists
<1>4. ASSUME NEW s \in SUBSET (1..n), s # {}
      PROVE  Max(s) = Greatest(s) /\ Max(s) \in 1..n /\ s \ {Max(s)} \in SUBSET (1..n)
  <2>1. Max(s) = Greatest(s)
    BY DEF Max, Greatest
  <2>. HIDE DEF n
  <2>. QED BY <1>1, <1>4, <2>1, GreatestElement
<1>5. ASSUME NEW s \in SUBSET (1..n), s # {}
      PROVE  f[s] = JoinStep(f[s \ {Max(s)}], segments[Max(s)])
  <2>1. f[s] = G[<<f[s \ {Max(s)}], Max(s)>>]
    BY <1>3, <1>4, <1>5 DEF FoldsUp
  <2>2. f[s \ {Max(s)}] \in Climb(segments)
    BY <1>4, <1>5
  <2>. QED BY <1>4, <1>5, <2>1, <2>2
<1>6. f[{}] = <<>>
  BY <1>3 DEF FoldsUp
<1>7. Eq(f)
  BY <1>1, <1>5, <1>6
<1>8. PICK iter : Eq(iter) /\ Joined(segments) = iter[DOMAIN segments]
  <2>1. Joined(segments) = (CHOOSE g : Eq(g))[DOMAIN segments]
    BY DEF Joined, FoldLeft, MapThenFoldSet, JoinStep
  <2>2. Eq(CHOOSE g : Eq(g))
    BY <1>7
  <2>. QED BY <2>1, <2>2
<1>9. FoldAlike(iter, f, n)
  <2>1. \A s \in SUBSET (1..n) :
          iter[s] = IF s = {} THEN <<>> ELSE JoinStep(iter[s \ {Max(s)}], segments[Max(s)])
    BY <1>1, <1>8
  <2>. QED BY <1>4, <1>5, <1>6, <2>1 DEF FoldAlike
<1>10. iter[DOMAIN segments] = f[DOMAIN segments]
  <2>1. n \in Nat
    BY <1>1
  <2>2. \A s \in SUBSET (1..n) : iter[s] = f[s]
    <3>. HIDE DEF n
    <3>. QED BY <1>9, <2>1, FoldUnique, ZenonT(30)
  <2>. QED BY <1>1, <2>2
<1>11. segments = <<>> => DOMAIN segments = {}
  OBVIOUS
<1>. QED BY <1>1, <1>3, <1>6, <1>8, <1>10, <1>11

\* What MkdirAll may be asked to make: names that are neither empty nor dots.
NoNames == {<<>>, Dot, DotDot}

PlainPath(q) == q \in Seq(Range(q)) /\ Range(q) \cap NoNames = {}

LEMMA PlainTail ==
  ASSUME NEW q, PlainPath(q), q # <<>>
  PROVE  /\ PlainPath(Tail(q)) /\ Head(q) \notin NoNames
         /\ q = <<Head(q)>> \o Tail(q)
<1>1. /\ Head(q) \in Range(q) /\ Tail(q) \in Seq(Range(q))
      /\ Len(Tail(q)) = Len(q) - 1 /\ Len(q) \in Nat /\ DOMAIN q = 1..Len(q)
      /\ \A i \in 1..Len(Tail(q)) : Tail(q)[i] = q[i + 1]
  BY HeadTailProperties, LenProperties DEF PlainPath
<1>2. Range(Tail(q)) \subseteq Range(q) /\ Tail(q) \in Seq(Range(Tail(q)))
  BY <1>1, RangeOfSeq, SeqOfRange
<1>3. q = <<Head(q)>> \o Tail(q)
  <2>1. Len(q) # 0
    BY EmptySeq DEF PlainPath
  <2>2. <<Head(q)>> \in Seq(Range(q)) /\ Len(<<Head(q)>>) = 1 /\ <<Head(q)>>[1] = q[1]
    BY <1>1
  <2>3. /\ <<Head(q)>> \o Tail(q) \in Seq(Range(q))
        /\ Len(<<Head(q)>> \o Tail(q)) = 1 + Len(Tail(q))
        /\ \A i \in 1..1 + Len(Tail(q)) : (<<Head(q)>> \o Tail(q))[i] =
             IF i <= 1 THEN <<Head(q)>>[i] ELSE Tail(q)[i - 1]
    BY <1>1, <2>2, ConcatProperties
  <2>. DEFINE t == <<Head(q)>> \o Tail(q)
  <2>4. \A i \in 1..Len(q) : t[i] = q[i]
    <3>. SUFFICES ASSUME NEW i \in 1..Len(q) PROVE t[i] = q[i]
      OBVIOUS
    <3>1. CASE i = 1
      BY <1>1, <2>1, <2>2, <2>3, <3>1
    <3>2. CASE i # 1
      <4>1. i - 1 \in 1..Len(Tail(q)) /\ (i - 1) + 1 = i
        BY <1>1, <3>2
      <4>2. t[i] = Tail(q)[i - 1]
        BY <1>1, <2>1, <2>3, <3>2
      <4>. HIDE DEF t
      <4>. QED BY <1>1, <4>1, <4>2
    <3>. QED BY <3>1, <3>2
  <2>5. t \in Seq(Range(q)) /\ Len(t) = Len(q)
    BY <1>1, <2>1, <2>3
  <2>. HIDE DEF t
  <2>6. t = q
    BY <2>4, <2>5, SeqEqual DEF PlainPath
  <2>. QED BY <2>6 DEF t
<1>. QED BY <1>1, <1>2, <1>3 DEF PlainPath

LEMMA UsablePlain ==
  ASSUME NEW segments, segments \in Seq(Range(segments)), Usable(segments)
  PROVE  PlainPath(Joined(segments)) /\ Range(Joined(segments)) \subseteq {Safe[s] : s \in Range(segments)}
<1>. DEFINE q == Joined(segments)
            N == {Safe[s] : s \in Range(segments)}
<1>1. /\ q \in Seq(N \ {Dot}) /\ Len(q) \in Nat /\ DOMAIN q = 1..Len(q)
      /\ \A i, j \in 1..Len(q) : i <= j /\ q[j] = DotDot => q[i] = DotDot
  BY JoinedClimbs, LenProperties DEF Climb
<1>2. <<>> \notin N
  BY DEF Usable
<1>3. \A j \in 1..Len(q) : q[j] \in N /\ q[j] \notin NoNames
  <2>. SUFFICES ASSUME NEW j \in 1..Len(q) PROVE q[j] \in N /\ q[j] \notin NoNames
    OBVIOUS
  <2>1. 1 \in 1..Len(q) /\ q # <<>>
    BY <1>1, EmptySeq
  <2>2. q[1] # DotDot
    BY <2>1 DEF Usable
  <2>3. q[j] # DotDot
    <3>. HIDE DEF q
    <3>. QED BY <1>1, <2>1, <2>2
  <2>4. q[j] \in N \ {Dot}
    <3>. HIDE DEF q, N
    <3>. QED BY <1>1, ElementOfSeq
  <2>. QED BY <1>2, <2>3, <2>4 DEF NoNames
<1>. HIDE DEF q, N
<1>4. q \in Seq(Range(q))
  BY <1>1, SeqOfRange
<1>5. PlainPath(q) /\ Range(q) \subseteq N
  BY <1>1, <1>3, <1>4 DEF PlainPath, Range
<1>. QED BY <1>5 DEF q, N

-----------------------------------------------------------------------------
(* Cases of a step.                                                        *)

USE DEF folderVars, fieldVars

FolderStep(r) ==
  \/ RootField(r) \/ PathField(r) \/ RejectField(r) \/ SkipPart(r) \/ BodyFails(r)
  \/ FilePart(r) \/ Store(r) \/ StoreFails(r) \/ DiskFails(r) \/ Finish(r)
  \/ TakeRoot(r) \/ RootTaken(r)
  \/ Relative(r) \/ MakeDirectory(r) \/ RejectRelative(r) \/ DirectoriesMade(r)
  \/ LinkName(r) \/ NameTaken(r) \/ NoNameLeft(r)

\* The steps that put a node into the tree, and the ones that end a request;
\* no other step touches the tree.
Adds(r) == TakeRoot(r) \/ MakeDirectory(r) \/ LinkName(r)

Ends(r) == step[r] # "done" /\ \E status \in Status \ {"none"} : Reply(r, status)

LEMMA FolderCases ==
  ASSUME [FolderNext]_folderVars
  PROVE  (\E r \in Request : FolderStep(r)) \/ UNCHANGED folderVars
BY DEF FolderNext, Search, FolderStep

LEMMA TreeCases ==
  ASSUME NEW r \in Request, FolderStep(r), ~Adds(r)
  PROVE  UNCHANGED tree
BY DEF FolderStep, Adds, Reply, RootField, PathField, RejectField, SkipPart, BodyFails, FilePart,
       Store, StoreFails, DiskFails, Finish, RootTaken, Relative, RejectRelative,
       DirectoriesMade, NameTaken, NoNameLeft

-----------------------------------------------------------------------------
(* Nothing is overwritten.                                                 *)

\* "Duplicate filenames receive a numeric suffix instead of overwriting
\* existing data" (README.md:84-85): however the requests of an identity are
\* interleaved, no step of createUniqueDirectory, MkdirAll or publishFile takes
\* a name away from what has it.
THEOREM NeverOverwritten == FolderSpec => NothingOverwritten
<1>1. ASSUME [FolderNext]_folderVars
      PROVE  \A p \in DOMAIN tree : p \in DOMAIN tree' /\ tree'[p] = tree[p]
  <2>1. ASSUME NEW r \in Request, Adds(r)
        PROVE  \A p \in DOMAIN tree : p \in DOMAIN tree' /\ tree'[p] = tree[p]
    <3>1. UNCHANGED tree \/ \E path : \E kind : ~Taken(path) /\ tree' = With(path, kind, r)
      BY <2>1 DEF Adds, TakeRoot, MakeDirectory, LinkName
    <3>2. ASSUME NEW path, NEW kind, ~Taken(path), tree' = With(path, kind, r)
          PROVE  \A p \in DOMAIN tree : p \in DOMAIN tree' /\ tree'[p] = tree[p]
      <4>1. /\ DOMAIN tree' = DOMAIN tree \cup {path} /\ path \notin DOMAIN tree
            /\ \A p \in DOMAIN tree : tree'[p] = tree[p]
        BY <3>2 DEF With, Taken
      <4>. QED BY <4>1
    <3>. QED BY <3>1, <3>2
  <2>. QED BY <1>1, <2>1, FolderCases, TreeCases
<1>. QED BY <1>1, PTL DEF FolderSpec, NothingOverwritten

-----------------------------------------------------------------------------
(* The tree, and the place of each request in it.                          *)

\* A node lies in a directory, and in the root folder of the request that made it.
NodeOK(t, p) ==
  /\ t[p].kind \in {"file", "dir"} /\ t[p].by \in Request
  /\ IsPath(p) /\ p # <<>>
  /\ Len(p) > 1 => Front(p) \in DOMAIN t /\ t[Front(p)].kind = "dir"
  /\ <<p[1]>> \in DOMAIN t /\ t[p].by = t[<<p[1]>>].by

\* The directory itself, or one below a root folder of r.
PlaceOK(t, p, r) ==
  IsPath(p) /\ (p # <<>> => /\ p \in DOMAIN t /\ t[p].kind = "dir"
                            /\ <<p[1]>> \in DOMAIN t /\ t[<<p[1]>>].by = r)

TreeOK == \A p \in DOMAIN tree : NodeOK(tree, p)

Steps == {"part", "root", "relative", "mkdirs", "store", "link", "done"}

\* The types of a request.
RequestTyped(r) ==
  /\ body[r] \in Bodies /\ pos[r] \in 1..Len(body[r]) + 1 /\ sequence[r] \in 0..Candidates
  /\ answer[r] \in Status /\ step[r] \in Steps
  /\ step[r] \notin {"part", "done"} => pos[r] <= Len(body[r])

\* Where its handler is.
RequestPlaced(r) ==
  /\ PlaceOK(tree, target[r], r)
  /\ folderName[r] # <<>> => PlaceOK(tree, <<folderName[r]>>, r)
  /\ step[r] \in {"relative", "mkdirs"} => target[r] # <<>>

\* What it has of the path that was announced.
RequestNamed(r) ==
  /\ relativeDirectory[r] \in Seq(Range(relativeDirectory[r]))
  /\ PlainPath(todo[r])

Total == /\ DOMAIN body = Request /\ DOMAIN pos = Request /\ DOMAIN folderRoot = Request
         /\ DOMAIN folderName = Request /\ DOMAIN relativeDirectory = Request
         /\ DOMAIN todo = Request /\ DOMAIN target = Request /\ DOMAIN sequence = Request
         /\ DOMAIN step = Request /\ DOMAIN uploaded = Request /\ DOMAIN answer = Request

\* The inductive invariant of the tree.
FolderInv ==
  /\ Total /\ TreeOK
  /\ \A r \in Request : RequestTyped(r) /\ RequestPlaced(r) /\ RequestNamed(r)

\* One more node, below the place of its request.
LEMMA Grow ==
  ASSUME TreeOK, NEW r \in Request, NEW at, PlaceOK(tree, at, r), NEW x,
         ~Taken(Append(at, x)), NEW kind \in {"file", "dir"},
         tree' = With(Append(at, x), kind, r)
  PROVE  /\ TreeOK'
         /\ tree'[Append(at, x)] = [kind |-> kind, by |-> r, part |-> pos[r]]
         /\ DOMAIN tree' = DOMAIN tree \cup {Append(at, x)}
         /\ \A p \in DOMAIN tree : tree'[p] = tree[p]
         /\ kind = "dir" => PlaceOK(tree', Append(at, x), r)
<1>. DEFINE path == Append(at, x)
<1>1. /\ DOMAIN tree' = DOMAIN tree \cup {path} /\ path \notin DOMAIN tree
      /\ \A p \in DOMAIN tree : tree'[p] = tree[p]
      /\ tree'[path] = [kind |-> kind, by |-> r, part |-> pos[r]]
  BY DEF With, Taken
<1>2. /\ IsPath(path) /\ path # <<>> /\ Len(path) = Len(at) + 1 /\ Front(path) = at
      /\ path[1] = IF at = <<>> THEN x ELSE at[1]
      /\ Len(at) \in Nat /\ (at = <<>> <=> Len(at) = 0)
  BY PathAppend, PathLength DEF PlaceOK
<1>3. <<path[1]>> \in DOMAIN tree' /\ tree'[<<path[1]>>].by = r
  <2>1. CASE at = <<>>
    <3>1. path = <<x>>
      BY <2>1
    <3>. QED BY <1>1, <1>2, <2>1, <3>1
  <2>2. CASE at # <<>>
    <3>1. <<at[1]>> \in DOMAIN tree /\ tree[<<at[1]>>].by = r
      BY <2>2 DEF PlaceOK
    <3>. HIDE DEF path
    <3>. QED BY <1>1, <1>2, <2>2, <3>1
  <2>. QED BY <2>1, <2>2
<1>. HIDE DEF path
<1>4. NodeOK(tree', path)
  <2>1. Len(path) > 1 => Front(path) \in DOMAIN tree' /\ tree'[Front(path)].kind = "dir"
    BY <1>1, <1>2 DEF PlaceOK
  <2>. QED BY <1>1, <1>2, <1>3, <2>1 DEF NodeOK
<1>5. ASSUME NEW p \in DOMAIN tree PROVE NodeOK(tree', p)
  BY <1>1 DEF TreeOK, NodeOK
<1>6. TreeOK'
  BY <1>1, <1>4, <1>5 DEF TreeOK
<1>7. kind = "dir" => PlaceOK(tree', path, r)
  BY <1>1, <1>2, <1>3 DEF PlaceOK
<1>. QED BY <1>1, <1>6, <1>7 DEF path

\* A place stays one while the tree grows.
LEMMA PlaceKept ==
  ASSUME NEW p, NEW r, PlaceOK(tree, p, r),
         \A q \in DOMAIN tree : q \in DOMAIN tree' /\ tree'[q] = tree[q]
  PROVE  PlaceOK(tree', p, r)
BY DEF PlaceOK

LEMMA FolderInvInit == FolderInit => FolderInv
<1>. SUFFICES ASSUME FolderInit PROVE FolderInv
  OBVIOUS
<1>1. Total /\ DOMAIN tree = {}
  BY DEF FolderInit, Total
<1>2. \A r \in Request : Len(body[r]) \in Nat
  BY FolderAssumption, LenProperties DEF FolderInit
<1>3. \A r \in Request : RequestTyped(r)
  BY <1>2, FolderAssumption DEF FolderInit, RequestTyped, Steps, Status
<1>4. IsPath(<<>>) /\ (\A S : <<>> \in Seq(S)) /\ PlainPath(<<>>)
  BY EmptySeq DEF IsPath, PlainPath, Range
<1>5. \A r \in Request : RequestPlaced(r) /\ RequestNamed(r)
  BY <1>4 DEF FolderInit, RequestPlaced, RequestNamed, PlaceOK
<1>. QED BY <1>1, <1>3, <1>5 DEF FolderInv, TreeOK

\* A step of one request is none of another.
LEMMA OthersStay ==
  ASSUME Total, NEW r \in Request, FolderStep(r)
  PROVE  /\ Total'
         /\ \A q \in Request \ {r} :
              /\ body'[q] = body[q] /\ pos'[q] = pos[q] /\ folderRoot'[q] = folderRoot[q]
              /\ folderName'[q] = folderName[q] /\ relativeDirectory'[q] = relativeDirectory[q]
              /\ todo'[q] = todo[q] /\ target'[q] = target[q] /\ sequence'[q] = sequence[q]
              /\ step'[q] = step[q] /\ uploaded'[q] = uploaded[q] /\ answer'[q] = answer[q]
<1>. USE DEF Total
<1>1. CASE RootField(r) \/ PathField(r) \/ SkipPart(r)
  BY <1>1 DEF RootField, PathField, SkipPart
<1>2. ASSUME NEW status, Reply(r, status)
      PROVE  /\ Total'
             /\ UNCHANGED <<body, pos, fieldVars, todo, target, sequence, uploaded>>
             /\ \A q \in Request \ {r} : step'[q] = step[q] /\ answer'[q] = answer[q]
  BY <1>2 DEF Reply
<1>3. CASE \E status : Reply(r, status)
  BY <1>2, <1>3
<1>4. CASE FilePart(r)
  BY <1>4 DEF FilePart
<1>5. CASE Store(r) \/ DirectoriesMade(r) \/ RootTaken(r) \/ NameTaken(r)
  BY <1>5 DEF Store, DirectoriesMade, RootTaken, NameTaken
<1>6. CASE TakeRoot(r)
  BY <1>6 DEF TakeRoot
<1>7. CASE Relative(r)
  BY <1>7 DEF Relative
<1>8. CASE MakeDirectory(r)
  BY <1>8 DEF MakeDirectory
<1>9. CASE LinkName(r)
  BY <1>9 DEF LinkName
<1>10. CASE RejectField(r) \/ BodyFails(r) \/ StoreFails(r) \/ DiskFails(r) \/ Finish(r)
            \/ RejectRelative(r) \/ NoNameLeft(r)
  <2>1. \E status : Reply(r, status)
    BY <1>10 DEF RejectField, BodyFails, StoreFails, DiskFails, Finish, RejectRelative, NoNameLeft
  <2>. QED BY <1>3, <2>1
<1>. QED
  BY <1>1, <1>4, <1>5, <1>6, <1>7, <1>8, <1>9, <1>10 DEF FolderStep

\* The end of a request.
LEMMA RepliesEnd ==
  ASSUME NEW r \in Request,
         \/ RejectField(r) \/ BodyFails(r) \/ StoreFails(r) \/ DiskFails(r) \/ Finish(r)
         \/ RejectRelative(r) \/ NoNameLeft(r)
  PROVE  Ends(r)
BY DEF RejectField, BodyFails, StoreFails, DiskFails, Finish, RejectRelative, NoNameLeft, Ends,
       Reads, Status

LEMMA FolderTypedStep ==
  ASSUME FolderInv, NEW r \in Request, FolderStep(r)
  PROVE  RequestTyped(r)'
<1>. USE DEF RequestTyped, Steps, Total
<1>0. RequestTyped(r) /\ Total /\ Len(body[r]) \in Nat /\ Candidates \in Nat \ {0}
  BY FolderAssumption, LenProperties DEF FolderInv
<1>1. CASE RootField(r) \/ PathField(r) \/ SkipPart(r)
  BY <1>0, <1>1 DEF RootField, PathField, SkipPart, Reads
<1>2. CASE Ends(r)
  BY <1>0, <1>2 DEF Ends, Reply
<1>3. CASE FilePart(r)
  <2>1. /\ step'[r] = CASE folderRoot[r] = <<>> -> "store"
                        [] folderRoot[r] # <<>> /\ folderName[r] = <<>> -> "root"
                        [] OTHER -> "relative"
        /\ sequence'[r] = 0 /\ UNCHANGED <<body, pos, answer>> /\ pos[r] <= Len(body[r])
    BY <1>0, <1>3 DEF FilePart, Reads
  <2>2. step'[r] \in {"store", "root", "relative"}
    BY <2>1
  <2>. QED BY <1>0, <2>1, <2>2
<1>4. CASE Store(r) \/ DirectoriesMade(r)
  BY <1>0, <1>4 DEF Store, DirectoriesMade
<1>5. CASE RootTaken(r) \/ NameTaken(r)
  BY <1>0, <1>5 DEF RootTaken, NameTaken
<1>6. CASE TakeRoot(r)
  BY <1>0, <1>6 DEF TakeRoot
<1>7. CASE Relative(r)
  BY <1>0, <1>7 DEF Relative
<1>8. CASE MakeDirectory(r)
  BY <1>0, <1>8 DEF MakeDirectory
<1>9. CASE LinkName(r)
  BY <1>0, <1>9 DEF LinkName
<1>. QED
  BY <1>1, <1>2, <1>3, <1>4, <1>5, <1>6, <1>7, <1>8, <1>9, RepliesEnd DEF FolderStep

LEMMA FolderNamedStep ==
  ASSUME FolderInv, NEW r \in Request, FolderStep(r)
  PROVE  RequestNamed(r)'
<1>. USE DEF RequestNamed, Total
<1>0. RequestNamed(r) /\ Total
  BY DEF FolderInv
<1>1. CASE PathField(r)
  <2>1. body[r] \in Bodies /\ pos[r] \in 1..Len(body[r])
        /\ body[r] \in Seq(Range(body[r]))
    BY <1>1, FolderAssumption, LenProperties DEF PathField, Reads, FolderInv, RequestTyped
  <2>2. body[r][pos[r]] \in Range(body[r])
    BY <2>1, LenProperties DEF Range
  <2>3. body[r][pos[r]].segments \in Seq(Range(body[r][pos[r]].segments))
    BY <1>1, <2>1, <2>2, FolderAssumption DEF PathField, Reads
  <2>. QED BY <1>0, <1>1, <2>3 DEF PathField
<1>2. CASE Relative(r)
  <2>1. PlainPath(Joined(relativeDirectory[r]))
    BY <1>0, <1>2, UsablePlain DEF Relative
  <2>2. <<>> \in Seq(Range(<<>>))
    BY EmptySeq
  <2>. QED BY <1>0, <1>2, <2>1, <2>2 DEF Relative
<1>3. CASE MakeDirectory(r)
  BY <1>0, <1>3, PlainTail DEF MakeDirectory
<1>4. CASE Ends(r)
  BY <1>0, <1>4 DEF Ends, Reply
<1>5. CASE RootField(r) \/ SkipPart(r) \/ FilePart(r) \/ Store(r) \/ DirectoriesMade(r)
           \/ RootTaken(r) \/ NameTaken(r) \/ TakeRoot(r) \/ LinkName(r)
  BY <1>0, <1>5
     DEF RootField, SkipPart, FilePart, Store, DirectoriesMade, RootTaken, NameTaken, TakeRoot,
         LinkName
<1>. QED
  BY <1>1, <1>2, <1>3, <1>4, <1>5, RepliesEnd DEF FolderStep

\* What the steps that add a node to the tree have in common.
LEMMA AddsOne ==
  ASSUME FolderInv, NEW r \in Request, Adds(r)
  PROVE  \E at, x : \E kind \in {"file", "dir"} :
           /\ PlaceOK(tree, at, r)
           /\ \/ ~Taken(Append(at, x)) /\ tree' = With(Append(at, x), kind, r)
              \/ UNCHANGED tree
<1>1. PlaceOK(tree, <<>>, r) /\ PlaceOK(tree, target[r], r)
  BY EmptySeq DEF PlaceOK, IsPath, FolderInv, RequestPlaced
<1>2. CASE TakeRoot(r)
  <2>1. \A x : <<x>> = Append(<<>>, x)
    OBVIOUS
  <2>2. ~Taken(<<RootCandidate(r)>>) /\ tree' = With(<<RootCandidate(r)>>, "dir", r)
    BY <1>2 DEF TakeRoot
  <2>. QED BY <1>1, <2>1, <2>2
<1>3. CASE MakeDirectory(r)
  BY <1>1, <1>3 DEF MakeDirectory
<1>4. CASE LinkName(r)
  BY <1>1, <1>4 DEF LinkName, Candidate
<1>. QED BY <1>2, <1>3, <1>4 DEF Adds

LEMMA TreeStep ==
  ASSUME FolderInv, NEW r \in Request, FolderStep(r)
  PROVE  TreeOK' /\ \A p \in DOMAIN tree : p \in DOMAIN tree' /\ tree'[p] = tree[p]
<1>0. TreeOK
  BY DEF FolderInv
<1>1. CASE UNCHANGED tree
  BY <1>0, <1>1 DEF TreeOK
<1>2. CASE Adds(r)
  <2>1. PICK at, x : \E kind \in {"file", "dir"} :
           /\ PlaceOK(tree, at, r)
           /\ \/ ~Taken(Append(at, x)) /\ tree' = With(Append(at, x), kind, r)
              \/ UNCHANGED tree
    BY <1>2, AddsOne
  <2>2. PICK kind \in {"file", "dir"} :
           /\ PlaceOK(tree, at, r)
           /\ \/ ~Taken(Append(at, x)) /\ tree' = With(Append(at, x), kind, r)
              \/ UNCHANGED tree
    BY <2>1
  <2>3. CASE ~Taken(Append(at, x)) /\ tree' = With(Append(at, x), kind, r)
    BY <1>0, <2>2, <2>3, Grow
  <2>. QED BY <1>1, <2>2, <2>3
<1>. QED BY <1>1, <1>2, TreeCases

LEMMA FolderPlacedStep ==
  ASSUME FolderInv, NEW r \in Request, FolderStep(r)
  PROVE  RequestPlaced(r)'
<1>. USE DEF Total
<1>0. /\ Total /\ TreeOK
      /\ PlaceOK(tree, target[r], r)
      /\ folderName[r] # <<>> => PlaceOK(tree, <<folderName[r]>>, r)
      /\ step[r] \in {"relative", "mkdirs"} => target[r] # <<>>
  BY DEF FolderInv, RequestPlaced
<1>1. \A p : PlaceOK(tree, p, r) => PlaceOK(tree', p, r)
  BY TreeStep, PlaceKept
<1>2. ASSUME UNCHANGED <<folderName, target>>,
             step'[r] \in {"relative", "mkdirs"} => step[r] \in {"relative", "mkdirs"}
      PROVE  RequestPlaced(r)'
  BY <1>0, <1>1, <1>2 DEF RequestPlaced
<1>3. CASE RootField(r) \/ PathField(r) \/ SkipPart(r) \/ RootTaken(r) \/ NameTaken(r) \/ LinkName(r)
           \/ Store(r) \/ DirectoriesMade(r) \/ Relative(r)
  BY <1>0, <1>2, <1>3
     DEF RootField, PathField, SkipPart, RootTaken, NameTaken, LinkName, Store, DirectoriesMade,
         Relative
<1>4. CASE Ends(r)
  BY <1>0, <1>2, <1>4 DEF Ends, Reply
<1>5. CASE FilePart(r)
  <2>1. /\ target'[r] = IF folderName[r] = <<>> THEN <<>> ELSE <<folderName[r]>>
        /\ step'[r] = CASE folderRoot[r] = <<>> -> "store"
                        [] folderRoot[r] # <<>> /\ folderName[r] = <<>> -> "root"
                        [] OTHER -> "relative"
        /\ folderName'[r] = folderName[r]
    BY <1>0, <1>5 DEF FilePart
  <2>2. step'[r] \in {"relative", "mkdirs"} => folderName[r] # <<>>
    BY <2>1
  <2>3. PlaceOK(tree', <<>>, r) /\ <<folderName[r]>> # <<>>
    BY EmptySeq DEF PlaceOK, IsPath
  <2>. QED BY <1>0, <1>1, <2>1, <2>2, <2>3 DEF RequestPlaced
<1>6. CASE TakeRoot(r)
  <2>. DEFINE name == RootCandidate(r)
  <2>1. /\ ~Taken(<<name>>) /\ tree' = With(<<name>>, "dir", r)
        /\ folderName'[r] = name /\ target'[r] = <<name>> /\ <<name>> = Append(<<>>, name)
    BY <1>0, <1>6 DEF TakeRoot
  <2>. HIDE DEF name
  <2>2. PlaceOK(tree, <<>>, r) /\ <<name>> # <<>>
    BY EmptySeq DEF PlaceOK, IsPath
  <2>3. PlaceOK(tree', <<name>>, r)
    <3>1. ~Taken(Append(<<>>, name)) /\ tree' = With(Append(<<>>, name), "dir", r)
      BY <2>1
    <3>2. PlaceOK(tree', Append(<<>>, name), r)
      BY <1>0, <2>2, <3>1, Grow
    <3>. QED BY <2>1, <3>2
  <2>. QED BY <2>1, <2>2, <2>3 DEF RequestPlaced
<1>7. CASE MakeDirectory(r)
  <2>. DEFINE x == Head(todo[r])
              path == Append(target[r], x)
  <2>1. /\ \/ ~Taken(path) /\ tree' = With(path, "dir", r)
           \/ Taken(path) /\ tree[path].kind = "dir" /\ UNCHANGED tree
        /\ target'[r] = path /\ target[r] # <<>> /\ UNCHANGED folderName
        /\ x \notin NoNames
    BY <1>0, <1>7, PlainTail DEF MakeDirectory, FolderInv, RequestNamed
  <2>2. /\ IsPath(path) /\ path # <<>> /\ Last(path) = x /\ path[1] = target[r][1]
    BY <1>0, <2>1, PathAppend DEF PlaceOK
  <2>3. PlaceOK(tree', path, r)
    <3>1. CASE ~Taken(path) /\ tree' = With(path, "dir", r)
      BY <1>0, <3>1, Grow
    <3>2. CASE Taken(path) /\ tree[path].kind = "dir" /\ UNCHANGED tree
      <4>1. path \in DOMAIN tree
        BY <2>1, <2>2, <3>2 DEF Taken, NoNames
      <4>. HIDE DEF path
      <4>. QED BY <1>0, <2>1, <2>2, <3>2, <4>1 DEF PlaceOK
    <3>. QED BY <2>1, <3>1, <3>2
  <2>. HIDE DEF path
  <2>. QED BY <1>0, <1>1, <2>1, <2>2, <2>3 DEF RequestPlaced
<1>. QED
  BY <1>3, <1>4, <1>5, <1>6, <1>7, RepliesEnd DEF FolderStep

LEMMA FolderInvStep == FolderInv /\ [FolderNext]_folderVars => FolderInv'
<1>. SUFFICES ASSUME FolderInv, [FolderNext]_folderVars PROVE FolderInv'
  OBVIOUS
<1>1. ASSUME NEW r \in Request, FolderStep(r) PROVE FolderInv'
  <2>1. Total' /\ TreeOK' /\ \A p \in DOMAIN tree : p \in DOMAIN tree' /\ tree'[p] = tree[p]
    BY <1>1, OthersStay, TreeStep DEF FolderInv
  <2>2. ASSUME NEW q \in Request \ {r}
        PROVE  RequestTyped(q)' /\ RequestPlaced(q)' /\ RequestNamed(q)'
    <3>1. RequestTyped(q) /\ RequestPlaced(q) /\ RequestNamed(q)
      BY DEF FolderInv
    <3>2. /\ body'[q] = body[q] /\ pos'[q] = pos[q] /\ folderName'[q] = folderName[q]
          /\ relativeDirectory'[q] = relativeDirectory[q] /\ todo'[q] = todo[q]
          /\ target'[q] = target[q] /\ sequence'[q] = sequence[q]
          /\ step'[q] = step[q] /\ answer'[q] = answer[q]
      BY <1>1, OthersStay DEF FolderInv
    <3>3. \A p : PlaceOK(tree, p, q) => PlaceOK(tree', p, q)
      BY <2>1, PlaceKept
    <3>4. RequestPlaced(q)'
      BY <3>1, <3>2, <3>3 DEF RequestPlaced
    <3>. QED BY <3>1, <3>2, <3>4 DEF RequestTyped, RequestNamed
  <2>3. RequestTyped(r)' /\ RequestPlaced(r)' /\ RequestNamed(r)'
    BY <1>1, FolderTypedStep, FolderPlacedStep, FolderNamedStep
  <2>. QED BY <2>1, <2>2, <2>3 DEF FolderInv
<1>2. CASE UNCHANGED folderVars
  BY <1>2 DEF FolderInv, Total, TreeOK, RequestTyped, RequestPlaced, RequestNamed
<1>. QED BY <1>1, <1>2, FolderCases

\* The types of the model, and that the tree is one: a node lies in a directory
\* (server.go: createUniqueDirectory, createRelativeDirectory, publishFile).
THEOREM FolderTypesCorrect == FolderSpec => []FolderTypeOK
<1>1. FolderInv => FolderTypeOK
  BY DEF FolderInv, FolderTypeOK, TreeOK, NodeOK, RequestTyped
<1>. QED BY <1>1, FolderInvInit, FolderInvStep, PTL DEF FolderSpec

\* README.md:86-87: "A conflicting root folder receives a numeric suffix instead of
\* being merged or overwritten."  All that is in a folder, at any depth, was
\* put there by the request that made the folder, whatever the other requests
\* of the identity do meanwhile.
THEOREM NeverMerged == FolderSpec => []FoldersNotMerged
<1>1. FolderInv => FoldersNotMerged
  BY DEF FolderInv, FoldersNotMerged, TreeOK, NodeOK
<1>. QED BY <1>1, FolderInvInit, FolderInvStep, PTL DEF FolderSpec
-----------------------------------------------------------------------------
(* Every name in the tree is legal.                                        *)

FitsTree(x) == Clean(x) /\ x # <<>> /\ Bytes(x) \in Nat /\ Bytes(x) <= MaxNameBytes + 1

LegalName(x) == x \notin {Dot, DotDot} /\ FitsTree(x)

SafeRoots == {SafeFilename(n) : n \in Sent}

\* Where the names come from that a request still has to use.
RequestSafe(r) ==
  /\ Range(relativeDirectory[r]) \subseteq Sent
  /\ \A x \in Range(todo[r]) : Clean(x) /\ Short(x)
  /\ folderRoot[r] # <<>> => folderRoot[r] \in SafeRoots
  /\ step[r] = "root" => folderRoot[r] # <<>>
  /\ step[r] \notin {"part", "done"} => body[r][pos[r]].kind = "file"
  /\ step[r] = "link" => Safe[body[r][pos[r]].name] # <<>>

TreeLegal == \A p \in DOMAIN tree : \A i \in DOMAIN p : LegalName(p[i])

\* The inductive invariant of the names.
NamesInv == FolderInv /\ TreeLegal /\ \A r \in Request : RequestSafe(r)

\* What a client sends are names.
LEMMA SentNames ==
  /\ \A n \in Sent : n \in Seq(Range(n))
  /\ \A b \in Bodies : \A i \in 1..Len(b) :
       /\ b[i].kind \in {"root", "file"} => b[i].name \in Sent
       /\ b[i].kind = "path" => Range(b[i].segments) \subseteq Sent
<1>. DEFINE Parts == UNION {Range(b) : b \in Bodies}
            Names(part) == CASE part.kind \in {"root", "file"} -> {part.name}
                             [] part.kind = "path" -> Range(part.segments)
                             [] OTHER -> {}
<1>1. Sent = UNION {Names(part) : part \in Parts}
  BY DEF Sent
<1>2. ASSUME NEW part \in Parts
      PROVE  /\ \A n \in Names(part) : n \in Seq(Range(n))
             /\ part.kind \in {"root", "file"} => part.name \in Names(part)
             /\ part.kind = "path" => Range(part.segments) \subseteq Names(part)
  <2>1. /\ part.kind \in {"root", "file"} => part.name \in Seq(Range(part.name))
        /\ part.kind = "path" => \A s \in Range(part.segments) : s \in Seq(Range(s))
    BY FolderAssumption
  <2>2. CASE part.kind \in {"root", "file"}
    <3>1. Names(part) = {part.name} /\ part.kind # "path"
      BY <2>2
    <3>. HIDE DEF Names
    <3>. QED BY <2>1, <2>2, <3>1
  <2>3. CASE part.kind = "path"
    <3>1. Names(part) = Range(part.segments) /\ part.kind \notin {"root", "file"}
      BY <2>3
    <3>. HIDE DEF Names
    <3>. QED BY <2>1, <2>3, <3>1
  <2>4. CASE part.kind \notin {"root", "file", "path"}
    <3>1. Names(part) = {}
      BY <2>4
    <3>. HIDE DEF Names
    <3>. QED BY <2>4, <3>1
  <2>. QED BY <2>2, <2>3, <2>4
<1>3. ASSUME NEW b \in Bodies, NEW i \in 1..Len(b) PROVE b[i] \in Parts
  <2>1. i \in DOMAIN b
    BY FolderAssumption, LenProperties
  <2>. QED BY <2>1 DEF Range
<1>. HIDE DEF Names, Parts
<1>4. \A n \in Sent : n \in Seq(Range(n))
  BY <1>1, <1>2
<1>5. ASSUME NEW b \in Bodies, NEW i \in 1..Len(b)
      PROVE  /\ b[i].kind \in {"root", "file"} => b[i].name \in Sent
             /\ b[i].kind = "path" => Range(b[i].segments) \subseteq Sent
  BY <1>1, <1>2, <1>3
<1>. QED BY <1>4, <1>5

LEMMA SafeOf ==
  ASSUME NEW n \in Sent \cup SafeRoots
  PROVE  Safe[n] = SafeFilename(n) /\ Clean(Safe[n]) /\ Short(Safe[n])
<1>1. Safe[n] = SafeFilename(n)
  BY DEF Safe, SafeRoots
<1>2. \A m : m \in Seq(Range(m)) => Clean(SafeFilename(m)) /\ Short(SafeFilename(m))
  BY SafeNames
<1>3. n \in Seq(Range(n))
  BY <1>2, SentNames DEF SafeRoots, Clean, Allowed
<1>. QED BY <1>1, <1>2, <1>3

\* The candidates of createUniqueDirectory and of publishFile.
LEMMA CandidatesClean ==
  ASSUME NEW name, Clean(name), Short(name), name # <<>>, NEW n \in 0..Candidates - 1
  PROVE  /\ FitsTree(IF n = 0 THEN name ELSE Append(name, Suffix(n)))
         /\ FitsTree(FileCandidate(name, n))
<1>1. Candidates \in Nat /\ MaxNameBytes \in Nat
  BY FolderAssumption, NamesAssumption
<1>2. CASE n = 0
  <2>1. FileCandidate(name, n) = name
    BY <1>2 DEF FileCandidate
  <2>2. Bytes(name) \in Nat /\ Bytes(name) <= MaxNameBytes + 1
    BY <1>1 DEF Short
  <2>. QED BY <1>2, <2>1, <2>2 DEF FitsTree
<1>3. CASE n # 0
  <2>. DEFINE ext == Ext(name)
              s == SubSeq(name, 1, Len(name) - Len(ext))
  <2>1. n \in 1..Candidates
    BY <1>1, <1>3
  <2>2. Suffix(n) \notin Bad \cup DOMAIN Wide \cup {"/", "\\", " ", "replacement"}
    BY <2>1, SuffixAssumption
  <2>3. name \in Seq(Range(name)) /\ Len(name) \in Nat
    BY LenProperties DEF Clean, Allowed
  <2>4. /\ ext \in Seq(Range(name)) /\ Range(ext) \subseteq Range(name)
        /\ ext # <<>> => Last(ext) = Last(name)
        /\ Len(ext) \in 0..Len(name)
        /\ name = s \o ext
    BY <2>3, ExtEnds
  <2>5. FileCandidate(name, n) = Append(s, Suffix(n)) \o ext
    BY <1>3 DEF FileCandidate
  <2>6. Allowed(s)
    <3>1. Len(name) - Len(ext) \in 0..Len(name) /\ 1 \in 1..(Len(name) + 1)
      <4>1. \A x \in 0..Len(name) : Len(name) - x \in 0..Len(name)
        BY <2>3
      <4>. HIDE DEF ext
      <4>. QED BY <2>3, <2>4, <4>1
    <3>2. s \in Seq(Range(name)) /\ Range(s) \subseteq Range(name)
      <4>. DEFINE m == Len(name) - Len(ext)
      <4>. HIDE DEF m, ext
      <4>1. SubSeq(name, 1, m) \in Seq(Range(name)) /\ Range(SubSeq(name, 1, m)) \subseteq Range(name)
        BY <2>3, <3>1, BytesSub DEF m
      <4>. QED BY <4>1 DEF m
    <3>. HIDE DEF s
    <3>3. s \in Seq(Range(s))
      BY <3>2, SeqOfRange
    <3>. QED BY <3>2, <3>3 DEF Clean, Allowed
  <2>. HIDE DEF s, ext
  <2>7. Clean(ext)
    <3>1. ext \in Seq(Range(ext))
      BY <2>4, SeqOfRange
    <3>. QED BY <2>4, <3>1 DEF Clean, Allowed
  <2>8. FitsTree(Append(s, Suffix(n)) \o ext)
    <3>1. Short(s \o ext)
      BY <2>4
    <3>. QED BY <2>2, <2>6, <2>7, <3>1, CleanInserted DEF FitsTree
  <2>9. FitsTree(Append(name, Suffix(n)))
    <3>1. name \o <<>> = name /\ Allowed(name)
      BY <2>3, ConcatEmptySeq DEF Clean
    <3>2. Clean(<<>>)
      <4>1. Range(<<>>) = {} /\ <<>> \in Seq({})
        BY DEF Range
      <4>. QED BY <4>1 DEF Clean, Allowed
    <3>3. FitsTree(Append(name, Suffix(n)) \o <<>>)
      BY <2>2, <3>1, <3>2, CleanInserted DEF FitsTree
    <3>4. Append(name, Suffix(n)) \o <<>> = Append(name, Suffix(n))
      <4>1. name \in Seq(Range(name) \cup {Suffix(n)})
        BY <2>3, SeqMonotonic
      <4>2. Append(name, Suffix(n)) \in Seq(Range(name) \cup {Suffix(n)})
        BY <4>1, AppendProperties
      <4>. QED BY <4>2, ConcatEmptySeq
    <3>. QED BY <3>3, <3>4
  <2>. QED BY <1>3, <2>5, <2>8, <2>9
<1>. QED BY <1>2, <1>3

\* A name in a tree that has only legal ones.
LEMMA LegalGrow ==
  ASSUME TreeLegal, NEW at, IsPath(at), at # <<>> => at \in DOMAIN tree,
         NEW x, LegalName(x), NEW kind, NEW r, tree' = With(Append(at, x), kind, r)
  PROVE  TreeLegal'
<1>. DEFINE path == Append(at, x)
<1>1. DOMAIN tree' = DOMAIN tree \cup {path}
  BY DEF With
<1>2. /\ IsPath(path) /\ Len(path) = Len(at) + 1 /\ Last(path) = x
      /\ \A i \in 1..Len(at) : path[i] = at[i]
  BY PathAppend
<1>3. Len(at) \in Nat /\ DOMAIN at = 1..Len(at) /\ (at = <<>> <=> Len(at) = 0)
  BY PathLength
<1>. HIDE DEF path
<1>4. DOMAIN path = 1..Len(path)
  BY <1>2, PathLength
<1>5. ASSUME NEW i \in DOMAIN path PROVE LegalName(path[i])
  <2>1. CASE i = Len(path)
    BY <1>2, <2>1 DEF Last
  <2>2. CASE i # Len(path)
    <3>1. i \in DOMAIN at
      BY <1>2, <1>3, <1>4, <1>5, <2>2
    <3>2. at \in DOMAIN tree
      BY <1>3, <3>1
    <3>. QED BY <1>2, <1>3, <3>1, <3>2 DEF TreeLegal
  <2>. QED BY <2>1, <2>2
<1>. QED BY <1>1, <1>5 DEF TreeLegal

LEMMA NamesInvInit == FolderInit => NamesInv
<1>. SUFFICES ASSUME FolderInit PROVE NamesInv
  OBVIOUS
<1>1. DOMAIN tree = {} /\ Range(<<>>) = {}
  BY DEF FolderInit, Range
<1>2. \A r \in Request : RequestSafe(r)
  BY <1>1 DEF FolderInit, RequestSafe
<1>. QED BY <1>1, <1>2, FolderInvInit DEF NamesInv, TreeLegal

\* The name createUniqueDirectory tries.
LEMMA RootCandidateFits ==
  ASSUME NamesInv, NEW r \in Request, step[r] = "root", sequence[r] < Candidates, ~RootUnusable(r)
  PROVE  FitsTree(RootCandidate(r))
<1>. DEFINE n == sequence[r]
            root == Safe[folderRoot[r]]
<1>1. RequestSafe(r) /\ RequestTyped(r)
  BY DEF NamesInv, FolderInv
<1>2. folderRoot[r] \in Sent \cup SafeRoots
  BY <1>1 DEF RequestSafe
<1>3. Clean(root) /\ Short(root) /\ root # <<>>
  BY <1>2, SafeOf DEF RootUnusable
<1>4. n \in 0..Candidates - 1
  BY <1>1, FolderAssumption DEF RequestTyped
<1>5. RootCandidate(r) = IF n = 0 THEN root ELSE Append(root, Suffix(n))
  BY DEF RootCandidate, DirectoryCandidate
<1>. HIDE DEF n, root
<1>. QED BY <1>3, <1>4, <1>5, CandidatesClean

\* The steps that add a node give it a legal name.
LEMMA LegalStep ==
  ASSUME NamesInv, NEW r \in Request, FolderStep(r)
  PROVE  TreeLegal'
<1>. USE DEF Total
<1>0. /\ TreeLegal /\ RequestSafe(r) /\ RequestTyped(r) /\ RequestPlaced(r) /\ RequestNamed(r)
      /\ PlaceOK(tree, target[r], r)
  BY DEF NamesInv, FolderInv, RequestPlaced
<1>1. CASE UNCHANGED tree
  BY <1>0, <1>1 DEF TreeLegal
<1>2. CASE TakeRoot(r)
  <2>. DEFINE x == RootCandidate(r)
  <2>1. /\ ~Taken(<<x>>) /\ tree' = With(<<x>>, "dir", r) /\ <<x>> = Append(<<>>, x)
        /\ sequence[r] < Candidates /\ ~RootUnusable(r) /\ step[r] = "root"
    BY <1>2 DEF TakeRoot
  <2>6. FitsTree(x)
    BY <2>1, RootCandidateFits
  <2>. HIDE DEF x
  <2>7. x \notin {Dot, DotDot}
    <3>1. Last(<<x>>) = x
      BY PathOne DEF Last
    <3>. QED BY <2>1, <3>1 DEF Taken
  <2>8. tree' = With(Append(<<>>, x), "dir", r) /\ IsPath(<<>>)
    BY <2>1, EmptySeq DEF IsPath
  <2>. QED BY <1>0, <2>6, <2>7, <2>8, LegalGrow DEF LegalName
<1>3. CASE MakeDirectory(r) /\ ~UNCHANGED tree
  <2>. DEFINE x == Head(todo[r])
  <2>1. /\ ~Taken(Append(target[r], x)) /\ tree' = With(Append(target[r], x), "dir", r)
        /\ todo[r] # <<>> /\ PlainPath(todo[r])
    BY <1>0, <1>3 DEF MakeDirectory, RequestNamed
  <2>2. x \in Range(todo[r]) /\ x \notin NoNames
    BY <2>1, PlainTail, HeadTailProperties, EmptySeq, LenProperties DEF PlainPath, Range
  <2>3. Clean(x) /\ Short(x)
    BY <1>0, <2>2 DEF RequestSafe
  <2>. HIDE DEF x
  <2>4. LegalName(x)
    <3>1. Bytes(x) \in Nat /\ Bytes(x) <= MaxNameBytes + 1
      <4>1. Bytes(x) \in Nat /\ Bytes(x) <= MaxNameBytes
        BY <2>3 DEF Short
      <4>2. MaxNameBytes \in Nat
        BY NamesAssumption
      <4>3. \A m, n \in Nat : m <= n => m <= n + 1
        OBVIOUS
      <4>. QED BY <4>1, <4>2, <4>3
    <3>. QED BY <2>2, <2>3, <3>1 DEF LegalName, FitsTree, NoNames
  <2>. QED BY <1>0, <2>1, <2>4, LegalGrow DEF PlaceOK
<1>4. CASE LinkName(r)
  <2>. DEFINE name == Safe[body[r][pos[r]].name]
              n == sequence[r]
              x == FileCandidate(name, n)
  <2>1. /\ ~Taken(Append(target[r], x)) /\ tree' = With(Append(target[r], x), "file", r)
        /\ n < Candidates /\ step[r] = "link"
    BY <1>4 DEF LinkName, Candidate
  <2>2. name # <<>> /\ body[r][pos[r]].kind = "file" /\ pos[r] \in 1..Len(body[r])
    <3>1. Len(body[r]) \in Nat
      BY <1>0, FolderAssumption, LenProperties DEF RequestTyped
    <3>. QED BY <1>0, <2>1, <3>1 DEF RequestSafe, RequestTyped
  <2>3. Clean(name) /\ Short(name)
    <3>1. body[r][pos[r]].name \in Sent
      BY <1>0, <2>2, SentNames DEF RequestTyped
    <3>. QED BY <3>1, SafeOf
  <2>4. n \in 0..Candidates - 1
    BY <1>0, <2>1, FolderAssumption DEF RequestTyped
  <2>5. FitsTree(x)
    <3>. HIDE DEF name, n
    <3>. QED BY <2>2, <2>3, <2>4, CandidatesClean
  <2>. HIDE DEF x
  <2>6. x \notin {Dot, DotDot}
    <3>1. Last(Append(target[r], x)) = x
      BY <1>0, PathAppend DEF PlaceOK
    <3>. QED BY <2>1, <3>1 DEF Taken
  <2>. QED BY <1>0, <2>1, <2>5, <2>6, LegalGrow DEF PlaceOK, LegalName
<1>. QED BY <1>1, <1>2, <1>3, <1>4, TreeCases DEF Adds

LEMMA SafeStep ==
  ASSUME NamesInv, NEW r \in Request, FolderStep(r)
  PROVE  RequestSafe(r)'
<1>. USE DEF RequestSafe, Total
<1>0. RequestSafe(r) /\ Total /\ RequestTyped(r) /\ RequestNamed(r) /\ Len(body[r]) \in Nat
  BY FolderAssumption, LenProperties DEF NamesInv, FolderInv, RequestTyped
<1>1. CASE RootField(r)
  <2>1. /\ folderRoot'[r] = Safe[body[r][pos[r]].name] /\ body[r][pos[r]].kind = "root"
        /\ pos[r] \in 1..Len(body[r]) /\ body[r] \in Bodies
        /\ UNCHANGED <<relativeDirectory, todo, step, body>> /\ step[r] = "part"
    BY <1>0, <1>1 DEF RootField, Reads, RequestTyped
  <2>2. body[r][pos[r]].name \in Sent
    BY <2>1, SentNames
  <2>3. Safe[body[r][pos[r]].name] \in SafeRoots
    BY <2>2, SafeOf DEF SafeRoots
  <2>. QED BY <1>0, <2>1, <2>3
<1>2. CASE PathField(r)
  <2>1. /\ relativeDirectory'[r] = body[r][pos[r]].segments /\ body[r][pos[r]].kind = "path"
        /\ pos[r] \in 1..Len(body[r]) /\ body[r] \in Bodies
        /\ UNCHANGED <<folderRoot, todo, step, body>> /\ step[r] = "part"
    BY <1>0, <1>2 DEF PathField, Reads, RequestTyped
  <2>2. Range(body[r][pos[r]].segments) \subseteq Sent
    BY <2>1, SentNames
  <2>. QED BY <1>0, <2>1, <2>2
<1>3. CASE SkipPart(r)
  BY <1>0, <1>3 DEF SkipPart, Reads
<1>4. CASE FilePart(r)
  <2>1. step'[r] = CASE folderRoot[r] = <<>> -> "store"
                     [] folderRoot[r] # <<>> /\ folderName[r] = <<>> -> "root"
                     [] OTHER -> "relative"
    BY <1>0, <1>4 DEF FilePart
  <2>2. step'[r] # "link" /\ (step'[r] = "root" => folderRoot[r] # <<>>)
    BY <2>1
  <2>3. UNCHANGED <<body, pos, fieldVars, todo>> /\ body[r][pos[r]].kind = "file"
    BY <1>4 DEF FilePart, Reads
  <2>. QED BY <1>0, <2>2, <2>3
<1>5. CASE Relative(r)
  <2>1. /\ todo'[r] = Joined(relativeDirectory[r]) /\ relativeDirectory'[r] = <<>>
        /\ step'[r] = "mkdirs" /\ UNCHANGED <<body, pos, folderRoot>> /\ step[r] = "relative"
        /\ Usable(relativeDirectory[r])
    BY <1>0, <1>5 DEF Relative
  <2>2. Range(Joined(relativeDirectory[r])) \subseteq {Safe[s] : s \in Range(relativeDirectory[r])}
    BY <1>0, <2>1, UsablePlain DEF RequestNamed
  <2>3. \A x \in Range(Joined(relativeDirectory[r])) : Clean(x) /\ Short(x)
    BY <1>0, <2>2, SafeOf
  <2>4. Range(<<>>) = {}
    BY DEF Range
  <2>. QED BY <1>0, <2>1, <2>3, <2>4
<1>6. CASE MakeDirectory(r)
  <2>1. /\ todo'[r] = Tail(todo[r]) /\ todo[r] # <<>> /\ step[r] = "mkdirs"
        /\ UNCHANGED <<body, pos, fieldVars, step>>
    BY <1>0, <1>6 DEF MakeDirectory
  <2>2. Range(Tail(todo[r])) \subseteq Range(todo[r])
    <3>1. /\ Len(Tail(todo[r])) = Len(todo[r]) - 1 /\ Len(todo[r]) \in Nat
          /\ \A i \in 1..Len(Tail(todo[r])) : Tail(todo[r])[i] = todo[r][i + 1]
          /\ DOMAIN todo[r] = 1..Len(todo[r]) /\ DOMAIN Tail(todo[r]) = 1..Len(Tail(todo[r]))
      BY <1>0, <2>1, HeadTailProperties, LenProperties DEF RequestNamed, PlainPath
    <3>2. \A i \in DOMAIN Tail(todo[r]) : i + 1 \in DOMAIN todo[r]
      BY <3>1
    <3>. QED BY <3>1, <3>2 DEF Range
  <2>. QED BY <1>0, <2>1, <2>2
<1>7. CASE Store(r)
  BY <1>0, <1>7 DEF Store
<1>8. CASE TakeRoot(r)
  BY <1>0, <1>8 DEF TakeRoot
<1>9. CASE LinkName(r)
  BY <1>0, <1>9 DEF LinkName
<1>10. CASE RootTaken(r) \/ NameTaken(r) \/ DirectoriesMade(r)
  BY <1>0, <1>10 DEF RootTaken, NameTaken, DirectoriesMade
<1>11. CASE Ends(r)
  BY <1>0, <1>11 DEF Ends, Reply
<1>. QED
  BY <1>1, <1>2, <1>3, <1>4, <1>5, <1>6, <1>7, <1>8, <1>9, <1>10, <1>11, RepliesEnd
     DEF FolderStep

LEMMA NamesInvStep == NamesInv /\ [FolderNext]_folderVars => NamesInv'
<1>. SUFFICES ASSUME NamesInv, [FolderNext]_folderVars PROVE NamesInv'
  OBVIOUS
<1>0. FolderInv'
  BY FolderInvStep DEF NamesInv
<1>1. ASSUME NEW r \in Request, FolderStep(r) PROVE NamesInv'
  <2>1. ASSUME NEW q \in Request \ {r} PROVE RequestSafe(q)'
    <3>1. /\ body'[q] = body[q] /\ pos'[q] = pos[q] /\ folderRoot'[q] = folderRoot[q]
          /\ relativeDirectory'[q] = relativeDirectory[q] /\ todo'[q] = todo[q]
          /\ step'[q] = step[q]
      BY <1>1, OthersStay DEF NamesInv, FolderInv
    <3>2. RequestSafe(q)
      BY DEF NamesInv
    <3>. QED BY <3>1, <3>2 DEF RequestSafe
  <2>2. TreeLegal' /\ RequestSafe(r)'
    BY <1>1, LegalStep, SafeStep
  <2>. QED BY <1>0, <2>1, <2>2 DEF NamesInv
<1>2. CASE UNCHANGED folderVars
  BY <1>0, <1>2 DEF NamesInv, TreeLegal, RequestSafe
<1>. QED BY <1>1, <1>2, FolderCases

\* Whatever a client sends as the name of a file, a root or a directory on the
\* way: what the server makes of it (safeFilename, safeRelativeDirectory), with
\* the suffix of createUniqueDirectory or publishFile, is a name the file system
\* takes, and has nothing in it that is there to be replaced.
THEOREM NamesAlwaysLegal == FolderSpec => []NamesLegal
<1>1. NamesInv => NamesLegal
  BY DEF NamesInv, NamesLegal, TreeLegal, LegalName, FitsTree, Clean, Allowed
<1>. QED BY <1>1, NamesInvInit, NamesInvStep, PTL DEF FolderSpec

-----------------------------------------------------------------------------
(* Every file is where the body announced it.                              *)

\* The parts of a body that are files.
LEMMA FilesNext ==
  ASSUME NEW b, NEW n \in Nat \ {0}
  PROVE  /\ b[n].kind = "file" => FilesBefore(b, n + 1) = FilesBefore(b, n) \cup {n}
         /\ b[n].kind # "file" => FilesBefore(b, n + 1) = FilesBefore(b, n)
         /\ IsFiniteSet(FilesBefore(b, n)) /\ Cardinality(FilesBefore(b, n)) \in Nat
         /\ n \notin FilesBefore(b, n)
         /\ b[n].kind = "file" =>
              Cardinality(FilesBefore(b, n + 1)) = Cardinality(FilesBefore(b, n)) + 1
<1>1. \A i : i \in 1..(n + 1) - 1 <=> i \in 1..n - 1 \/ i = n
  OBVIOUS
<1>2. n \notin 1..n - 1
  OBVIOUS
<1>3. IsFiniteSet(FilesBefore(b, n))
  <2>1. IsFiniteSet(1..n - 1)
    BY FS_Interval
  <2>. QED BY <2>1, FS_Subset DEF FilesBefore
<1>4. /\ b[n].kind = "file" => FilesBefore(b, n + 1) = FilesBefore(b, n) \cup {n}
      /\ b[n].kind # "file" => FilesBefore(b, n + 1) = FilesBefore(b, n)
      /\ n \notin FilesBefore(b, n)
  BY <1>1, <1>2 DEF FilesBefore
<1>5. Cardinality(FilesBefore(b, n)) \in Nat
  BY <1>3, FS_CardinalityType
<1>6. Cardinality(FilesBefore(b, n) \cup {n}) = Cardinality(FilesBefore(b, n)) + 1
  BY <1>3, <1>4, FS_AddElement
<1>. QED BY <1>3, <1>4, <1>5, <1>6

\* A file has fewer files before it than a later part.
LEMMA FilesRank ==
  ASSUME NEW b, NEW n \in Nat \ {0}, NEW j \in FilesBefore(b, n)
  PROVE  /\ Cardinality(FilesBefore(b, j)) \in Nat
         /\ Cardinality(FilesBefore(b, j)) + 1 <= Cardinality(FilesBefore(b, n))
<1>1. j \in Nat \ {0} /\ j + 1 <= n /\ b[j].kind = "file"
  BY DEF FilesBefore
<1>2. /\ Cardinality(FilesBefore(b, j)) \in Nat
      /\ Cardinality(FilesBefore(b, j + 1)) = Cardinality(FilesBefore(b, j)) + 1
  BY <1>1, FilesNext
<1>3. FilesBefore(b, j + 1) \subseteq FilesBefore(b, n)
  <2>1. \A i \in 1..(j + 1) - 1 : i \in 1..n - 1
    BY <1>1
  <2>. QED BY <2>1 DEF FilesBefore
<1>4. IsFiniteSet(FilesBefore(b, n))
  BY FilesNext
<1>5. Cardinality(FilesBefore(b, j + 1)) <= Cardinality(FilesBefore(b, n))
  BY <1>3, <1>4, FS_Subset
<1>. QED BY <1>2, <1>5

\* The path that is announced after one more part.
LEMMA AnnouncedNext ==
  ASSUME NEW b, NEW n \in Nat \ {0}
  PROVE  /\ Announced(b, 1) = <<>>
         /\ b[n].kind = "path" => Announced(b, n + 1) = b[n].segments
         /\ b[n].kind = "file" => Announced(b, n + 1) = <<>>
         /\ b[n].kind \notin {"path", "file"} => Announced(b, n + 1) = Announced(b, n)
<1>. DEFINE paths(j) == {i \in 1..j - 1 : /\ b[i].kind = "path"
                                         /\ \A h \in i + 1..j - 1 : b[h].kind \notin {"path", "file"}}
<1>1. \A j : Announced(b, j) = IF paths(j) = {} THEN <<>>
                               ELSE b[CHOOSE i \in paths(j) : TRUE].segments
  BY DEF Announced
<1>2. paths(1) = {}
  OBVIOUS
<1>3. \A i : i \in 1..(n + 1) - 1 <=> i \in 1..n - 1 \/ i = n
  OBVIOUS
<1>4. /\ \A i \in 1..n - 1 : \A h : h \in i + 1..(n + 1) - 1 <=> h \in i + 1..n - 1 \/ h = n
      /\ n + 1..(n + 1) - 1 = {}
  OBVIOUS
<1>5. CASE b[n].kind = "path"
  <2>1. n \in paths(n + 1)
    BY <1>3, <1>4, <1>5
  <2>2. \A i \in paths(n + 1) : i = n
    BY <1>3, <1>4, <1>5
  <2>3. (CHOOSE i \in paths(n + 1) : TRUE) = n
    <3>. HIDE DEF paths
    <3>. QED BY <2>1, <2>2
  <2>4. Announced(b, n + 1) = b[n].segments
    <3>. HIDE DEF paths
    <3>. QED BY <1>1, <2>1, <2>3
  <2>5. Announced(b, 1) = <<>>
    <3>. HIDE DEF paths
    <3>. QED BY <1>1, <1>2
  <2>. QED BY <1>5, <2>4, <2>5
<1>6. CASE b[n].kind = "file"
  <2>1. paths(n + 1) = {}
    BY <1>3, <1>4, <1>6
  <2>. HIDE DEF paths
  <2>. QED BY <1>1, <1>2, <1>6, <2>1
<1>7. CASE b[n].kind \notin {"path", "file"}
  <2>1. paths(n + 1) = paths(n)
    BY <1>3, <1>4, <1>7
  <2>. HIDE DEF paths
  <2>. QED BY <1>1, <1>2, <1>7, <2>1
<1>. QED BY <1>5, <1>6, <1>7

\* The folder of a request.
InFolder(r) == IF folderRoot[r] = <<>> THEN <<>> ELSE <<folderName[r]>>

\* Where the file belongs that the request is at.
Ahead(r) == InFolder(r) \o Joined(Announced(body[r], pos[r]))

\* The way there: the fields say what the parts have announced, and the
\* directories made and the ones still to make are the path.
OnTheWay(r) ==
  /\ folderRoot[r] = <<>> => folderName[r] = <<>> /\ relativeDirectory[r] = <<>>
  /\ step[r] \in {"part", "root", "relative"} => relativeDirectory[r] = Announced(body[r], pos[r])
  /\ step[r] \in {"mkdirs", "store", "link"} => relativeDirectory[r] = <<>>
  /\ step[r] = "root" => folderRoot[r] # <<>> /\ folderName[r] = <<>>
  /\ step[r] \in {"relative", "mkdirs"} => folderRoot[r] # <<>>
  /\ step[r] \in {"relative", "mkdirs", "store", "link"} /\ folderRoot[r] # <<>> =>
       folderName[r] # <<>>
  /\ step[r] = "relative" => target[r] = InFolder(r)
  /\ step[r] = "mkdirs" => target[r] \o todo[r] = Ahead(r)
  /\ step[r] \in {"store", "link"} => target[r] = Ahead(r)

\* The file that is part j is where it was announced.
PlacedAt(r, j, path) ==
  /\ path \in DOMAIN tree /\ tree[path] = [kind |-> "file", by |-> r, part |-> j]
  /\ Front(path) = InFolder(r) \o Joined(Announced(body[r], j))
  /\ \E m \in 0..Candidates - 1 : Last(path) = FileCandidate(Safe[body[r][j].name], m)

\* All files of the parts read so far are.
Landed(r) ==
  /\ IsPath(uploaded[r])
  /\ Len(uploaded[r]) = Cardinality(FilesBefore(body[r], pos[r]))
  /\ \A j \in FilesBefore(body[r], pos[r]) :
       PlacedAt(r, j, uploaded[r][Cardinality(FilesBefore(body[r], j)) + 1])
  /\ folderRoot[r] # <<>> /\ folderName[r] = <<>> => uploaded[r] = <<>>

\* A success is the answer to the whole body.
Answered(r) ==
  /\ step[r] # "done" => answer[r] = "none"
  /\ answer[r] = "201" => pos[r] = Len(body[r]) + 1

\* The inductive invariant of the places.
PlacesInv == NamesInv /\ \A r \in Request : OnTheWay(r) /\ Landed(r) /\ Answered(r)

LEMMA PlacesInvInit == FolderInit => PlacesInv
<1>. SUFFICES ASSUME FolderInit PROVE PlacesInv
  OBVIOUS
<1>1. NamesInv
  BY NamesInvInit
<1>2. \A b : FilesBefore(b, 1) = {} /\ Announced(b, 1) = <<>>
  BY AnnouncedNext DEF FilesBefore
<1>3. IsPath(<<>>) /\ Len(<<>>) = 0 /\ Cardinality({}) = 0
  BY EmptySeq, FS_EmptySet DEF IsPath
<1>4. ASSUME NEW r \in Request PROVE OnTheWay(r) /\ Landed(r) /\ Answered(r)
  <2>1. /\ pos[r] = 1 /\ step[r] = "part" /\ answer[r] = "none" /\ uploaded[r] = <<>>
        /\ folderRoot[r] = <<>> /\ folderName[r] = <<>> /\ relativeDirectory[r] = <<>>
    BY DEF FolderInit
  <2>2. OnTheWay(r)
    BY <1>2, <2>1 DEF OnTheWay
  <2>3. Landed(r)
    BY <1>2, <1>3, <2>1 DEF Landed
  <2>4. Answered(r)
    BY <2>1 DEF Answered
  <2>. QED BY <2>2, <2>3, <2>4
<1>. QED BY <1>1, <1>4 DEF PlacesInv

LEMMA AnsweredStep ==
  ASSUME PlacesInv, NEW r \in Request, FolderStep(r)
  PROVE  Answered(r)'
<1>. USE DEF Answered, Total
<1>0. Answered(r) /\ Total /\ pos[r] \in 1..Len(body[r]) + 1 /\ Len(body[r]) \in Nat
  BY FolderAssumption, LenProperties DEF PlacesInv, NamesInv, FolderInv, RequestTyped
<1>1. CASE RootField(r) \/ PathField(r) \/ SkipPart(r)
  BY <1>0, <1>1 DEF RootField, PathField, SkipPart, Reads
<1>2. CASE FilePart(r) \/ Store(r) \/ DirectoriesMade(r) \/ RootTaken(r) \/ NameTaken(r) \/ TakeRoot(r)
           \/ Relative(r) \/ MakeDirectory(r) \/ LinkName(r)
  <2>1. step[r] # "done" /\ UNCHANGED <<body, answer>>
    BY <1>2 DEF FilePart, Reads, Store, DirectoriesMade, RootTaken, NameTaken, TakeRoot,
                Relative, MakeDirectory, LinkName
  <2>. QED BY <1>0, <2>1
<1>3. CASE Finish(r)
  <2>1. pos[r] = Len(body[r]) + 1
    BY <1>0, <1>3 DEF Finish
  <2>. QED BY <1>0, <1>3, <2>1 DEF Finish, Reply
<1>4. CASE RejectField(r) \/ BodyFails(r) \/ StoreFails(r) \/ DiskFails(r) \/ RejectRelative(r)
           \/ NoNameLeft(r)
  <2>1. \E status \in {"400", "413", "500", "507"} : Reply(r, status)
    BY <1>4 DEF RejectField, BodyFails, StoreFails, DiskFails, RejectRelative, NoNameLeft
  <2>. QED BY <1>0, <2>1 DEF Reply
<1>. QED BY <1>1, <1>2, <1>3, <1>4 DEF FolderStep

\* What a request has read.
LEMMA AtPart ==
  ASSUME PlacesInv, NEW r \in Request
  PROVE  /\ OnTheWay(r) /\ Landed(r) /\ Total /\ RequestTyped(r) /\ RequestSafe(r)
         /\ pos[r] \in Nat \ {0} /\ IsPath(target[r]) /\ PlainPath(todo[r])
<1>1. /\ OnTheWay(r) /\ Landed(r) /\ Total /\ RequestTyped(r) /\ RequestSafe(r)
      /\ IsPath(target[r]) /\ PlainPath(todo[r])
  BY DEF PlacesInv, NamesInv, FolderInv, RequestPlaced, RequestNamed, PlaceOK
<1>2. pos[r] \in Nat \ {0}
  <2>1. Len(body[r]) \in Nat
    BY <1>1, FolderAssumption, LenProperties DEF RequestTyped
  <2>. QED BY <1>1, <2>1 DEF RequestTyped
<1>. QED BY <1>1, <1>2

\* A directory made is one less to make.
LEMMA OneOver ==
  ASSUME NEW p, IsPath(p), NEW x, NEW q, q \in Seq(Range(q)), NEW t, t \in Seq(Range(t)),
         q = <<x>> \o t
  PROVE  Append(p, x) \o t = p \o q
<1>1. PICK S : p \in Seq(S)
  BY DEF IsPath
<1>. DEFINE C == S \cup {x} \cup Range(t)
<1>2. p \in Seq(C) /\ t \in Seq(C) /\ x \in C /\ <<x>> \in Seq(C)
  BY <1>1, PathOne, SeqMonotonic
<1>. HIDE DEF C
<1>3. Append(p, x) = p \o <<x>>
  BY <1>2, AppendIsConcat
<1>4. (p \o <<x>>) \o t = p \o (<<x>> \o t)
  BY <1>2, ConcatAssociative
<1>. QED BY <1>3, <1>4

LEMMA OnTheWayStep ==
  ASSUME PlacesInv, NEW r \in Request, FolderStep(r)
  PROVE  OnTheWay(r)'
<1>. USE DEF OnTheWay, InFolder, Total
<1>0. OnTheWay(r) /\ Total /\ pos[r] \in Nat \ {0}
  BY AtPart
<1>1. CASE RootField(r)
  <2>1. Announced(body[r], pos[r] + 1) = Announced(body[r], pos[r])
    BY <1>0, <1>1, AnnouncedNext DEF RootField, Reads
  <2>2. /\ step[r] = "part" /\ folderRoot[r] = <<>> /\ pos'[r] = pos[r] + 1
        /\ UNCHANGED <<body, folderName, relativeDirectory, step>>
        /\ folderRoot'[r] # <<>>
    BY <1>0, <1>1 DEF RootField, Reads, RootFits
  <2>3. relativeDirectory'[r] = Announced(body'[r], pos'[r])
    BY <1>0, <2>1, <2>2
  <2>. QED BY <1>0, <2>2, <2>3
<1>2. CASE PathField(r)
  <2>1. Announced(body[r], pos[r] + 1) = body[r][pos[r]].segments
    BY <1>0, <1>2, AnnouncedNext DEF PathField, Reads
  <2>2. /\ step[r] = "part" /\ folderRoot[r] # <<>> /\ pos'[r] = pos[r] + 1
        /\ relativeDirectory'[r] = body[r][pos[r]].segments
        /\ UNCHANGED <<body, folderName, folderRoot, step>>
    BY <1>0, <1>2 DEF PathField, Reads
  <2>3. relativeDirectory'[r] = Announced(body'[r], pos'[r])
    BY <1>0, <2>1, <2>2
  <2>. QED BY <1>0, <2>2, <2>3
<1>3. CASE SkipPart(r)
  <2>1. Announced(body[r], pos[r] + 1) = Announced(body[r], pos[r])
    BY <1>0, <1>3, AnnouncedNext DEF SkipPart, Reads
  <2>2. /\ step[r] = "part" /\ pos'[r] = pos[r] + 1
        /\ UNCHANGED <<body, folderName, folderRoot, relativeDirectory, step>>
    BY <1>0, <1>3 DEF SkipPart, Reads
  <2>3. relativeDirectory'[r] = Announced(body'[r], pos'[r])
    BY <1>0, <2>1, <2>2
  <2>. QED BY <1>0, <2>2, <2>3
<1>4. CASE FilePart(r)
  <2>1. /\ step[r] = "part" /\ UNCHANGED <<body, pos, fieldVars>>
        /\ target'[r] = IF folderName[r] = <<>> THEN <<>> ELSE <<folderName[r]>>
        /\ step'[r] = CASE folderRoot[r] = <<>> -> "store"
                        [] folderRoot[r] # <<>> /\ folderName[r] = <<>> -> "root"
                        [] OTHER -> "relative"
    BY <1>0, <1>4 DEF FilePart, Reads
  <2>2. relativeDirectory[r] = Announced(body[r], pos[r])
    BY <1>0, <2>1
  <2>3. CASE folderRoot[r] = <<>>
    <3>1. step'[r] = "store" /\ target'[r] = <<>> /\ Announced(body[r], pos[r]) = <<>>
          /\ relativeDirectory[r] = <<>> /\ folderName[r] = <<>>
      BY <1>0, <2>1, <2>2, <2>3
    <3>2. Joined(<<>>) = <<>> /\ <<>> \o <<>> = <<>>
      <4>1. <<>> \in Seq(Range(<<>>))
        BY EmptySeq
      <4>. QED BY <4>1, JoinedClimbs, ConcatEmptySeq
    <3>3. Ahead(r) = <<>>
      BY <2>3, <3>1, <3>2 DEF Ahead
    <3>4. Ahead(r)' = Ahead(r)
      BY <2>1 DEF Ahead
    <3>. QED BY <2>1, <2>3, <3>1, <3>3, <3>4
  <2>4. CASE folderRoot[r] # <<>> /\ folderName[r] = <<>>
    <3>1. step'[r] = "root"
      BY <2>1, <2>4
    <3>. QED BY <2>1, <2>2, <2>4, <3>1
  <2>5. CASE folderRoot[r] # <<>> /\ folderName[r] # <<>>
    <3>1. step'[r] = "relative"
      BY <2>1, <2>5
    <3>. QED BY <2>1, <2>2, <2>5, <3>1
  <2>. QED BY <2>3, <2>4, <2>5
<1>5. CASE TakeRoot(r)
  <2>1. /\ step[r] = "root" /\ UNCHANGED <<body, pos, folderRoot, relativeDirectory>>
        /\ folderName'[r] = RootCandidate(r) /\ target'[r] = <<RootCandidate(r)>>
        /\ step'[r] = "relative" /\ sequence[r] < Candidates /\ ~RootUnusable(r)
    BY <1>0, <1>5 DEF TakeRoot
  <2>2. RootCandidate(r) # <<>>
    BY <2>1, RootCandidateFits DEF PlacesInv, FitsTree
  <2>. QED BY <1>0, <2>1, <2>2
<1>6. CASE Relative(r)
  <2>1. /\ step[r] = "relative" /\ UNCHANGED <<body, pos, folderRoot, folderName, target>>
        /\ todo'[r] = Joined(relativeDirectory[r]) /\ relativeDirectory'[r] = <<>>
        /\ step'[r] = "mkdirs"
    BY <1>0, <1>6 DEF Relative
  <2>2. target'[r] \o todo'[r] = Ahead(r)
    BY <1>0, <2>1 DEF Ahead
  <2>3. Ahead(r)' = Ahead(r)
    BY <2>1 DEF Ahead
  <2>. QED BY <1>0, <2>1, <2>2, <2>3
<1>7. CASE MakeDirectory(r)
  <2>1. /\ step[r] = "mkdirs" /\ UNCHANGED <<body, pos, fieldVars, step>> /\ todo[r] # <<>>
        /\ target'[r] = Append(target[r], Head(todo[r])) /\ todo'[r] = Tail(todo[r])
    BY <1>0, <1>7 DEF MakeDirectory
  <2>2. Append(target[r], Head(todo[r])) \o Tail(todo[r]) = target[r] \o todo[r]
    <3>1. todo[r] = <<Head(todo[r])>> \o Tail(todo[r]) /\ PlainPath(Tail(todo[r])) /\ PlainPath(todo[r])
          /\ IsPath(target[r])
      BY <2>1, AtPart, PlainTail
    <3>2. PICK p, x, q, t : p = target[r] /\ x = Head(todo[r]) /\ q = todo[r] /\ t = Tail(todo[r])
      OBVIOUS
    <3>3. q \in Seq(Range(q)) /\ t \in Seq(Range(t)) /\ q = <<x>> \o t /\ IsPath(p)
      BY <3>1, <3>2 DEF PlainPath
    <3>4. Append(p, x) \o t = p \o q
      BY <3>3, OneOver
    <3>. QED BY <3>2, <3>4
  <2>3. Ahead(r)' = Ahead(r)
    BY <2>1 DEF Ahead
  <2>. QED BY <1>0, <2>1, <2>2, <2>3
<1>8. CASE DirectoriesMade(r)
  <2>1. /\ step[r] = "mkdirs" /\ todo[r] = <<>> /\ step'[r] = "store"
        /\ UNCHANGED <<body, pos, fieldVars, target>>
    BY <1>0, <1>8 DEF DirectoriesMade
  <2>2. target[r] \o <<>> = target[r]
    BY AtPart, ConcatEmptySeq DEF IsPath
  <2>3. Ahead(r)' = Ahead(r)
    BY <2>1 DEF Ahead
  <2>. QED BY <1>0, <2>1, <2>2, <2>3
<1>9. CASE Store(r) \/ RootTaken(r) \/ NameTaken(r)
  <2>1. /\ UNCHANGED <<body, pos, fieldVars, target>>
        /\ \/ step[r] = "store" /\ step'[r] = "link"
           \/ step[r] = "root" /\ step'[r] = "root"
           \/ step[r] = "link" /\ step'[r] = "link"
    BY <1>0, <1>9 DEF Store, RootTaken, NameTaken
  <2>2. Ahead(r)' = Ahead(r)
    BY <2>1 DEF Ahead
  <2>. QED BY <1>0, <2>1, <2>2
<1>10. CASE LinkName(r)
  <2>1. /\ step[r] = "link" /\ step'[r] = "part" /\ pos'[r] = pos[r] + 1
        /\ UNCHANGED <<body, fieldVars>>
    BY <1>0, <1>10 DEF LinkName
  <2>2. Announced(body[r], pos[r] + 1) = <<>>
    BY <1>0, <2>1, AtPart, AnnouncedNext DEF RequestSafe
  <2>3. relativeDirectory'[r] = Announced(body'[r], pos'[r])
    BY <1>0, <2>1, <2>2
  <2>. QED BY <1>0, <2>1, <2>3
<1>11. CASE Ends(r)
  <2>1. step'[r] = "done" /\ UNCHANGED fieldVars
    BY <1>0, <1>11 DEF Ends, Reply
  <2>. QED BY <1>0, <2>1
<1>. QED
  BY <1>1, <1>2, <1>3, <1>4, <1>5, <1>6, <1>7, <1>8, <1>9, <1>10, <1>11, RepliesEnd
     DEF FolderStep

LEMMA LandedStep ==
  ASSUME PlacesInv, NEW r \in Request, FolderStep(r)
  PROVE  Landed(r)'
<1>. USE DEF Landed, Total
<1>0. /\ Landed(r) /\ Total /\ pos[r] \in Nat \ {0} /\ OnTheWay(r)
      /\ IsFiniteSet(FilesBefore(body[r], pos[r]))
  BY AtPart, FilesNext
<1>1. \A q \in DOMAIN tree : q \in DOMAIN tree' /\ tree'[q] = tree[q]
  BY TreeStep DEF PlacesInv, NamesInv
<1>2. ASSUME UNCHANGED <<body, uploaded>>,
             FilesBefore(body[r], pos'[r]) = FilesBefore(body[r], pos[r]),
             \/ InFolder(r)' = InFolder(r) /\ folderRoot'[r] = folderRoot[r] /\ folderName'[r] = folderName[r]
             \/ uploaded[r] = <<>>
      PROVE  Landed(r)'
  <2>1. CASE InFolder(r)' = InFolder(r) /\ folderRoot'[r] = folderRoot[r] /\ folderName'[r] = folderName[r]
    <3>1. ASSUME NEW j \in FilesBefore(body[r], pos[r])
          PROVE  PlacedAt(r, j, uploaded[r][Cardinality(FilesBefore(body[r], j)) + 1])'
      <4>. DEFINE path == uploaded[r][Cardinality(FilesBefore(body[r], j)) + 1]
      <4>1. PlacedAt(r, j, path) /\ path' = path
        BY <1>0, <1>2
      <4>2. \A p : PlacedAt(r, j, p) => PlacedAt(r, j, p)'
        BY <1>1, <1>2, <2>1 DEF PlacedAt
      <4>. QED BY <1>2, <4>1, <4>2
    <3>. QED BY <1>0, <1>2, <2>1, <3>1
  <2>2. CASE uploaded[r] = <<>>
    <3>1. Cardinality(FilesBefore(body[r], pos[r])) = 0
      BY <1>0, <2>2, EmptySeq
    <3>2. FilesBefore(body[r], pos[r]) = {}
      BY <1>0, <3>1, FS_EmptySet
    <3>. QED BY <1>0, <1>2, <2>2, <3>2
  <2>. QED BY <1>2, <2>1, <2>2
<1>3. CASE RootField(r)
  <2>1. /\ uploaded[r] = <<>> /\ UNCHANGED <<body, uploaded>> /\ pos'[r] = pos[r] + 1
        /\ body[r][pos[r]].kind = "root"
    BY <1>0, <1>3 DEF RootField, RootFits, Reads
  <2>2. FilesBefore(body[r], pos'[r]) = FilesBefore(body[r], pos[r])
    BY <1>0, <2>1, FilesNext
  <2>. QED BY <1>2, <2>1, <2>2
<1>4. CASE PathField(r) \/ SkipPart(r)
  <2>1. /\ UNCHANGED <<body, uploaded, folderRoot, folderName>> /\ pos'[r] = pos[r] + 1
        /\ body[r][pos[r]].kind # "file"
    BY <1>0, <1>4 DEF PathField, SkipPart, Reads
  <2>2. FilesBefore(body[r], pos'[r]) = FilesBefore(body[r], pos[r])
    BY <1>0, <2>1, FilesNext
  <2>. QED BY <1>2, <2>1, <2>2 DEF InFolder
<1>5. CASE TakeRoot(r)
  <2>1. UNCHANGED <<body, uploaded, pos>> /\ step[r] = "root"
    BY <1>5 DEF TakeRoot
  <2>2. uploaded[r] = <<>>
    BY <1>0, <2>1 DEF OnTheWay
  <2>. QED BY <1>2, <2>1, <2>2
<1>6. CASE FilePart(r) \/ Store(r) \/ DirectoriesMade(r) \/ RootTaken(r) \/ NameTaken(r) \/ Relative(r)
           \/ MakeDirectory(r)
  <2>1. UNCHANGED <<body, uploaded, pos, folderRoot, folderName>>
    BY <1>6 DEF FilePart, Store, DirectoriesMade, RootTaken, NameTaken, Relative, MakeDirectory
  <2>. QED BY <1>2, <2>1 DEF InFolder
<1>7. CASE Ends(r)
  <2>1. UNCHANGED <<body, uploaded, pos, folderRoot, folderName>>
    BY <1>7 DEF Ends, Reply
  <2>. QED BY <1>2, <2>1 DEF InFolder
<1>8. CASE LinkName(r)
  <2>1. PICK b, n, name, path :
          /\ b = body[r] /\ n = pos[r] /\ name = FileCandidate(Safe[b[n].name], sequence[r])
          /\ path = Append(target[r], name)
    OBVIOUS
  <2>2. /\ step[r] = "link" /\ sequence[r] < Candidates /\ ~Taken(path)
        /\ tree' = With(path, "file", r) /\ uploaded'[r] = Append(uploaded[r], path)
        /\ pos'[r] = n + 1 /\ UNCHANGED <<body, folderRoot, folderName>>
    BY <1>0, <1>8, <2>1 DEF LinkName, Candidate
  <2>3. /\ b[n].kind = "file" /\ target[r] = Ahead(r) /\ IsPath(target[r]) /\ folderRoot'[r] = folderRoot[r]
        /\ sequence[r] \in 0..Candidates - 1 /\ n \in Nat \ {0}
        /\ ~(folderRoot[r] # <<>> /\ folderName[r] = <<>>)
    <3>1. /\ OnTheWay(r) /\ RequestTyped(r) /\ RequestSafe(r) /\ pos[r] \in Nat \ {0}
          /\ IsPath(target[r])
      BY AtPart
    <3>2. b[n].kind = "file"
      BY <2>1, <2>2, <3>1 DEF RequestSafe
    <3>3. sequence[r] \in 0..Candidates - 1
      BY <2>2, <3>1, FolderAssumption DEF RequestTyped
    <3>4. target[r] = Ahead(r) /\ ~(folderRoot[r] # <<>> /\ folderName[r] = <<>>)
      BY <2>2, <3>1 DEF OnTheWay
    <3>. QED BY <2>1, <2>2, <3>1, <3>2, <3>3, <3>4
  <2>4. /\ IsPath(Append(uploaded[r], path)) /\ Len(Append(uploaded[r], path)) = Len(uploaded[r]) + 1
        /\ \A i \in 1..Len(uploaded[r]) : Append(uploaded[r], path)[i] = uploaded[r][i]
        /\ Last(Append(uploaded[r], path)) = path
    BY <1>0, PathAppend
  <2>5. /\ FilesBefore(b, n + 1) = FilesBefore(b, n) \cup {n} /\ Cardinality(FilesBefore(b, n)) \in Nat
        /\ Cardinality(FilesBefore(b, n + 1)) = Cardinality(FilesBefore(b, n)) + 1
        /\ Len(uploaded[r]) = Cardinality(FilesBefore(b, n))
    BY <1>0, <2>1, <2>3, FilesNext
  <2>. DEFINE At(k, p) ==
                /\ p \in DOMAIN tree' /\ tree'[p] = [kind |-> "file", by |-> r, part |-> k]
                /\ Front(p) = InFolder(r)' \o Joined(Announced(body'[r], k))
                /\ \E m \in 0..Candidates - 1 : Last(p) = FileCandidate(Safe[body'[r][k].name], m)
  <2>6. At(n, path)
    <3>1. path \in DOMAIN tree' /\ tree'[path] = [kind |-> "file", by |-> r, part |-> n]
      BY <2>1, <2>2 DEF With
    <3>2. Front(path) = target[r] /\ Last(path) = name
      BY <2>1, <2>3, PathAppend
    <3>3. Front(path) = InFolder(r)' \o Joined(Announced(body'[r], n))
      BY <2>1, <2>2, <2>3, <3>2 DEF Ahead, InFolder
    <3>4. \E m \in 0..Candidates - 1 : Last(path) = FileCandidate(Safe[body'[r][n].name], m)
      BY <2>1, <2>2, <2>3, <3>2
    <3>. QED BY <3>1, <3>3, <3>4
  <2>7. uploaded'[r][Cardinality(FilesBefore(b, n)) + 1] = path
    BY <2>2, <2>4, <2>5 DEF Last
  <2>8. ASSUME NEW j \in FilesBefore(b, n)
        PROVE  At(j, uploaded'[r][Cardinality(FilesBefore(b, j)) + 1])
    <3>1. PICK i, place : i = Cardinality(FilesBefore(b, j)) + 1 /\ place = uploaded[r][i]
      OBVIOUS
    <3>2. i \in 1..Len(uploaded[r])
      BY <2>3, <2>5, <3>1, FilesRank
    <3>3. uploaded'[r][i] = place
      BY <2>2, <2>4, <3>1, <3>2
    <3>4. PlacedAt(r, j, place)
      BY <1>0, <2>1, <3>1
    <3>5. At(j, place)
      BY <1>1, <2>2, <3>4 DEF PlacedAt, InFolder
    <3>. HIDE DEF At
    <3>. QED BY <3>1, <3>3, <3>5
  <2>9. \A j \in FilesBefore(b, n + 1) : At(j, uploaded'[r][Cardinality(FilesBefore(b, j)) + 1])
    <3>. HIDE DEF At
    <3>. QED BY <2>5, <2>6, <2>7, <2>8
  <2>10. /\ IsPath(uploaded'[r]) /\ Len(uploaded'[r]) = Cardinality(FilesBefore(b, n + 1))
         /\ body'[r] = b /\ pos'[r] = n + 1
         /\ ~(folderRoot'[r] # <<>> /\ folderName'[r] = <<>>)
    BY <2>1, <2>2, <2>3, <2>4, <2>5
  <2>. QED BY <2>9, <2>10 DEF PlacedAt
<1>. QED
  BY <1>3, <1>4, <1>5, <1>6, <1>7, <1>8, RepliesEnd DEF FolderStep

\* A request that does not move keeps what it has.
LEMMA PlacesStay ==
  ASSUME NEW q, OnTheWay(q), Landed(q), Answered(q),
         body'[q] = body[q], pos'[q] = pos[q], folderRoot'[q] = folderRoot[q],
         folderName'[q] = folderName[q], relativeDirectory'[q] = relativeDirectory[q],
         todo'[q] = todo[q], target'[q] = target[q], step'[q] = step[q],
         uploaded'[q] = uploaded[q], answer'[q] = answer[q],
         \A p \in DOMAIN tree : p \in DOMAIN tree' /\ tree'[p] = tree[p]
  PROVE  OnTheWay(q)' /\ Landed(q)' /\ Answered(q)'
<1>1. OnTheWay(q)' /\ Answered(q)'
  BY DEF OnTheWay, Answered, InFolder, Ahead
<1>2. Landed(q)'
  BY DEF Landed, PlacedAt, InFolder
<1>. QED BY <1>1, <1>2

LEMMA PlacesInvStep == PlacesInv /\ [FolderNext]_folderVars => PlacesInv'
<1>. SUFFICES ASSUME PlacesInv, [FolderNext]_folderVars PROVE PlacesInv'
  OBVIOUS
<1>0. NamesInv'
  BY NamesInvStep DEF PlacesInv
<1>1. ASSUME NEW r \in Request, FolderStep(r) PROVE PlacesInv'
  <2>1. ASSUME NEW q \in Request \ {r} PROVE OnTheWay(q)' /\ Landed(q)' /\ Answered(q)'
    <3>1. /\ body'[q] = body[q] /\ pos'[q] = pos[q] /\ folderRoot'[q] = folderRoot[q]
          /\ folderName'[q] = folderName[q] /\ relativeDirectory'[q] = relativeDirectory[q]
          /\ todo'[q] = todo[q] /\ target'[q] = target[q] /\ step'[q] = step[q]
          /\ uploaded'[q] = uploaded[q] /\ answer'[q] = answer[q]
      BY <1>1, OthersStay DEF PlacesInv, NamesInv, FolderInv
    <3>2. OnTheWay(q) /\ Landed(q) /\ Answered(q)
      BY DEF PlacesInv
    <3>3. \A p \in DOMAIN tree : p \in DOMAIN tree' /\ tree'[p] = tree[p]
      BY <1>1, TreeStep DEF PlacesInv, NamesInv
    <3>. QED BY <3>1, <3>2, <3>3, PlacesStay
  <2>2. OnTheWay(r)' /\ Landed(r)' /\ Answered(r)'
    BY <1>1, OnTheWayStep, LandedStep, AnsweredStep
  <2>. QED BY <1>0, <2>1, <2>2 DEF PlacesInv
<1>2. CASE UNCHANGED folderVars
  <2>1. ASSUME NEW q \in Request PROVE OnTheWay(q)' /\ Landed(q)' /\ Answered(q)'
    <3>1. OnTheWay(q) /\ Landed(q) /\ Answered(q)
      BY DEF PlacesInv
    <3>2. /\ UNCHANGED <<tree, body, pos, folderRoot, folderName, relativeDirectory, todo, target>>
          /\ UNCHANGED <<step, uploaded, answer>>
      BY <1>2
    <3>. QED BY <3>1, <3>2, PlacesStay
  <2>. QED BY <1>0, <2>1 DEF PlacesInv
<1>. QED BY <1>1, <1>2, FolderCases

\* "Dropped folders are uploaded recursively with their directory structure
\* preserved" (README.md:85-86): a 201 lists the paths of all the files of the
\* body, in order, each below the folder of the request where the last "path"
\* field put it, whatever other requests of the identity take or make
\* meanwhile (upload, createRelativeDirectory, publishFile).
THEOREM AlwaysWhereAnnounced == FolderSpec => []FilesWhereAnnounced
<1>1. ASSUME PlacesInv PROVE FilesWhereAnnounced
  <2>1. ASSUME NEW r \in Request, answer[r] = "201"
        PROVE  LET files == FilesBefore(body[r], Len(body[r]) + 1) IN
                 /\ Len(uploaded[r]) = Cardinality(files)
                 /\ \A j \in files :
                      PlacedAt(r, j, uploaded[r][Cardinality(FilesBefore(body[r], j)) + 1])
    BY <1>1, <2>1 DEF PlacesInv, Landed, Answered
  <2>. QED BY <2>1 DEF FilesWhereAnnounced, PlacedAt, InFolder
<1>. QED BY <1>1, PlacesInvInit, PlacesInvStep, PTL DEF FolderSpec
=============================================================================
