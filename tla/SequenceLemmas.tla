--------------------------- MODULE SequenceLemmas ---------------------------
(***************************************************************************)
(* What FlattenSeq yields, for sequences of any number and length.         *)
(* Induction is over a set of numbers, all those of which the claim holds. *)
(***************************************************************************)
EXTENDS SequencesExt, SequenceTheorems, FiniteSetTheorems, FunctionTheorems, TLAPS

LEMMA LeastNatural ==
  ASSUME NEW T, T \subseteq Nat, T # {}
  PROVE  \E x \in T : \A y \in T : x <= y
<1> DEFINE Below == {ss \in Nat \X Nat : ss[1] < ss[2]}
<1>1. IsWellFoundedOn(Below, Nat)
  BY NatLessThanWellFounded, Zenon DEF OpToRel
<1>2. PICK x \in T : \A y \in T : ~ <<y, x>> \in Below
  <2> HIDE DEF Below
  <2> QED
    BY <1>1, WFMin
<1>3. ASSUME NEW y \in T PROVE x <= y
  <2>1. ~ (<<y, x>>[1] < <<y, x>>[2])
    BY <1>2, <<y, x>> \in Nat \X Nat
  <2> QED
    BY <2>1
<1> QED
  BY <1>3

LEMMA MinIsLeast ==
  ASSUME NEW T, T \subseteq Nat, T # {}
  PROVE  Min(T) \in T /\ \A y \in T : Min(T) <= y
BY LeastNatural DEF Min

LEMMA Induct ==
  ASSUME NEW T, 0 \in T, \A n \in Nat : n \in T => n + 1 \in T
  PROVE  Nat \subseteq T
<1> SUFFICES ASSUME Nat \ T # {} PROVE FALSE
  OBVIOUS
<1>1. PICK m \in Nat \ T : \A n \in Nat \ T : m <= n
  BY LeastNatural
<1>2. m - 1 \in Nat /\ m - 1 \in T
  BY <1>1
<1> QED
  BY <1>1, <1>2

-----------------------------------------------------------------------------
(* Concatenation of the sequences in a sequence.                           *)

LEMMA SeqOfSeqs ==
  ASSUME NEW S, NEW seqs \in Seq(Seq(S))
  PROVE  /\ Len(seqs) \in Nat
         /\ \A i \in 1 .. Len(seqs) : seqs[i] \in Seq(S) /\ Len(seqs[i]) \in Nat
<1>1. ASSUME NEW i \in 1 .. Len(seqs) PROVE seqs[i] \in Seq(S)
  BY ElementOfSeq
<1> QED
  BY <1>1, LenProperties

\* Concatenation by a name of ours, opened only where its definition counts.
Cat(s, t) == s \o t

LEMMA CatProperties ==
  ASSUME NEW S, NEW s1 \in Seq(S), NEW s2 \in Seq(S)
  PROVE  /\ Cat(s1, s2) \in Seq(S)
         /\ Len(Cat(s1, s2)) = Len(s1) + Len(s2)
         /\ \A i \in 1 .. Len(s1) + Len(s2) :
              Cat(s1, s2)[i] = IF i <= Len(s1) THEN s1[i] ELSE s2[i - Len(s1)]
         /\ Cat(<<>>, s1) = s1
BY ConcatProperties, ConcatEmptySeq DEF Cat

\* f[i] is the concatenation of the first i sequences.
Concatenates(seqs, S, n, f) ==
  /\ f \in [0 .. n -> Seq(S)] /\ f[0] = <<>>
  /\ \A i \in 1 .. n : f[i] = Cat(f[i - 1], seqs[i])

\* The function that FlattenSeq recurses over.
Cumulated(seqs) ==
  CHOOSE f : f = [i \in 1 .. Len(seqs) |-> IF i = 1 THEN seqs[i] ELSE Cat(f[i - 1], seqs[i])]

LEMMA FlattenIsPrefix ==
  ASSUME NEW S, NEW seqs \in Seq(Seq(S))
  PROVE  FlattenSeq(seqs) = IF Len(seqs) = 0 THEN seqs ELSE Cumulated(seqs)[Len(seqs)]
BY DEF FlattenSeq, Cumulated, Cat

LEMMA ConcatenationExists ==
  ASSUME NEW S, NEW seqs \in Seq(Seq(S))
  PROVE  \E f : Concatenates(seqs, S, Len(seqs), f)
<1> DEFINE T == {n \in Nat : n <= Len(seqs) => \E f : Concatenates(seqs, S, n, f)}
<1>1. 0 \in T
  <2>1. Concatenates(seqs, S, 0, [i \in 0 .. 0 |-> <<>>])
    BY DEF Concatenates
  <2> QED
    BY <2>1
<1>2. ASSUME NEW n \in Nat, n \in T PROVE n + 1 \in T
  <2> SUFFICES ASSUME n + 1 <= Len(seqs) PROVE \E f : Concatenates(seqs, S, n + 1, f)
    OBVIOUS
  <2>1. PICK f : Concatenates(seqs, S, n, f)
    BY <1>2
  <2> DEFINE g == [i \in 0 .. n + 1 |-> IF i = n + 1 THEN Cat(f[n], seqs[n + 1]) ELSE f[i]]
  <2>2. seqs[n + 1] \in Seq(S) /\ f[n] \in Seq(S)
    BY <2>1 DEF Concatenates
  <2>3. g \in [0 .. n + 1 -> Seq(S)]
    <3>1. Cat(f[n], seqs[n + 1]) \in Seq(S)
      BY <2>2, CatProperties
    <3>2. f \in [0 .. n -> Seq(S)]
      BY <2>1 DEF Concatenates
    <3> QED
      BY <3>1, <3>2
  <2>4. ASSUME NEW i \in 1 .. n + 1 PROVE g[i] = Cat(g[i - 1], seqs[i])
    <3>1. CASE i = n + 1
      BY <3>1
    <3>2. CASE i \in 1 .. n
      BY <2>1, <3>2 DEF Concatenates
    <3> QED
      BY <3>1, <3>2
  <2>5. g[0] = <<>>
    BY <2>1 DEF Concatenates
  <2> HIDE DEF g
  <2>6. Concatenates(seqs, S, n + 1, g)
    BY <2>3, <2>4, <2>5 DEF Concatenates
  <2> QED
    BY <2>6
<1> HIDE DEF T
<1>3. Nat \subseteq T
  BY <1>1, <1>2, Induct
<1>4. Len(seqs) \in T
  BY <1>3, SeqOfSeqs
<1> QED
  BY <1>4 DEF T

LEMMA FlattenConcatenates ==
  ASSUME NEW S, NEW seqs \in Seq(Seq(S)), NEW f, Concatenates(seqs, S, Len(seqs), f)
  PROVE  FlattenSeq(seqs) = f[Len(seqs)]
<1> DEFINE m == Len(seqs)
           h == Cumulated(seqs)
<1>1. m \in Nat /\ f \in [0 .. m -> Seq(S)] /\ \A i \in 1 .. m : seqs[i] \in Seq(S)
  BY SeqOfSeqs DEF Concatenates
<1>2. CASE m = 0
  BY <1>2, FlattenIsPrefix, EmptySeq DEF Concatenates
<1>3. CASE m > 0
  <2> DEFINE g == [i \in 1 .. m |-> f[i]]
  <2>1. f[1] = seqs[1]
    <3>1. f[1] = Cat(f[0], seqs[1]) /\ f[0] = <<>> /\ seqs[1] \in Seq(S)
      BY <1>1, <1>3 DEF Concatenates
    <3> QED
      BY <3>1, CatProperties
  <2>2. g = [i \in 1 .. m |-> IF i = 1 THEN seqs[i] ELSE Cat(g[i - 1], seqs[i])]
    <3>1. ASSUME NEW i \in 1 .. m
          PROVE  g[i] = IF i = 1 THEN seqs[i] ELSE Cat(g[i - 1], seqs[i])
      <4>1. CASE i = 1
        BY <2>1, <4>1
      <4>2. CASE i > 1
        <5>1. f[i] = Cat(f[i - 1], seqs[i]) /\ i - 1 \in 1 .. m
          BY <1>1, <4>2 DEF Concatenates
        <5> QED
          BY <4>2, <5>1
      <4> QED
        BY <1>1, <4>1, <4>2
    <3> QED
      BY <3>1
  <2>3. h = [i \in 1 .. m |-> IF i = 1 THEN seqs[i] ELSE Cat(h[i - 1], seqs[i])]
    BY <2>2 DEF Cumulated
  <2> DEFINE T == {n \in Nat : n \in 1 .. m => h[n] = f[n]}
  <2>4. 0 \in T
    OBVIOUS
  <2>5. ASSUME NEW n \in Nat, n \in T PROVE n + 1 \in T
    <3> HIDE DEF h
    <3> SUFFICES ASSUME n + 1 \in 1 .. m PROVE h[n + 1] = f[n + 1]
      OBVIOUS
    <3>1. CASE n = 0
      BY <2>1, <2>3, <3>1
    <3>2. CASE n > 0
      <4>1. h[n + 1] = Cat(h[n], seqs[n + 1])
        BY <2>3, <3>2
      <4>2. h[n] = f[n]
        BY <2>5, <3>2
      <4>3. f[n + 1] = Cat(f[n], seqs[n + 1])
        BY <3>2 DEF Concatenates
      <4> QED
        BY <4>1, <4>2, <4>3
    <3> QED
      BY <3>1, <3>2
  <2> HIDE DEF T, h
  <2>6. m \in T
    BY <1>1, <2>4, <2>5, Induct
  <2> QED
    BY <1>3, <2>6, FlattenIsPrefix DEF T, h
<1> QED
  BY <1>1, <1>2, <1>3

LEMMA FlattenOne ==
  ASSUME NEW S, NEW s \in Seq(S)
  PROVE  FlattenSeq([i \in 1 .. 1 |-> s]) = s
<1> DEFINE seqs == [i \in 1 .. 1 |-> s]
           f == [i \in 0 .. 1 |-> IF i = 0 THEN <<>> ELSE s]
           T == Seq(S)
<1>1. seqs \in Seq(Seq(S)) /\ Len(seqs) = 1 /\ seqs[1] = s
  <2>1. seqs \in [1 .. 1 -> T]
    OBVIOUS
  <2> HIDE DEF T
  <2> QED
    BY <2>1 DEF T
<1>2. f[0] = <<>> /\ f[1] = s /\ f \in [0 .. 1 -> Seq(S)]
  OBVIOUS
<1>3. Cat(<<>>, s) = s
  BY CatProperties
<1> HIDE DEF seqs, f
<1>4. \A i \in 1 .. 1 : f[i] = Cat(f[i - 1], seqs[i])
  BY <1>1, <1>2, <1>3
<1>5. Concatenates(seqs, S, Len(seqs), f)
  BY <1>1, <1>2, <1>4 DEF Concatenates
<1> QED
  BY <1>1, <1>2, <1>5, FlattenConcatenates DEF seqs

\* e[k] is the sum of the first k of n sizes: where the parts of a whole end.
Offsets(n, size, e) ==
  /\ e \in [0 .. n -> Nat] /\ e[0] = 0
  /\ \A k \in 1 .. n : e[k] = e[k - 1] + size[k]

LEMMA OffsetsMonotone ==
  ASSUME NEW n \in Nat, NEW size \in [1 .. n -> Nat], NEW e, Offsets(n, size, e)
  PROVE  \A k \in 0 .. n : \A j \in 0 .. k : e[j] <= e[k]
<1> DEFINE T == {k \in Nat : k <= n => \A j \in 0 .. k : e[j] <= e[k]}
<1>1. 0 \in T
  BY DEF Offsets
<1>2. ASSUME NEW k \in Nat, k \in T PROVE k + 1 \in T
  <2> SUFFICES ASSUME k + 1 <= n, NEW j \in 0 .. k + 1 PROVE e[j] <= e[k + 1]
    OBVIOUS
  <2>1. e[k + 1] = e[k] + size[k + 1] /\ e[k] \in Nat /\ e[k + 1] \in Nat /\ e[j] \in Nat
    BY DEF Offsets
  <2>2. CASE j = k + 1
    BY <2>1, <2>2
  <2>3. CASE j \in 0 .. k
    BY <1>2, <2>1, <2>3
  <2> QED
    BY <2>2, <2>3
<1> HIDE DEF T
<1>3. Nat \subseteq T
  BY <1>1, <1>2, Induct
<1> QED
  BY <1>3 DEF T

\* Every place of the whole is a place of one of the parts.
LEMMA OffsetsCover ==
  ASSUME NEW n \in Nat, NEW size \in [1 .. n -> Nat], NEW e, Offsets(n, size, e)
  PROVE  \A a \in 1 .. e[n] : \E k \in 1 .. n : \E p \in 1 .. size[k] : a = e[k - 1] + p
<1> DEFINE T == {m \in Nat : m <= n =>
                   \A a \in 1 .. e[m] : \E k \in 1 .. n : \E p \in 1 .. size[k] : a = e[k - 1] + p}
<1>1. 0 \in T
  BY DEF Offsets
<1>2. ASSUME NEW m \in Nat, m \in T PROVE m + 1 \in T
  <2> SUFFICES ASSUME m + 1 <= n, NEW a \in 1 .. e[m + 1]
               PROVE  \E k \in 1 .. n : \E p \in 1 .. size[k] : a = e[k - 1] + p
    OBVIOUS
  <2>1. e[m + 1] = e[m] + size[m + 1] /\ e[m] \in Nat /\ e[m + 1] \in Nat
    BY DEF Offsets
  <2>2. CASE a <= e[m]
    BY <1>2, <2>1, <2>2
  <2>3. CASE a > e[m]
    <3>1. a - e[m] \in 1 .. size[m + 1] /\ a = e[(m + 1) - 1] + (a - e[m]) /\ m + 1 \in 1 .. n
      BY <2>1, <2>3
    <3> QED
      BY <3>1
  <2> QED
    BY <2>1, <2>2, <2>3
<1> HIDE DEF T
<1>3. Nat \subseteq T
  BY <1>1, <1>2, Induct
<1> QED
  BY <1>3 DEF T

\* The place a part puts an element at is its own: parts do not overlap.
LEMMA OffsetsApart ==
  ASSUME NEW n \in Nat, NEW size \in [1 .. n -> Nat], NEW e, Offsets(n, size, e),
         NEW j \in 1 .. n, NEW k \in 1 .. n, NEW p \in 1 .. size[j], NEW q \in 1 .. size[k]
  PROVE  /\ j < k => e[j - 1] + p < e[k - 1] + q
         /\ e[j - 1] + p = e[k - 1] + q => j = k /\ p = q
         /\ e[j - 1] + p \in 1 .. e[n]
<1>1. ASSUME NEW i \in 1 .. n, NEW l \in 1 .. n, i < l, NEW x \in 1 .. size[i], NEW y \in 1 .. size[l]
      PROVE  e[i - 1] + x < e[l - 1] + y
  <2>1. e[i] = e[i - 1] + size[i] /\ e[i - 1] \in Nat /\ e[i] \in Nat /\ e[l - 1] \in Nat
    BY DEF Offsets
  <2>2. l - 1 \in 0 .. n /\ i \in 0 .. l - 1 /\ size[i] \in Nat /\ size[l] \in Nat
    BY <1>1
  <2>3. e[i] <= e[l - 1]
    BY <2>2, OffsetsMonotone
  <2>4. x \in Nat /\ x <= size[i] /\ y \in Nat /\ 1 <= y
    BY <2>2
  <2> QED
    BY SMTT(90), <2>1, <2>3, <2>4, <2>2
<1>2. e[j] = e[j - 1] + size[j] /\ e[j - 1] \in Nat /\ e[k - 1] \in Nat /\ e[n] \in Nat /\ e[j] \in Nat
  BY DEF Offsets
<1>3. e[j] <= e[n]
  <2>1. n \in 0 .. n /\ j \in 0 .. n
    OBVIOUS
  <2> QED
    BY <2>1, OffsetsMonotone
<1>7. size[j] \in Nat /\ size[k] \in Nat /\ p \in Nat /\ q \in Nat /\ 1 <= p /\ p <= size[j]
  OBVIOUS
<1>8. e[j - 1] + p \in 1 .. e[n]
  BY SMTT(90), <1>2, <1>3, <1>7
<1>4. CASE j < k
  <2>1. e[j - 1] + p < e[k - 1] + q
    BY <1>1, <1>4
  <2> QED
    BY <1>2, <1>4, <1>7, <1>8, <2>1
<1>5. CASE k < j
  <2>1. e[k - 1] + q < e[j - 1] + p
    BY <1>1, <1>5
  <2> QED
    BY <1>2, <1>5, <1>7, <1>8, <2>1
<1>6. CASE j = k
  BY <1>2, <1>6, <1>7, <1>8
<1> QED
  BY <1>4, <1>5, <1>6

\* What FlattenSeq returns.
Sizes(seqs) == [k \in 1 .. Len(seqs) |-> Len(seqs[k])]

FlattensTo(seqs, e, F) ==
  /\ Offsets(Len(seqs), Sizes(seqs), e) /\ Len(F) = e[Len(seqs)]
  /\ \A k \in 1 .. Len(seqs) : \A p \in 1 .. Len(seqs[k]) : F[e[k - 1] + p] = seqs[k][p]

LEMMA CatPlaces ==
  ASSUME NEW S
  PROVE  \A s, t \in Seq(S) :
           /\ Len(Cat(s, t)) = Len(s) + Len(t)
           /\ \A i \in 1 .. Len(s) : Cat(s, t)[i] = s[i]
           /\ \A p \in 1 .. Len(t) : Cat(s, t)[Len(s) + p] = t[p]
<1> SUFFICES ASSUME NEW s \in Seq(S), NEW t \in Seq(S)
             PROVE  /\ Len(Cat(s, t)) = Len(s) + Len(t)
                    /\ \A i \in 1 .. Len(s) : Cat(s, t)[i] = s[i]
                    /\ \A p \in 1 .. Len(t) : Cat(s, t)[Len(s) + p] = t[p]
  OBVIOUS
<1>1. Len(s) \in Nat /\ Len(t) \in Nat
  BY LenProperties
<1>2. /\ Len(Cat(s, t)) = Len(s) + Len(t)
      /\ \A i \in 1 .. Len(s) + Len(t) :
           Cat(s, t)[i] = IF i <= Len(s) THEN s[i] ELSE t[i - Len(s)]
  BY CatProperties
<1>3. ASSUME NEW p \in 1 .. Len(t) PROVE Cat(s, t)[Len(s) + p] = t[p]
  <2>1. /\ Len(s) + p \in 1 .. Len(s) + Len(t) /\ ~ (Len(s) + p <= Len(s))
        /\ (Len(s) + p) - Len(s) = p
    BY <1>1
  <2> QED
    BY <1>2, <2>1
<1>4. ASSUME NEW i \in 1 .. Len(s) PROVE Cat(s, t)[i] = s[i]
  <2>1. i \in 1 .. Len(s) + Len(t) /\ i <= Len(s)
    BY <1>1
  <2> QED
    BY <1>2, <2>1
<1> QED
  BY <1>2, <1>3, <1>4

LEMMA Flattened ==
  ASSUME NEW S, NEW seqs \in Seq(Seq(S))
  PROVE  FlattenSeq(seqs) \in Seq(S) /\ \E e : FlattensTo(seqs, e, FlattenSeq(seqs))
<1> DEFINE n == Len(seqs)
           size == Sizes(seqs)
<1>0. \A s, t \in Seq(S) :
        /\ Len(Cat(s, t)) = Len(s) + Len(t)
        /\ \A i \in 1 .. Len(s) : Cat(s, t)[i] = s[i]
        /\ \A p \in 1 .. Len(t) : Cat(s, t)[Len(s) + p] = t[p]
  BY CatPlaces
<1>1. PICK f : Concatenates(seqs, S, n, f)
  BY ConcatenationExists
<1>2. FlattenSeq(seqs) = f[n]
  BY <1>1, FlattenConcatenates
<1>3. n \in Nat /\ \A k \in 1 .. n : seqs[k] \in Seq(S) /\ size[k] = Len(seqs[k]) /\ size[k] \in Nat
  BY SeqOfSeqs DEF Sizes
<1>4. \A k \in 0 .. n : f[k] \in Seq(S)
  BY <1>1 DEF Concatenates
<1> DEFINE e == [k \in 0 .. n |-> Len(f[k])]
<1>5. ASSUME NEW k \in 1 .. n
      PROVE  /\ e[k] = e[k - 1] + size[k]
             /\ \A i \in 1 .. e[k - 1] : f[k][i] = f[k - 1][i]
             /\ \A p \in 1 .. size[k] : f[k][e[k - 1] + p] = seqs[k][p]
  <2>1. f[k] = Cat(f[k - 1], seqs[k])
    BY <1>1 DEF Concatenates
  <2>2. f[k - 1] \in Seq(S) /\ seqs[k] \in Seq(S) /\ size[k] = Len(seqs[k])
    BY <1>3, <1>4
  <2>3. e[k] = Len(f[k]) /\ e[k - 1] = Len(f[k - 1])
    BY <1>3
  <2> HIDE DEF e, size
  <2>4. Len(f[k]) = Len(f[k - 1]) + Len(seqs[k])
    <3>1. Len(Cat(f[k - 1], seqs[k])) = Len(f[k - 1]) + Len(seqs[k])
      BY <1>0, <2>2
    <3> QED
      BY <2>1, <3>1, Zenon
  <2>5. /\ \A i \in 1 .. Len(f[k - 1]) : f[k][i] = f[k - 1][i]
        /\ \A p \in 1 .. Len(seqs[k]) : f[k][Len(f[k - 1]) + p] = seqs[k][p]
    <3>1. /\ \A i \in 1 .. Len(f[k - 1]) : Cat(f[k - 1], seqs[k])[i] = f[k - 1][i]
          /\ \A p \in 1 .. Len(seqs[k]) : Cat(f[k - 1], seqs[k])[Len(f[k - 1]) + p] = seqs[k][p]
      BY <1>0, <2>2
    <3> QED
      BY <2>1, <3>1, Zenon
  <2> QED
    BY <2>2, <2>3, <2>4, <2>5
<1>6. size \in [1 .. n -> Nat]
  BY <1>3 DEF Sizes
<1>7. e \in [0 .. n -> Nat]
  BY <1>4, LenProperties
<1>8. e[0] = 0
  BY <1>1, <1>3, EmptySeq DEF Concatenates
<1>9. f[n] \in Seq(S) /\ Len(f[n]) = e[n]
  BY <1>3, <1>4
<1> HIDE DEF e, size, n
<1>10. Offsets(n, size, e)
  BY <1>5, <1>7, <1>8 DEF Offsets
<1> DEFINE T == {m \in Nat : m <= n =>
                   \A k \in 1 .. m : \A p \in 1 .. size[k] : f[m][e[k - 1] + p] = seqs[k][p]}
<1>11. 0 \in T
  OBVIOUS
<1>12. ASSUME NEW m \in Nat, m \in T PROVE m + 1 \in T
  <2> SUFFICES ASSUME m + 1 <= n, NEW k \in 1 .. m + 1, NEW p \in 1 .. size[k]
               PROVE  f[m + 1][e[k - 1] + p] = seqs[k][p]
    BY SMTT(90)
  <2>1. m + 1 \in 1 .. n /\ k \in 1 .. n /\ (m + 1) - 1 = m /\ m \in 0 .. n
    BY <1>3
  <2>2. CASE k = m + 1
    BY <1>5, <2>1, <2>2
  <2>3. CASE k \in 1 .. m
    <3>1. e[k] <= e[m]
      <4>1. k \in 0 .. m
        BY <2>3
      <4> QED
        BY <1>3, <1>6, <1>10, <2>1, <4>1, OffsetsMonotone
    <3>2. e[k] = e[k - 1] + size[k] /\ e[k - 1] \in Nat /\ e[m] \in Nat
      <4>1. k - 1 \in 0 .. n
        BY <1>3, <2>1
      <4> QED
        BY <1>10, <2>1, <4>1 DEF Offsets
    <3>3. e[k - 1] + p \in 1 .. e[m]
      <4>1. size[k] \in Nat /\ p \in Nat /\ 1 <= p /\ p <= size[k]
        BY SMTT(30), <1>6, <2>1
      <4> QED
        BY SMTT(60), <3>1, <3>2, <4>1
    <3>4. f[m + 1][e[k - 1] + p] = f[m][e[k - 1] + p]
      BY <1>5, <2>1, <3>3
    <3>5. f[m][e[k - 1] + p] = seqs[k][p]
      BY <1>12, <2>1, <2>3
    <3> QED
      BY <3>4, <3>5
  <2> QED
    BY <2>2, <2>3
<1> HIDE DEF T
<1>13. Nat \subseteq T
  BY <1>11, <1>12, Induct
<1>14. \A k \in 1 .. n : \A p \in 1 .. size[k] : f[n][e[k - 1] + p] = seqs[k][p]
  <2>1. n \in T /\ n <= n
    BY <1>3, <1>13
  <2> QED
    BY <2>1 DEF T
<1>15. FlattensTo(seqs, e, f[n])
  BY <1>3, <1>9, <1>10, <1>14 DEF FlattensTo, n, size
<1> QED
  BY <1>2, <1>9, <1>15

\* at[k][p] is where the concatenation F of seqs has the p-th element of seqs[k].
PlacedBy(seqs, at, F) ==
  /\ \A k \in 1 .. Len(seqs) : \A p \in 1 .. Len(seqs[k]) :
       at[k][p] \in 1 .. Len(F) /\ F[at[k][p]] = seqs[k][p]
  /\ \A a \in 1 .. Len(F) : \E k \in 1 .. Len(seqs) : \E p \in 1 .. Len(seqs[k]) : a = at[k][p]
  /\ \A j, k \in 1 .. Len(seqs) : \A p \in 1 .. Len(seqs[j]) : \A q \in 1 .. Len(seqs[k]) :
       /\ j < k => at[j][p] < at[k][q]
       /\ at[j][p] = at[k][q] => j = k /\ p = q

\* What places F has of the n parts in seqs, by their sizes and offsets.
Laid(seqs, F, n, size, e) ==
  /\ n = Len(seqs) /\ Len(F) = e[n]
  /\ \A k \in 1 .. n : size[k] = Len(seqs[k])
  /\ \A k \in 1 .. n : \A p \in 1 .. size[k] : F[e[k - 1] + p] = seqs[k][p]

LEMMA OffsetsPlace ==
  ASSUME NEW n \in Nat, NEW size \in [1 .. n -> Nat], NEW e, Offsets(n, size, e),
         NEW seqs, NEW F, Laid(seqs, F, n, size, e)
  PROVE  \E at : PlacedBy(seqs, at, F)
<1> DEFINE at == [k \in 1 .. n |-> [p \in 1 .. size[k] |-> e[k - 1] + p]]
<1>1. \A k \in 1 .. n : \A p \in 1 .. size[k] : at[k][p] = e[k - 1] + p
  OBVIOUS
<1> HIDE DEF at
<1>2. ASSUME NEW a \in 1 .. e[n] PROVE \E k \in 1 .. n : \E p \in 1 .. size[k] : a = at[k][p]
  <2>1. PICK k \in 1 .. n : \E p \in 1 .. size[k] : a = e[k - 1] + p
    BY OffsetsCover
  <2> QED
    BY <1>1, <2>1
<1>3. ASSUME NEW j \in 1 .. n, NEW k \in 1 .. n, NEW p \in 1 .. size[j], NEW q \in 1 .. size[k]
      PROVE  /\ j < k => at[j][p] < at[k][q]
             /\ at[j][p] = at[k][q] => j = k /\ p = q
             /\ at[j][p] \in 1 .. e[n]
  <2>1. /\ j < k => e[j - 1] + p < e[k - 1] + q
        /\ e[j - 1] + p = e[k - 1] + q => j = k /\ p = q
        /\ e[j - 1] + p \in 1 .. e[n]
    BY OffsetsApart
  <2> QED
    BY <1>1, <2>1
<1>4. \A k \in 1 .. n : \A p \in 1 .. size[k] : at[k][p] \in 1 .. e[n]
  BY <1>3
<1>5. \A j, k \in 1 .. n : \A p \in 1 .. size[j] : \A q \in 1 .. size[k] :
        /\ j < k => at[j][p] < at[k][q]
        /\ at[j][p] = at[k][q] => j = k /\ p = q
  BY <1>3
<1>6. \A a \in 1 .. e[n] : \E k \in 1 .. n : \E p \in 1 .. size[k] : a = at[k][p]
  BY <1>2
<1>7. \A k \in 1 .. n : \A p \in 1 .. size[k] : F[at[k][p]] = seqs[k][p]
  BY <1>1 DEF Laid
<1>8. n = Len(seqs) /\ Len(F) = e[n] /\ \A k \in 1 .. n : size[k] = Len(seqs[k])
  BY DEF Laid
<1>9. /\ \A k \in 1 .. n : \A p \in 1 .. Len(seqs[k]) : at[k][p] \in 1 .. Len(F) /\ F[at[k][p]] = seqs[k][p]
      /\ \A a \in 1 .. Len(F) : \E k \in 1 .. n : \E p \in 1 .. Len(seqs[k]) : a = at[k][p]
  <2>1. ASSUME NEW k \in 1 .. n, NEW p \in 1 .. Len(seqs[k])
        PROVE  at[k][p] \in 1 .. Len(F) /\ F[at[k][p]] = seqs[k][p]
    <3>1. p \in 1 .. size[k]
      BY <1>8
    <3> QED
      BY <1>4, <1>7, <1>8, <3>1
  <2>2. ASSUME NEW a \in 1 .. Len(F)
        PROVE  \E k \in 1 .. n : \E p \in 1 .. Len(seqs[k]) : a = at[k][p]
    <3>1. PICK k \in 1 .. n : \E p \in 1 .. size[k] : a = at[k][p]
      BY <1>6, <1>8
    <3> QED
      BY <1>8, <3>1
  <2> QED
    BY <2>1, <2>2
<1>10. ASSUME NEW j \in 1 .. n, NEW k \in 1 .. n,
              NEW p \in 1 .. Len(seqs[j]), NEW q \in 1 .. Len(seqs[k])
       PROVE  /\ j < k => at[j][p] < at[k][q]
              /\ at[j][p] = at[k][q] => j = k /\ p = q
  BY <1>5, <1>8
<1>11. PlacedBy(seqs, at, F)
  BY <1>8, <1>9, <1>10 DEF PlacedBy
<1> QED
  BY <1>11

LEMMA FlattenPlaces ==
  ASSUME NEW S, NEW seqs \in Seq(Seq(S))
  PROVE  /\ FlattenSeq(seqs) \in Seq(S) /\ Len(FlattenSeq(seqs)) \in Nat
         /\ \E at : PlacedBy(seqs, at, FlattenSeq(seqs))
<1> DEFINE F == FlattenSeq(seqs)
           n == Len(seqs)
           size == Sizes(seqs)
<1>1. F \in Seq(S) /\ Len(F) \in Nat
  BY Flattened, LenProperties
<1>2. PICK e : FlattensTo(seqs, e, F)
  BY Flattened
<1>3. n \in Nat /\ \A k \in 1 .. n : size[k] = Len(seqs[k]) /\ size[k] \in Nat
  BY SeqOfSeqs DEF Sizes
<1>4. size \in [1 .. n -> Nat]
  BY <1>3 DEF Sizes
<1>5. Offsets(n, size, e) /\ Laid(seqs, F, n, size, e)
  BY <1>2, <1>3 DEF FlattensTo, Laid
<1> HIDE DEF F, n, size
<1>6. \E at : PlacedBy(seqs, at, F)
  BY <1>3, <1>4, <1>5, OffsetsPlace, Zenon
<1> QED
  BY <1>1, <1>6 DEF F

LEMMA BijectionCounts ==
  ASSUME NEW S, NEW T, IsFiniteSet(S), NEW h \in [S -> T],
         \A a, b \in S : h[a] = h[b] => a = b,
         \A t \in T : \E s \in S : h[s] = t
  PROVE  IsFiniteSet(T) /\ Cardinality(T) = Cardinality(S)
<1>1. h \in Bijection(S, T)
  BY Fun_IsBij
<1> QED
  BY <1>1, FS_Bijection DEF ExistsBijection

\* Where x stands in a sequence, and which sequences have it.
PlacesOf(x, s) == {a \in 1 .. Len(s) : s[a] = x}
Having(x, seqs) == {k \in 1 .. Len(seqs) : \E p \in 1 .. Len(seqs[k]) : seqs[k][p] = x}
AtMostOnce(x, seqs) ==
  \A k \in 1 .. Len(seqs) : \A p, q \in 1 .. Len(seqs[k]) :
    seqs[k][p] = x /\ seqs[k][q] = x => p = q

\* A concatenation has x as often as there are sequences that have it, when
\* none has it twice.
LEMMA FlattenCounts ==
  ASSUME NEW S, NEW seqs \in Seq(Seq(S)), NEW x, AtMostOnce(x, seqs)
  PROVE  Cardinality(PlacesOf(x, FlattenSeq(seqs))) = Cardinality(Having(x, seqs))
<1> DEFINE F == FlattenSeq(seqs)
           n == Len(seqs)
           having == {k \in 1 .. n : \E p \in 1 .. Len(seqs[k]) : seqs[k][p] = x}
           places == {a \in 1 .. Len(F) : F[a] = x}
<1>1. PICK at : PlacedBy(seqs, at, F)
  BY FlattenPlaces
<1> DEFINE p(k) == CHOOSE p \in 1 .. Len(seqs[k]) : seqs[k][p] = x
           h == [k \in having |-> at[k][p(k)]]
<1>2. \A k \in having : p(k) \in 1 .. Len(seqs[k]) /\ seqs[k][p(k)] = x
  OBVIOUS
<1>3. n \in Nat
  BY LenProperties
<1>4. IsFiniteSet(having)
  <2>1. IsFiniteSet(1 .. n)
    BY <1>3, FS_Interval
  <2> QED
    BY <2>1, FS_Subset
<1> HIDE DEF p, F
<1>5. \A k \in having : h[k] = at[k][p(k)] /\ k \in 1 .. n
  OBVIOUS
<1>6. \A k \in having : h[k] \in places
  <2>1. \A k \in 1 .. n : \A q \in 1 .. Len(seqs[k]) :
          at[k][q] \in 1 .. Len(F) /\ F[at[k][q]] = seqs[k][q]
    BY <1>1 DEF PlacedBy
  <2> QED
    BY <1>2, <1>5, <2>1
<1>7. \A j, k \in having : h[j] = h[k] => j = k
  <2>1. \A j, k \in 1 .. n : \A q \in 1 .. Len(seqs[j]) : \A r \in 1 .. Len(seqs[k]) :
          at[j][q] = at[k][r] => j = k
    BY <1>1 DEF PlacedBy
  <2> SUFFICES ASSUME NEW j \in having, NEW k \in having, h[j] = h[k] PROVE j = k
    OBVIOUS
  <2>2. p(j) \in 1 .. Len(seqs[j]) /\ p(k) \in 1 .. Len(seqs[k]) /\ at[j][p(j)] = at[k][p(k)]
    BY <1>2, <1>5
  <2> QED
    BY <1>5, <2>1, <2>2
<1>8. ASSUME NEW a \in places PROVE \E k \in having : h[k] = a
  <2>1. PICK k \in 1 .. n : \E q \in 1 .. Len(seqs[k]) : a = at[k][q]
    BY <1>1 DEF PlacedBy
  <2>2. PICK q \in 1 .. Len(seqs[k]) : a = at[k][q]
    BY <2>1
  <2>3. seqs[k][q] = x
    BY <1>1, <2>2 DEF PlacedBy
  <2>4. k \in having /\ p(k) = q
    BY <1>2, <2>3 DEF AtMostOnce
  <2> QED
    BY <1>5, <2>2, <2>4
<1>9. h \in [having -> places]
  BY <1>6
<1> HIDE DEF h, having, places
<1>10. Cardinality(places) = Cardinality(having)
  BY <1>4, <1>7, <1>8, <1>9, BijectionCounts
<1> QED
  BY <1>10 DEF places, having, F, PlacesOf, Having
=============================================================================
