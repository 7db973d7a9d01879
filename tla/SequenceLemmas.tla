--------------------------- MODULE SequenceLemmas ---------------------------
(***************************************************************************)
(* Facts about the operators on sequences that the models use.             *)
(*                                                                         *)
(* Induction: a set of natural numbers that is not empty has a least       *)
(* element (LeastNat), so a statement about all numbers is proved from     *)
(* its least counterexample.                                               *)
(***************************************************************************)
EXTENDS Integers, Sequences, FiniteSets, SequencesExt, WellFoundedInduction,
        SequenceTheorems, FiniteSetTheorems, TLAPS

\* The elements of a sequence.
Elems(s) == {s[i] : i \in 1..Len(s)}

\* Every set of numbers has a least element.
LEMMA LeastNat ==
    ASSUME NEW T, T \subseteq Nat, T # {}
    PROVE  \E x \in T : \A y \in T : x <= y
  <1> DEFINE R == OpToRel(<, Nat)
  <1>1. IsWellFoundedOn(R, Nat)
    BY NatLessThanWellFounded
  <1>2. R = {ss \in Nat \X Nat : ss[1] < ss[2]}
    BY DEF OpToRel
  <1> HIDE DEF R
  <1>3. PICK x \in T : \A y \in T : ~(<<y, x>> \in R)
    BY <1>1, WFMin
  <1>4. ASSUME NEW y \in T PROVE x <= y
    <2>1. x \in Nat /\ y \in Nat
      OBVIOUS
    <2>2. <<y, x>> \in R <=> y < x
      BY <1>2, <2>1
    <2> QED
      BY <1>3, <2>1, <2>2
  <1> QED
    BY <1>4

\* Min of the numbers in a set.
LEMMA MinIsLeast ==
    ASSUME NEW T, T \subseteq Nat, T # {}
    PROVE  Min(T) \in T /\ \A y \in T : Min(T) <= y
  BY LeastNat DEF Min

\* What holds of 0, and of n + 1 whenever it holds of n, holds of every number:
\* T is the set of the numbers it holds of.
LEMMA SetInduction ==
    ASSUME NEW T, 0 \in T, \A n \in Nat : n \in T => n + 1 \in T
    PROVE  Nat \subseteq T
  <1> SUFFICES ASSUME Nat \ T # {} PROVE FALSE
    OBVIOUS
  <1>1. PICK m \in Nat \ T : \A y \in Nat \ T : m <= y
    <2>1. Nat \ T \subseteq Nat
      OBVIOUS
    <2> QED
      BY <2>1, LeastNat
  <1>2. m # 0 /\ m - 1 \in Nat
    OBVIOUS
  <1>3. m - 1 \in T
    BY <1>1, <1>2
  <1>4. (m - 1) + 1 \in T
    BY <1>2, <1>3
  <1> QED
    BY <1>4

\* The elements of a concatenation.
LEMMA ElemsConcat ==
    ASSUME NEW S, NEW s \in Seq(S), NEW t \in Seq(S)
    PROVE  Elems(s \o t) = Elems(s) \cup Elems(t)
  <1>1. ASSUME NEW i \in 1..Len(t)
        PROVE  (s \o t)[Len(s) + i] = t[i]
    OBVIOUS
  <1>2. Elems(t) \subseteq Elems(s \o t)
    BY <1>1 DEF Elems
  <1>3. Elems(s) \subseteq Elems(s \o t)
    BY DEF Elems
  <1>4. Elems(s \o t) \subseteq Elems(s) \cup Elems(t)
    BY DEF Elems
  <1> QED
    BY <1>2, <1>3, <1>4

\* The recursive function in FlattenSeq exists: the prefixes of ss can be
\* concatenated one after the other.
LEMMA FlattenFunction ==
    ASSUME NEW S, NEW ss \in Seq(Seq(S)), Len(ss) # 0
    PROVE  \E f : f = [i \in 1..Len(ss) |->
                         IF i = 1 THEN ss[i] ELSE f[i - 1] \o ss[i]]
  <1> DEFINE Fcn(f, n) == f = [i \in 1..n |->
                                 IF i = 1 THEN ss[i] ELSE f[i - 1] \o ss[i]]
             T == {n \in Nat : n # 0 => \E f : Fcn(f, n)}
  <1>1. 0 \in T
    OBVIOUS
  <1>2. ASSUME NEW n \in Nat, n \in T
        PROVE  n + 1 \in T
    <2>1. CASE n = 0
      <3> DEFINE f == [i \in 1..1 |-> ss[1]]
      <3>1. f = [i \in 1..1 |-> IF i = 1 THEN ss[i] ELSE f[i - 1] \o ss[i]]
        <4>1. \A i \in 1..1 : i = 1
          OBVIOUS
        <4> QED
          BY <4>1, Zenon
      <3>2. n + 1 = 1 /\ n + 1 \in Nat
        BY <2>1
      <3>3. \E h : Fcn(h, n + 1)
        BY <3>1, <3>2, Zenon
      <3> HIDE DEF Fcn
      <3> QED
        BY <3>2, <3>3
    <2>2. CASE n # 0
      <3>1. PICK f : Fcn(f, n)
        BY <1>2, <2>2
      <3> DEFINE g == [i \in 1..n + 1 |->
                         IF i = n + 1 THEN f[n] \o ss[n + 1] ELSE f[i]]
      <3>2. ASSUME NEW i \in 1..n + 1
            PROVE  g[i] = IF i = 1 THEN ss[i] ELSE g[i - 1] \o ss[i]
        <4>1. CASE i = n + 1
          <5>1. /\ i # 1 /\ i - 1 = n /\ n # n + 1
                /\ n \in 1..n + 1 /\ n + 1 \in 1..n + 1
            BY <2>2, <4>1
          <5>2. g[n] = f[n] /\ g[n + 1] = f[n] \o ss[n + 1]
            BY <5>1, Zenon
          <5> HIDE DEF g
          <5> QED
            BY <4>1, <5>1, <5>2
        <4>2. CASE i # n + 1 /\ i = 1
          BY <3>1, <4>2
        <4>3. CASE i # n + 1 /\ i # 1
          <5>1. i \in 1..n /\ i - 1 \in 1..n /\ i - 1 # n + 1
            BY <4>3
          <5>2. f[i] = f[i - 1] \o ss[i]
            BY <3>1, <4>3, <5>1
          <5>3. g[i] = f[i] /\ g[i - 1] = f[i - 1]
            BY <4>3, <5>1
          <5> QED
            BY <4>3, <5>2, <5>3
        <4> QED
          BY <4>1, <4>2, <4>3
      <3>3. Fcn(g, n + 1)
        <4>1. DOMAIN g = 1..n + 1
          OBVIOUS
        <4> HIDE DEF g
        <4>2. g = [i \in 1..n + 1 |-> g[i]]
          BY <3>2, <4>1 DEF g
        <4> QED
          BY <3>2, <4>2
      <3>4. \E h : Fcn(h, n + 1)
        BY <3>3, Zenon
      <3> HIDE DEF Fcn
      <3> QED
        BY <3>4
    <2> QED
      BY <2>1, <2>2
  <1> HIDE DEF T
  <1>3. Nat \subseteq T
    BY <1>1, <1>2, SetInduction
  <1>4. Len(ss) \in T
    BY <1>3
  <1> QED
    BY <1>4 DEF T

\* A flattened sequence has the elements of the sequences in it.
LEMMA FlattenElems ==
    ASSUME NEW S, NEW ss \in Seq(Seq(S))
    PROVE  /\ FlattenSeq(ss) \in Seq(S)
           /\ Elems(FlattenSeq(ss)) = UNION {Elems(ss[i]) : i \in 1..Len(ss)}
  <1>1. CASE Len(ss) = 0
    <2>1. FlattenSeq(ss) = ss
      BY <1>1, Zenon DEF FlattenSeq
    <2>2. ss = <<>>
      BY <1>1
    <2> QED
      BY <2>1, <2>2 DEF Elems
  <1>2. CASE Len(ss) # 0
    <2> DEFINE Fcn(f) == f = [i \in 1..Len(ss) |->
                                IF i = 1 THEN ss[i] ELSE f[i - 1] \o ss[i]]
               f == CHOOSE f : Fcn(f)
               UpTo(n) == UNION {Elems(ss[i]) : i \in 1..n}
               T == {n \in Nat : n \in 1..Len(ss) =>
                                   f[n] \in Seq(S) /\ Elems(f[n]) = UpTo(n)}
    <2>1. FlattenSeq(ss) = f[Len(ss)]
      BY <1>2, Zenon DEF FlattenSeq
    <2>2. Fcn(f)
      <3>1. \E g : Fcn(g)
        BY <1>2, FlattenFunction
      <3> QED
        BY <3>1, Zenon
    <2>3. \A i \in 1..Len(ss) :
             f[i] = IF i = 1 THEN ss[i] ELSE f[i - 1] \o ss[i]
      BY <2>2, Zenon
    <2> HIDE DEF f
    <2>4. 0 \in T
      OBVIOUS
    <2>5. ASSUME NEW n \in Nat, n \in T
          PROVE  n + 1 \in T
      <3> SUFFICES ASSUME n + 1 \in 1..Len(ss)
                   PROVE  f[n + 1] \in Seq(S) /\ Elems(f[n + 1]) = UpTo(n + 1)
        OBVIOUS
      <3>1. ss[n + 1] \in Seq(S)
        OBVIOUS
      <3>2. UpTo(n + 1) = UpTo(n) \cup Elems(ss[n + 1])
        <4>1. 1..n + 1 = (1..n) \cup {n + 1}
          OBVIOUS
        <4> QED
          BY <4>1, Zenon
      <3>3. CASE n = 0
        <4>1. f[n + 1] = ss[n + 1]
          BY <2>3, <3>3
        <4>2. UpTo(n) = {}
          BY <3>3
        <4> QED
          BY <3>1, <3>2, <4>1, <4>2
      <3>4. CASE n # 0
        <4>1. f[n] \in Seq(S) /\ Elems(f[n]) = UpTo(n)
          BY <2>5, <3>4
        <4>2. f[n + 1] = f[n] \o ss[n + 1]
          <5>1. n + 1 # 1 /\ (n + 1) - 1 = n
            BY <3>4
          <5>2. f[n + 1] = IF n + 1 = 1 THEN ss[n + 1]
                           ELSE f[(n + 1) - 1] \o ss[n + 1]
            BY <2>3, Zenon
          <5> QED
            BY <5>1, <5>2, Zenon
        <4>3. Elems(f[n] \o ss[n + 1]) = Elems(f[n]) \cup Elems(ss[n + 1])
          BY <3>1, <4>1, ElemsConcat
        <4>4. f[n] \o ss[n + 1] \in Seq(S)
          BY <3>1, <4>1
        <4> HIDE DEF UpTo
        <4> QED
          BY <3>2, <4>1, <4>2, <4>3, <4>4
      <3> QED
        BY <3>3, <3>4
    <2> HIDE DEF T
    <2>6. Nat \subseteq T
      BY <2>4, <2>5, SetInduction
    <2>7. Len(ss) \in T /\ Len(ss) \in 1..Len(ss)
      BY <1>2, <2>6
    <2> QED
      BY <2>1, <2>7 DEF T
  <1> QED
    BY <1>1, <1>2

\* The elements of ss[i], which has `size' of them, are the i-th `size' of w.
InPlace(w, ss, size) ==
    \A i \in 1..Len(ss), j \in 1..size : w[(i - 1) * size + j] = ss[i][j]

\* In a flattened sequence of sequences of one length, each keeps its place.
LEMMA FlattenSlices ==
    ASSUME NEW S, NEW size \in Nat \ {0}, NEW ss \in Seq([1..size -> S])
    PROVE  /\ FlattenSeq(ss) \in Seq(S)
           /\ Len(FlattenSeq(ss)) = Len(ss) * size
           /\ InPlace(FlattenSeq(ss), ss, size)
  <1>0. ss \in Seq(Seq(S)) /\ \A i \in 1..Len(ss) : Len(ss[i]) = size
    <2> DEFINE A == [1..size -> S]
    <2>1. \A a \in A : a \in Seq(S) /\ Len(a) = size
      OBVIOUS
    <2>2. ss \in Seq(A)
      OBVIOUS
    <2> HIDE DEF A
    <2>3. \A i \in 1..Len(ss) : ss[i] \in A
      BY <2>2
    <2>4. ss \in Seq(Seq(S))
      BY <2>1, <2>2
    <2> QED
      BY <2>1, <2>3, <2>4
  <1>1. CASE Len(ss) = 0
    <2>1. FlattenSeq(ss) = ss
      BY <1>1, Zenon DEF FlattenSeq
    <2>2. ss = <<>>
      BY <1>0, <1>1
    <2> QED
      BY <2>1, <2>2 DEF InPlace
  <1>2. CASE Len(ss) # 0
    <2> DEFINE Fcn(f) == f = [i \in 1..Len(ss) |->
                                IF i = 1 THEN ss[i] ELSE f[i - 1] \o ss[i]]
               f == CHOOSE f : Fcn(f)
               Placed(n) == /\ f[n] \in Seq(S) /\ Len(f[n]) = n * size
                            /\ \A i \in 1..n, j \in 1..size :
                                  f[n][(i - 1) * size + j] = ss[i][j]
               T == {n \in Nat : n \in 1..Len(ss) => Placed(n)}
    <2>1. FlattenSeq(ss) = f[Len(ss)]
      BY <1>2, Zenon DEF FlattenSeq
    <2>2. Fcn(f)
      <3>1. \E g : Fcn(g)
        BY <1>0, <1>2, FlattenFunction
      <3> QED
        BY <3>1, Zenon
    <2>3. \A i \in 1..Len(ss) :
             f[i] = IF i = 1 THEN ss[i] ELSE f[i - 1] \o ss[i]
      BY <2>2, Zenon
    <2> HIDE DEF f
    <2>4. 0 \in T
      OBVIOUS
    <2>5. ASSUME NEW n \in Nat, n \in T, n + 1 \in 1..Len(ss)
          PROVE  Placed(n + 1)
      <3>1. ss[n + 1] \in Seq(S) /\ Len(ss[n + 1]) = size
        BY <1>0, <2>5
      <3>2. CASE n = 0
        <4>0. n + 1 = 1 /\ 1 \in 1..Len(ss) /\ 1 * size = size
          BY <2>5, <3>2
        <4>1. f[n + 1] = ss[1] /\ n + 1 = 1 /\ 1 * size = size
          BY <2>3, <4>0, Zenon
        <4>2. \A i \in 1..1, j \in 1..size : i = 1 /\ (i - 1) * size + j = j
          <5> TAKE i \in 1..1, j \in 1..size
          <5>1. i = 1 /\ j \in Nat
            OBVIOUS
          <5>2. (i - 1) * size = 0
            BY <5>1
          <5> QED
            BY <5>1, <5>2
        <4>3. \A i \in 1..1, j \in 1..size : ss[1][(i - 1) * size + j] = ss[i][j]
          BY <4>2
        <4>4. ss[1] \in Seq(S) /\ Len(ss[1]) = 1 * size
          BY <3>1, <4>1
        <4> QED
          BY <4>1, <4>3, <4>4
      <3>3. CASE n # 0
        <4>0. n \in 1..Len(ss)
          BY <2>5, <3>3
        <4>1. Placed(n)
          BY <2>5, <4>0, Zenon
        <4>2. f[n + 1] = f[n] \o ss[n + 1]
          <5>1. n + 1 # 1 /\ (n + 1) - 1 = n
            BY <3>3
          <5>2. f[n + 1] = IF n + 1 = 1 THEN ss[n + 1]
                           ELSE f[(n + 1) - 1] \o ss[n + 1]
            BY <2>3, <2>5, Zenon
          <5> QED
            BY <5>1, <5>2, Zenon
        <4>3. PICK a, b, m : a = f[n] /\ b = ss[n + 1] /\ m = n * size
          OBVIOUS
        <4>4. m \in Nat /\ (n + 1) * size = m + size /\ size \in Nat
          BY <4>3
        <4>5. a \in Seq(S) /\ Len(a) = m /\ b \in Seq(S) /\ Len(b) = size
          BY <3>1, <4>1, <4>3
        <4>6. /\ a \o b \in Seq(S) /\ Len(a \o b) = m + size
              /\ \A k \in 1..m : (a \o b)[k] = a[k]
              /\ \A k \in 1..size : (a \o b)[m + k] = b[k]
          <5>1. a \o b \in Seq(S) /\ Len(a \o b) = m + size
            <6>1. \A q, r \in Seq(S) : q \o r \in Seq(S) /\ Len(q \o r) = Len(q) + Len(r)
              OBVIOUS
            <6> QED
              BY <4>5, <6>1
          <5>2. \A k \in 1..m : (a \o b)[k] = a[k]
            BY <4>4, <4>5
          <5>3. ASSUME NEW k \in 1..size PROVE (a \o b)[m + k] = b[k]
            <6>1. m + k \in 1..m + size /\ m + k > m /\ (m + k) - m = k
              BY <4>4
            <6> QED
              BY <4>5, <6>1
          <5> QED
            BY <5>1, <5>2, <5>3
        <4>7. ASSUME NEW i \in 1..n, NEW j \in 1..size
              PROVE  (a \o b)[(i - 1) * size + j] = ss[i][j]
          <5>1. (i - 1) * size + j \in 1..m
            <6>1. PICK k \in Nat : n = i + k
              <7>1. n - i \in Nat /\ n = i + (n - i)
                OBVIOUS
              <7> QED
                BY <7>1
            <6>2. PICK u, v : u = (i - 1) * size /\ v = k * size
              OBVIOUS
            <6>3. i - 1 \in Nat /\ size \in Nat /\ k \in Nat
              OBVIOUS
            <6>4. u \in Nat /\ v \in Nat
              BY <6>2, <6>3
            <6>5. m = u + size + v
              <7>1. n = (i - 1) + 1 + k
                BY <6>1
              <7> QED
                BY <4>3, <6>2, <6>3, <7>1
            <6> QED
              BY <6>2, <6>4, <6>5
          <5>2. a[(i - 1) * size + j] = ss[i][j]
            BY <4>1, <4>3
          <5> QED
            BY <4>6, <5>1, <5>2
        <4>8. ASSUME NEW j \in 1..size
              PROVE  (a \o b)[((n + 1) - 1) * size + j] = ss[n + 1][j]
          <5>1. ((n + 1) - 1) * size + j = m + j
            BY <4>3
          <5> QED
            BY <4>3, <4>6, <5>1
        <4>9. \A i \in 1..n + 1 : i \in 1..n \/ i = n + 1
          OBVIOUS
        <4>10. \A i \in 1..n + 1, j \in 1..size :
                  (a \o b)[(i - 1) * size + j] = ss[i][j]
          BY <4>7, <4>8, <4>9
        <4>11. f[n + 1] = a \o b
          BY <4>2, <4>3
        <4> QED
          BY <4>4, <4>6, <4>10, <4>11
      <3> QED
        BY <3>2, <3>3
    <2>6. \A n \in Nat : n \in T => n + 1 \in T
      <3> HIDE DEF Placed
      <3> SUFFICES ASSUME NEW n \in Nat, n \in T PROVE n + 1 \in T
        OBVIOUS
      <3>1. n + 1 \in 1..Len(ss) => Placed(n + 1)
        BY <2>5, Zenon
      <3> QED
        BY <3>1
    <2> HIDE DEF T
    <2>7. Nat \subseteq T
      BY <2>4, <2>6, SetInduction
    <2>8. Len(ss) \in T /\ Len(ss) \in 1..Len(ss)
      BY <1>2, <2>7
    <2> QED
      BY <2>1, <2>8 DEF T, InPlace
  <1> QED
    BY <1>1, <1>2

\* SetToSeqs yields sequences that have every element of the set.
LEMMA OrdersOfSet ==
    ASSUME NEW S, IsFiniteSet(S), NEW order \in SetToSeqs(S)
    PROVE  order \in Seq(S) /\ Elems(order) = S
  <1> DEFINE n == Cardinality(S)
  <1>1. n \in Nat
    BY FS_CardinalityType
  <1>2. /\ order \in [1..n -> S]
        /\ \A i, j \in 1..n : i # j => order[i] # order[j]
    BY DEF SetToSeqs
  <1> HIDE DEF n
  <1>3. order \in Seq(S) /\ Len(order) = n
    BY <1>1, <1>2
  <1>4. order \in Injection(1..n, S)
    BY <1>2 DEF Injection, IsInjective
  <1>5. Cardinality(1..n) = n
    BY <1>1, FS_Interval
  <1>6. order \in Surjection(1..n, S)
    BY <1>4, <1>5, FS_Injection DEF n
  <1> QED
    BY <1>2, <1>3, <1>6 DEF Surjection, Elems

\* A sequence and two more.
LEMMA EndsInPair ==
    ASSUME NEW S, NEW s \in Seq(S), NEW x \in S, NEW y \in S
    PROVE  /\ Len(s) \in Nat /\ Len(s \o <<x, y>>) = Len(s) + 2
           /\ (s \o <<x, y>>)[Len(s) + 1] = x
           /\ (s \o <<x, y>>)[Len(s) + 2] = y
  OBVIOUS

\* An element before a sequence.
LEMMA ConsSeq ==
    ASSUME NEW S, NEW x \in S, NEW s \in Seq(S)
    PROVE  /\ <<x>> \o s \in Seq(S) /\ <<x>> \o s # <<>>
           /\ (<<x>> \o s)[1] = x /\ Head(<<x>> \o s) = x
           /\ Tail(<<x>> \o s) = s
  <1> DEFINE w == <<x>> \o s
  <1>1. /\ w \in Seq(S) /\ Len(w) = Len(s) + 1 /\ w[1] = x
        /\ \A i \in 1..Len(s) : w[i + 1] = s[i]
    OBVIOUS
  <1> HIDE DEF w
  <1>2. Len(s) \in Nat /\ w # <<>> /\ Head(w) = x
    BY <1>1
  <1>3. /\ Tail(w) \in Seq(S) /\ Len(Tail(w)) = Len(s)
        /\ \A i \in 1..Len(s) : Tail(w)[i] = w[i + 1]
    BY <1>1, <1>2
  <1>4. Tail(w) = s
    BY <1>1, <1>3, SeqEqual
  <1> QED
    BY <1>1, <1>2, <1>4 DEF w

\* A flattened sequence ends with the last of the sequences in it.
LEMMA FlattenLast ==
    ASSUME NEW S, NEW ss \in Seq(Seq(S)), Len(ss) # 0
    PROVE  \E pre \in Seq(S) : FlattenSeq(ss) = pre \o ss[Len(ss)]
  <1> DEFINE Fcn(f) == f = [i \in 1..Len(ss) |->
                              IF i = 1 THEN ss[i] ELSE f[i - 1] \o ss[i]]
             f == CHOOSE f : Fcn(f)
             T == {n \in Nat : n \in 1..Len(ss) => f[n] \in Seq(S)}
  <1>1. FlattenSeq(ss) = f[Len(ss)]
    BY Zenon DEF FlattenSeq
  <1>2. Fcn(f)
    <2>1. \E g : Fcn(g)
      BY FlattenFunction
    <2> QED
      BY <2>1, Zenon
  <1>3. \A i \in 1..Len(ss) :
           f[i] = IF i = 1 THEN ss[i] ELSE f[i - 1] \o ss[i]
    BY <1>2, Zenon
  <1> HIDE DEF f
  <1>4. \A i \in 1..Len(ss) : ss[i] \in Seq(S)
    OBVIOUS
  <1>5. ASSUME NEW n \in Nat, n \in T
        PROVE  n + 1 \in T
    <2> SUFFICES ASSUME n + 1 \in 1..Len(ss) PROVE f[n + 1] \in Seq(S)
      OBVIOUS
    <2>1. ss[n + 1] \in Seq(S)
      BY <1>4
    <2>2. CASE n = 0
      BY <1>3, <2>1, <2>2
    <2>3. CASE n # 0
      <3>1. n + 1 # 1 /\ (n + 1) - 1 = n /\ n \in 1..Len(ss)
        BY <2>3
      <3>2. f[n + 1] = f[n] \o ss[n + 1]
        BY <1>3, <3>1
      <3>3. f[n] \in Seq(S)
        BY <1>5, <3>1
      <3> QED
        BY <2>1, <3>2, <3>3
    <2> QED
      BY <2>2, <2>3
  <1>6. 0 \in T
    OBVIOUS
  <1> HIDE DEF T
  <1>7. Nat \subseteq T
    BY <1>5, <1>6, SetInduction
  <1>8. CASE Len(ss) = 1
    <2>1. FlattenSeq(ss) = ss[Len(ss)]
      BY <1>1, <1>3, <1>8
    <2>2. <<>> \in Seq(S) /\ <<>> \o ss[Len(ss)] = ss[Len(ss)]
      BY <1>4, <1>8
    <2> QED
      BY <2>1, <2>2
  <1>9. CASE Len(ss) # 1
    <2>1. Len(ss) \in 1..Len(ss) /\ Len(ss) - 1 \in 1..Len(ss) /\ Len(ss) - 1 \in Nat
      <3>1. PICK l \in Nat : l = Len(ss)
        OBVIOUS
      <3>2. l # 0 /\ l # 1 => l \in 1..l /\ l - 1 \in 1..l /\ l - 1 \in Nat
        OBVIOUS
      <3> QED
        BY <1>9, <3>1, <3>2
    <2>2. f[Len(ss)] = f[Len(ss) - 1] \o ss[Len(ss)]
      BY <1>3, <1>9, <2>1
    <2>3. f[Len(ss) - 1] \in Seq(S)
      BY <1>7, <2>1 DEF T
    <2> QED
      BY <1>1, <2>2, <2>3
  <1> QED
    BY <1>8, <1>9
=============================================================================
