------------------------------ MODULE ListLemmas ------------------------------
(***************************************************************************)
(* Facts about the kernel's lists, kept as sequences, about the least      *)
(* number of a set and about remainders, which the proofs about the kernel *)
(* share.                                                                  *)
(***************************************************************************)
EXTENDS Integers, FiniteSets, SequencesExt, WellFoundedInduction, FiniteSetTheorems,
        SequenceTheorems, TLAPS

\* A set of natural numbers that is not empty has a least one: "less than" is well-founded.
LEMMA LeastNatural ==
    ASSUME NEW T \in SUBSET Nat, T # {}
    PROVE  \E x \in T : \A y \in T : x <= y
<1> DEFINE R == OpToRel(<, Nat)
<1>1. IsWellFoundedOn(R, Nat)  BY NatLessThanWellFounded
<1>2. \A x, y \in Nat : x < y => <<x, y>> \in R  BY DEF OpToRel
<1> HIDE DEF R
<1>3. \E x \in T : \A y \in T : ~ (<<y, x>> \in R)  BY <1>1, WFMin
<1>4. PICK x \in T : \A y \in T : ~ (<<y, x>> \in R)  BY <1>3
<1>5. \A y \in T : ~(y < x)  BY <1>2, <1>4
<1> QED  BY <1>5

\* Min returns it.
LEMMA MinIsLeast ==
    ASSUME NEW T \in SUBSET Nat, T # {}
    PROVE  Min(T) \in T /\ \A y \in T : Min(T) <= y
<1>1. \E x \in T : \A y \in T : x =< y  BY LeastNatural
<1> QED  BY <1>1 DEF Min

\* The number of places where a list has x, if it has x once at most.
LEMMA CountIs ==
    ASSUME NEW l, NEW x, \A j, k \in 1..Len(l) : l[j] = x /\ l[k] = x => j = k
    PROVE  Cardinality({n \in 1..Len(l) : l[n] = x}) = IF \E n \in 1..Len(l) : l[n] = x THEN 1 ELSE 0
<1> DEFINE P == {n \in 1..Len(l) : l[n] = x}
<1>1. CASE \E n \in 1..Len(l) : l[n] = x
  <2>1. PICK n \in 1..Len(l) : l[n] = x  BY <1>1
  <2>2. P = {n}  BY <2>1
  <2> QED  BY <2>2, <1>1, FS_Singleton
<1>2. CASE ~ \E n \in 1..Len(l) : l[n] = x
  <2>1. P = {}  BY <1>2
  <2> QED  BY <2>1, <1>2, FS_EmptySet
<1> QED  BY <1>1, <1>2

\* The element at p leaves a list: those behind it move up.
LEMMA RemoveAtIs ==
    ASSUME NEW S, NEW l \in Seq(S), NEW p \in 1..Len(l)
    PROVE  /\ RemoveAt(l, p) \in Seq(S) /\ Len(RemoveAt(l, p)) = Len(l) - 1
           /\ \A k \in 1..(Len(l) - 1) : RemoveAt(l, p)[k] = l[IF k < p THEN k ELSE k + 1]
<1> DEFINE a == SubSeq(l, 1, p - 1)
           b == SubSeq(l, p + 1, Len(l))
           r == a \o b
<1>1. Len(l) \in Nat /\ p \in Nat /\ p >= 1 /\ p <= Len(l)  BY LenProperties
<1>2. \A k \in 1..Len(l) : l[k] \in S  BY ElementOfSeq
<1>3. /\ a \in Seq(S) /\ Len(a) = p - 1
      /\ \A k \in 1..(p - 1) : a[k] = l[k]
  <2>1. \A k \in 1..(p - 1) : l[k] \in S  BY <1>1, <1>2
  <2>2. /\ a \in Seq(S) /\ Len(a) = IF 1 <= p - 1 THEN p - 1 - 1 + 1 ELSE 0
        /\ \A k \in 1..(p - 1 - 1 + 1) : a[k] = l[1 + k - 1]
    BY <2>1, <1>1, SubSeqProperties
  <2> HIDE DEF a
  <2>3. Len(a) = p - 1 /\ p - 1 - 1 + 1 = p - 1  BY <2>2, <1>1
  <2>4. \A k \in 1..(p - 1) : 1 + k - 1 = k  BY <1>1
  <2> QED  BY <2>2, <2>3, <2>4
<1>4. /\ b \in Seq(S) /\ Len(b) = Len(l) - p
      /\ \A k \in 1..(Len(l) - p) : b[k] = l[p + k]
  <2>1. \A k \in (p + 1)..Len(l) : l[k] \in S  BY <1>1, <1>2
  <2>2. /\ b \in Seq(S) /\ Len(b) = IF p + 1 <= Len(l) THEN Len(l) - (p + 1) + 1 ELSE 0
        /\ \A k \in 1..(Len(l) - (p + 1) + 1) : b[k] = l[(p + 1) + k - 1]
    BY <2>1, <1>1, SubSeqProperties
  <2> HIDE DEF b
  <2>3. Len(b) = Len(l) - p /\ Len(l) - (p + 1) + 1 = Len(l) - p  BY <2>2, <1>1
  <2>4. \A k \in 1..(Len(l) - p) : (p + 1) + k - 1 = p + k  BY <1>1
  <2> QED  BY <2>2, <2>3, <2>4
<1> HIDE DEF a, b
<1>5. /\ r \in Seq(S) /\ Len(r) = Len(a) + Len(b)
      /\ \A k \in 1..(Len(a) + Len(b)) : r[k] = IF k <= Len(a) THEN a[k] ELSE b[k - Len(a)]
  BY <1>3, <1>4, ConcatProperties
<1>6. RemoveAt(l, p) = r  BY DEF RemoveAt, a, b
<1> HIDE DEF r
<1>7. ASSUME NEW k \in 1..(Len(l) - 1) PROVE r[k] = l[IF k < p THEN k ELSE k + 1]
  <2>1. k \in 1..(Len(a) + Len(b))  BY <1>1, <1>3, <1>4
  <2>2. CASE k < p
    <3>1. k <= Len(a) /\ k \in 1..(p - 1)  BY <2>2, <1>1, <1>3
    <3> QED  BY <3>1, <2>1, <2>2, <1>3, <1>5
  <2>3. CASE ~(k < p)
    <3>1. /\ ~(k <= Len(a)) /\ k - Len(a) \in 1..(Len(l) - p) /\ p + (k - Len(a)) = k + 1
      BY <2>3, <1>1, <1>3
    <3> QED  BY <3>1, <2>1, <2>3, <1>4, <1>5
  <2> QED  BY <2>2, <2>3
<1>8. Len(r) = Len(l) - 1  BY <1>1, <1>3, <1>4, <1>5
<1> QED  BY <1>5, <1>6, <1>7, <1>8

\* The same of an element the list has once.
LEMMA RemoveFirstIs ==
    ASSUME NEW S, NEW l \in Seq(S), NEW p \in 1..Len(l), \A k \in 1..Len(l) : l[k] = l[p] => k = p
    PROVE  /\ RemoveFirst(l, l[p]) \in Seq(S) /\ Len(RemoveFirst(l, l[p])) = Len(l) - 1
           /\ \A k \in 1..(Len(l) - 1) : RemoveFirst(l, l[p])[k] = l[IF k < p THEN k ELSE k + 1]
<1>1. p \in Nat  BY LenProperties
<1>2. {k \in 1..Len(l) : l[k] = l[p]} = {p}  OBVIOUS
<1>3. {p} # {} /\ Min({p}) = p
  <2>1. \E x \in {p} : \A y \in {p} : x =< y  BY <1>1
  <2> QED  BY <2>1 DEF Min
<1>4. SelectInSeq(l, LAMBDA v : v = l[p]) = p  BY <1>2, <1>3 DEF SelectInSeq
<1>5. RemoveFirst(l, l[p]) = RemoveAt(l, p)  BY <1>4 DEF RemoveFirst
<1> QED  BY <1>5, RemoveAtIs

\* Nothing leaves a list that has no such element.
LEMMA RemoveFirstNone ==
    ASSUME NEW l, NEW x, ~ \E k \in 1..Len(l) : l[k] = x
    PROVE  RemoveFirst(l, x) = l
  BY DEF RemoveFirst

\* In both cases the list has the others left, once each if it had them once.
LEMMA RemoveFirstSeq ==
    ASSUME NEW S, NEW l \in Seq(S), NEW x, \A j, k \in 1..Len(l) : l[j] = l[k] => j = k,
           NEW r, r = RemoveFirst(l, x)
    PROVE  /\ r \in Seq(S) /\ \A j, k \in 1..Len(r) : r[j] = r[k] => j = k
           /\ \A y \in S : (\E k \in 1..Len(r) : r[k] = y) <=> y # x /\ \E k \in 1..Len(l) : l[k] = y
<1>1. CASE ~ \E k \in 1..Len(l) : l[k] = x
  <2>1. r = l  BY <1>1, RemoveFirstNone
  <2> QED  BY <2>1, <1>1
<1>2. CASE \E k \in 1..Len(l) : l[k] = x
  <2>1. PICK p \in 1..Len(l) : l[p] = x  BY <1>2
  <2>2. PICK n \in Nat : n = Len(l)  BY LenProperties
  <2> DEFINE up(k) == IF k < p THEN k ELSE k + 1
  <2>3. r \in Seq(S) /\ Len(r) = n - 1 /\ \A k \in 1..(n - 1) : r[k] = l[up(k)]
    <3>1. \A k \in 1..Len(l) : l[k] = l[p] => k = p  OBVIOUS
    <3>2. /\ RemoveFirst(l, l[p]) \in Seq(S) /\ Len(RemoveFirst(l, l[p])) = Len(l) - 1
          /\ \A k \in 1..(Len(l) - 1) : RemoveFirst(l, l[p])[k] = l[IF k < p THEN k ELSE k + 1]
      BY <3>1, RemoveFirstIs
    <3> QED  BY <3>2, <2>1, <2>2
  <2>4. \A k \in 1..(n - 1) : up(k) \in 1..n /\ up(k) # p  BY <2>2
  <2>5. \A j, k \in 1..(n - 1) : up(j) = up(k) => j = k  BY <2>2
  <2>6. ASSUME NEW k \in 1..n, k # p PROVE \E j \in 1..(n - 1) : up(j) = k
    <3>1. CASE k < p
      <4>1. k \in 1..(n - 1) /\ up(k) = k  BY <3>1, <2>2
      <4> QED  BY <4>1
    <3>2. CASE k > p
      <4>1. PICK j : j = k - 1  OBVIOUS
      <4>2. j \in 1..(n - 1) /\ up(j) = k  BY <4>1, <3>2, <2>2
      <4> QED  BY <4>2
    <3>3. k < p \/ k > p  BY <2>2, <2>6
    <3> QED  BY <3>1, <3>2, <3>3
  <2> HIDE DEF up
  <2>7. \A j, k \in 1..(n - 1) : r[j] = r[k] => j = k
    BY <2>2, <2>3, <2>4, <2>5, SMTT(30)
  <2>8. \A k \in 1..(n - 1) : r[k] # x /\ \E i \in 1..n : l[i] = r[k]
    <3>1. ASSUME NEW k \in 1..(n - 1) PROVE r[k] # x /\ \E i \in 1..n : l[i] = r[k]
      <4>1. PICK i \in 1..n : i = up(k) /\ i # p  BY <2>4
      <4>2. r[k] = l[i]  BY <4>1, <2>3
      <4> QED  BY <4>1, <4>2, <2>1, <2>2
    <3> QED  BY <3>1
  <2>9. ASSUME NEW k \in 1..n, l[k] # x PROVE \E j \in 1..(n - 1) : r[j] = l[k]
    <3>1. PICK j \in 1..(n - 1) : up(j) = k  BY <2>1, <2>6, <2>9
    <3> QED  BY <3>1, <2>3
  <2>10. ASSUME NEW y \in S
         PROVE  (\E k \in 1..(n - 1) : r[k] = y) <=> y # x /\ \E k \in 1..n : l[k] = y
    <3>1. ASSUME NEW k \in 1..(n - 1), r[k] = y PROVE y # x /\ \E i \in 1..n : l[i] = y  BY <3>1, <2>8
    <3>2. ASSUME y # x, NEW i \in 1..n, l[i] = y PROVE \E k \in 1..(n - 1) : r[k] = y  BY <3>2, <2>9
    <3> QED  BY <3>1, <3>2
  <2> QED  BY <2>2, <2>3, <2>7, <2>10
<1> QED  BY <1>1, <1>2

\* An element is inserted before place n: those from there on move down.
LEMMA InsertAtIs ==
    ASSUME NEW S, NEW l \in Seq(S), NEW x \in S, NEW n \in 1..(Len(l) + 1)
    PROVE  /\ InsertAt(l, n, x) \in Seq(S) /\ Len(InsertAt(l, n, x)) = Len(l) + 1
           /\ InsertAt(l, n, x)[n] = x
           /\ \A k \in 1..Len(l) : InsertAt(l, n, x)[IF k < n THEN k ELSE k + 1] = l[k]
<1> DEFINE a == SubSeq(l, 1, n - 1)
           b == SubSeq(l, n, Len(l))
           u == <<x>>
           au == a \o u
           r == au \o b
<1>1. Len(l) \in Nat /\ n \in Nat /\ n >= 1 /\ n <= Len(l) + 1  BY LenProperties
<1>2. \A k \in 1..Len(l) : l[k] \in S  BY ElementOfSeq
<1>3. a \in Seq(S) /\ Len(a) = n - 1 /\ \A k \in 1..(n - 1) : a[k] = l[k]
  <2>1. \A k \in 1..(n - 1) : l[k] \in S  BY <1>1, <1>2
  <2>2. /\ a \in Seq(S) /\ Len(a) = IF 1 <= n - 1 THEN n - 1 - 1 + 1 ELSE 0
        /\ \A k \in 1..(n - 1 - 1 + 1) : a[k] = l[1 + k - 1]
    BY <2>1, <1>1, SubSeqProperties
  <2> HIDE DEF a
  <2>3. Len(a) = n - 1 /\ n - 1 - 1 + 1 = n - 1  BY <2>2, <1>1
  <2>4. \A k \in 1..(n - 1) : 1 + k - 1 = k  BY <1>1
  <2> QED  BY <2>2, <2>3, <2>4
<1>4. /\ b \in Seq(S) /\ Len(b) = (Len(l) - n) + 1
      /\ \A k \in 1..((Len(l) - n) + 1) : b[k] = l[(n + k) - 1]
  <2>1. \A k \in n..Len(l) : l[k] \in S  BY <1>1, <1>2
  <2>2. /\ b \in Seq(S) /\ Len(b) = IF n <= Len(l) THEN Len(l) - n + 1 ELSE 0
        /\ \A k \in 1..(Len(l) - n + 1) : b[k] = l[n + k - 1]
    BY <2>1, <1>1, SubSeqProperties
  <2> HIDE DEF b
  <2> QED  BY <2>2, <1>1
<1>5. u \in Seq(S) /\ Len(u) = 1 /\ u[1] = x  OBVIOUS
<1> HIDE DEF a, b, u
<1>6. /\ au \in Seq(S) /\ Len(au) = Len(a) + Len(u)
      /\ \A k \in 1..(Len(a) + Len(u)) : au[k] = IF k <= Len(a) THEN a[k] ELSE u[k - Len(a)]
  BY <1>3, <1>5, ConcatProperties
<1>7. Len(au) = n /\ au[n] = x /\ \A k \in 1..(n - 1) : au[k] = l[k]
  <2>1. Len(au) = n /\ Len(a) + Len(u) = n  BY <1>1, <1>3, <1>5, <1>6
  <2>2. n \in 1..n /\ ~(n <= Len(a)) /\ n - Len(a) = 1  BY <1>1, <1>3
  <2>3. \A k \in 1..(n - 1) : k \in 1..n /\ k <= Len(a)  BY <1>1, <1>3
  <2> QED  BY <2>1, <2>2, <2>3, <1>3, <1>5, <1>6
<1> HIDE DEF au
<1>8. /\ r \in Seq(S) /\ Len(r) = Len(au) + Len(b)
      /\ \A k \in 1..(Len(au) + Len(b)) : r[k] = IF k <= Len(au) THEN au[k] ELSE b[k - Len(au)]
  <2>1. PICK c, d \in Seq(S) : c = au /\ d = b  BY <1>4, <1>6
  <2>2. /\ c \o d \in Seq(S) /\ Len(c \o d) = Len(c) + Len(d)
        /\ \A k \in 1..(Len(c) + Len(d)) : (c \o d)[k] = IF k <= Len(c) THEN c[k] ELSE d[k - Len(c)]
    BY ConcatProperties
  <2>3. r = c \o d  BY <2>1
  <2> HIDE DEF r
  <2> QED  BY <2>1, <2>2, <2>3
<1>9. InsertAt(l, n, x) = r  BY DEF InsertAt, r, au, a, u, b
<1> HIDE DEF r
<1>10. Len(r) = Len(l) + 1 /\ Len(au) + Len(b) = Len(l) + 1  BY <1>1, <1>4, <1>7, <1>8
<1>11. r[n] = x
  <2>1. n \in 1..(Len(l) + 1) /\ n <= Len(au)  BY <1>1, <1>7
  <2> QED  BY <2>1, <1>7, <1>8, <1>10
<1>12. ASSUME NEW k \in 1..Len(l) PROVE r[IF k < n THEN k ELSE k + 1] = l[k]
  <2>1. CASE k < n
    <3>1. k \in 1..(Len(l) + 1) /\ k <= Len(au) /\ k \in 1..(n - 1)  BY <2>1, <1>1, <1>7
    <3> QED  BY <3>1, <2>1, <1>7, <1>8, <1>10
  <2>2. CASE ~(k < n)
    <3>1. PICK m, i : m = k + 1 /\ i = m - Len(au)  OBVIOUS
    <3>2. m \in 1..(Len(l) + 1) /\ ~(m <= Len(au))  BY <3>1, <2>2, <1>1, <1>7
    <3>3. i \in 1..((Len(l) - n) + 1) /\ (n + i) - 1 = k  BY <3>1, <2>2, <1>1, <1>7
    <3>4. r[m] = b[i]  BY <3>1, <3>2, <1>8, <1>10
    <3>5. b[i] = l[k]  BY <3>3, <1>4
    <3> QED  BY <3>1, <3>4, <3>5, <2>2
  <2> QED  BY <2>1, <2>2
<1> QED  BY <1>8, <1>9, <1>10, <1>11, <1>12

\* The same of a list that is the result of the insertion.
LEMMA InsertedIs ==
    ASSUME NEW S, NEW l \in Seq(S), NEW x \in S, NEW n \in 1..(Len(l) + 1),
           NEW r, r = InsertAt(l, n, x)
    PROVE  /\ r \in Seq(S) /\ Len(r) = Len(l) + 1 /\ r[n] = x
           /\ \A k \in 1..Len(l) : r[IF k < n THEN k ELSE k + 1] = l[k]
<1>1. /\ InsertAt(l, n, x) \in Seq(S) /\ Len(InsertAt(l, n, x)) = Len(l) + 1
      /\ InsertAt(l, n, x)[n] = x
      /\ \A k \in 1..Len(l) : InsertAt(l, n, x)[IF k < n THEN k ELSE k + 1] = l[k]
  BY InsertAtIs
<1> QED  BY <1>1

\* The first n elements of a list leave it.
LEMMA RestIs ==
    ASSUME NEW S, NEW l \in Seq(S), NEW n \in 0..Len(l)
    PROVE  /\ SubSeq(l, n + 1, Len(l)) \in Seq(S) /\ Len(SubSeq(l, n + 1, Len(l))) = Len(l) - n
           /\ \A k \in 1..(Len(l) - n) : SubSeq(l, n + 1, Len(l))[k] = l[n + k]
<1> DEFINE b == SubSeq(l, n + 1, Len(l))
<1>1. Len(l) \in Nat /\ n \in Nat /\ n <= Len(l)  BY LenProperties
<1>2. \A k \in (n + 1)..Len(l) : l[k] \in S  BY <1>1, ElementOfSeq
<1>3. /\ b \in Seq(S) /\ Len(b) = IF n + 1 <= Len(l) THEN Len(l) - (n + 1) + 1 ELSE 0
      /\ \A k \in 1..(Len(l) - (n + 1) + 1) : b[k] = l[(n + 1) + k - 1]
  BY <1>1, <1>2, SubSeqProperties
<1> HIDE DEF b
<1>4. Len(b) = Len(l) - n /\ Len(l) - (n + 1) + 1 = Len(l) - n  BY <1>1, <1>3
<1>5. \A k \in 1..(Len(l) - n) : (n + 1) + k - 1 = n + k  BY <1>1
<1> QED  BY <1>3, <1>4, <1>5 DEF b

\* SetToSeq lists the elements of a finite set, each of them once.
LEMMA SetToSeqIs ==
    ASSUME NEW S, IsFiniteSet(S)
    PROVE  /\ SetToSeq(S) \in Seq(S)
           /\ \A j, k \in 1..Len(SetToSeq(S)) : SetToSeq(S)[j] = SetToSeq(S)[k] => j = k
           /\ \A x : x \in S <=> \E k \in 1..Len(SetToSeq(S)) : SetToSeq(S)[k] = x
<1>1. PICK n \in Nat : n = Cardinality(S) /\ ExistsBijection(1..n, S)  BY FS_CardinalityType
<1>2. \E f \in [1..n -> S] : IsInjective(f)  BY <1>1 DEF ExistsBijection, Bijection, Injection
<1>3. PICK f : f = SetToSeq(S)  OBVIOUS
<1>4. f \in [1..n -> S] /\ IsInjective(f)  BY <1>1, <1>2, <1>3 DEF SetToSeq
<1>5. f \in Injection(1..n, S)  BY <1>4 DEF Injection
<1>6. Cardinality(1..n) = n
  <2>1. Cardinality(1..n) = IF 1 > n THEN 0 ELSE n - 1 + 1  BY FS_Interval
  <2> QED  BY <2>1
<1>7. f \in Surjection(1..n, S)  BY <1>1, <1>5, <1>6, FS_Injection
<1>8. f \in Seq(S) /\ Len(f) = n  BY <1>4
<1>9. \A x \in S : \E k \in 1..n : f[k] = x  BY <1>4, <1>7 DEF Surjection
<1>10. \A j, k \in 1..n : f[j] = f[k] => j = k  BY <1>4 DEF IsInjective
<1>11. \A k \in 1..n : f[k] \in S  BY <1>4
<1> QED  BY <1>3, <1>8, <1>9, <1>10, <1>11

-----------------------------------------------------------------------------
(* The remainder of a division, for counters that wrap.                    *)

LEMMA ModSmall ==
    ASSUME NEW m \in Nat \ {0}, NEW r \in 0..(m - 1)
    PROVE  r % m = r /\ (r - m) % m = r
  OBVIOUS

LEMMA ModMultiple ==
    ASSUME NEW m \in Nat \ {0}, NEW r \in 0..(m - 1), NEW q \in Int
    PROVE  (q * m + r) % m = r
  OBVIOUS

LEMMA ModFact ==
    ASSUME NEW m \in Nat \ {0}, NEW a \in Int
    PROVE  a % m \in 0..(m - 1) /\ \E q \in Int : a = q * m + (a % m)
<1>1. a % m \in 0..(m - 1)  OBVIOUS
<1>2. a \div m \in Int  OBVIOUS
<1>3. a = m * (a \div m) + (a % m)  OBVIOUS
<1>4. PICK q \in Int : q = a \div m  BY <1>2
<1>5. m * q = q * m  OBVIOUS
<1>6. PICK r \in Int : r = a % m  BY <1>1
<1>7. a = q * m + r  BY <1>3, <1>4, <1>5, <1>6
<1>8. a = q * m + (a % m)  BY <1>6, <1>7
<1> QED  BY <1>1, <1>8, Zenon

\* Remainders do not change when a multiple is added.
LEMMA ModPlusMultiple ==
    ASSUME NEW m \in Nat \ {0}, NEW a \in Int, NEW q \in Int
    PROVE  (q * m + a) % m = a % m
<1>1. PICK r \in 0..(m - 1), p \in Int : r = a % m /\ a = p * m + r  BY ModFact
<1>2. q * m + a = (q + p) * m + r  BY <1>1
<1>3. PICK s \in Int : s = q + p  OBVIOUS
<1>4. (s * m + r) % m = r  BY ModMultiple
<1> QED  BY <1>1, <1>2, <1>3, <1>4

\* The difference, and the sum, of what has wrapped is that of what has not.
LEMMA ModDifference ==
    ASSUME NEW m \in Nat \ {0}, NEW a \in Int, NEW b \in Int
    PROVE  ((a % m) - (b % m)) % m = (a - b) % m
<1>1. PICK r \in 0..(m - 1), p \in Int : r = a % m /\ a = p * m + r  BY ModFact
<1>2. PICK s \in 0..(m - 1), q \in Int : s = b % m /\ b = q * m + s  BY ModFact
<1>3. PICK k \in Int, d \in Int : k = p - q /\ d = r - s  OBVIOUS
<1>4. a - b = k * m + d  BY <1>1, <1>2, <1>3
<1>5. (k * m + d) % m = d % m  BY ModPlusMultiple
<1> QED  BY <1>1, <1>2, <1>3, <1>4, <1>5

LEMMA ModSum ==
    ASSUME NEW m \in Nat \ {0}, NEW a \in Int, NEW b \in Int
    PROVE  ((a % m) + b) % m = (a + b) % m
<1>1. PICK r \in 0..(m - 1), p \in Int : r = a % m /\ a = p * m + r  BY ModFact
<1>2. PICK d \in Int : d = r + b  OBVIOUS
<1>3. a + b = p * m + d
  <2>1. PICK x \in Int : x = p * m  OBVIOUS
  <2>2. a = x + r /\ r \in Int  BY <2>1, <1>1
  <2>3. a + b = x + d  BY <2>2, <1>2
  <2> QED  BY <2>1, <2>3
<1>4. (p * m + d) % m = d % m  BY ModPlusMultiple
<1> QED  BY <1>1, <1>2, <1>3, <1>4
=============================================================================
