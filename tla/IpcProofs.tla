------------------------------ MODULE IpcProofs -------------------------------
(***************************************************************************)
(* The kernel's IPC objects, for any finite set of threads of any          *)
(* priorities, any number of mutexes and all sizes.                        *)
(***************************************************************************)
EXTENDS Ipc, ListLemmas

-----------------------------------------------------------------------------
(* Removing threads from a list.                                           *)

KeepNext(l, T, n, x) == IF l[n] \in T THEN x ELSE Append(x, l[n])
IsKept(k, l, T, N) == k = [n \in 0..N |-> IF n = 0 THEN <<>> ELSE KeepNext(l, T, n, k[n - 1])]

\* The recursion of Without has a solution: take the least length for which it has none.
LEMMA KeptExists ==
    ASSUME NEW l, NEW T, NEW N \in Nat
    PROVE  \E k : IsKept(k, l, T, N)
<1> DEFINE Bad == {n \in Nat : ~ \E k : IsKept(k, l, T, n)}
<1>1. SUFFICES ASSUME Bad # {} PROVE FALSE
  OBVIOUS
<1>2. PICK n \in Bad : \A i \in Bad : n <= i  BY <1>1, LeastNatural
<1>3. n \in Nat /\ ~ \E k : IsKept(k, l, T, n)  BY <1>2
<1>4. CASE n = 0
  <2>1. PICK g : g = [i \in 0..0 |-> <<>>]  OBVIOUS
  <2>2. IsKept(g, l, T, 0)
    <3>1. \A i \in 0..0 : i = 0  OBVIOUS
    <3> QED  BY <3>1, <2>1 DEF IsKept
  <2> QED  BY <2>2, <1>3, <1>4
<1>5. CASE n # 0
  <2>1. n - 1 \in Nat /\ ~(n <= n - 1)  BY <1>3, <1>5
  <2>2. n - 1 \notin Bad  BY <2>1, <1>2
  <2>3. PICK k : IsKept(k, l, T, n - 1)  BY <2>1, <2>2
  <2>4. \A i \in 0..(n - 1) : k[i] = IF i = 0 THEN <<>> ELSE KeepNext(l, T, i, k[i - 1])
    BY <2>3 DEF IsKept
  <2>5. PICK g : g = [i \in 0..n |-> IF i = n THEN KeepNext(l, T, n, k[n - 1]) ELSE k[i]]  OBVIOUS
  <2>6. \A i \in 0..(n - 1) : g[i] = k[i] /\ i \in 0..n
    <3>1. \A i \in 0..(n - 1) : i \in 0..n /\ i # n  BY <1>3
    <3> QED  BY <3>1, <2>5
  <2>7. ASSUME NEW i \in 0..n PROVE g[i] = IF i = 0 THEN <<>> ELSE KeepNext(l, T, i, g[i - 1])
    <3>1. CASE i = n
      <4>1. n - 1 \in 0..(n - 1)  BY <1>3, <1>5
      <4>2. g[n - 1] = k[n - 1] /\ g[n] = KeepNext(l, T, n, k[n - 1])  BY <4>1, <3>1, <2>5, <2>6
      <4> QED  BY <4>2, <3>1, <1>5
    <3>2. CASE i # n /\ i = 0
      <4>1. i \in 0..(n - 1)  BY <3>2, <1>3, <1>5
      <4> QED  BY <4>1, <3>2, <2>4, <2>6
    <3>3. CASE i # n /\ i # 0
      <4>1. i \in 0..(n - 1) /\ i - 1 \in 0..(n - 1)  BY <3>3, <1>3
      <4> QED  BY <4>1, <3>3, <2>4, <2>6
    <3> QED  BY <3>1, <3>2, <3>3
  <2>8. g = [i \in 0..n |-> g[i]]  BY <2>5
  <2>9. IsKept(g, l, T, n)  BY <2>7, <2>8 DEF IsKept
  <2> QED  BY <2>9, <1>3
<1> QED  BY <1>4, <1>5

\* What is kept of the first n: f tells where each of it was.
KeptFrom(x, f, l, T, n) ==
    /\ f \in [1..Len(x) -> 1..n]
    /\ \A i, j \in 1..Len(x) : i < j => f[i] < f[j]
    /\ \A i \in 1..Len(x) : x[i] = l[f[i]] /\ l[f[i]] \notin T
    /\ \A j \in 1..n : l[j] \notin T => \E i \in 1..Len(x) : f[i] = j

LEMMA WithoutFrom ==
    ASSUME NEW S, NEW l \in Seq(S), NEW T
    PROVE  Without(l, T) \in Seq(S) /\ \E f : KeptFrom(Without(l, T), f, l, T, Len(l))
<1>0. Len(l) \in Nat  BY LenProperties
<1> DEFINE kept == CHOOSE k : IsKept(k, l, T, Len(l))
<1>1. IsKept(kept, l, T, Len(l))  BY <1>0, KeptExists
<1>2. Without(l, T) = kept[Len(l)]  BY DEF Without, IsKept, KeepNext
<1>3. PICK k : k = kept  OBVIOUS
<1>4. \A n \in 0..Len(l) : k[n] = IF n = 0 THEN <<>> ELSE KeepNext(l, T, n, k[n - 1])
  BY <1>1, <1>3 DEF IsKept
<1> HIDE DEF kept
<1> DEFINE Bad == {n \in 0..Len(l) : ~(k[n] \in Seq(S) /\ \E f : KeptFrom(k[n], f, l, T, n))}
<1>5. Bad = {}
  <2> SUFFICES ASSUME Bad # {} PROVE FALSE
    OBVIOUS
  <2>1. Bad \in SUBSET Nat  BY <1>0
  <2>2. PICK n \in Bad : \A i \in Bad : n <= i  BY <2>1, LeastNatural
  <2>3. n \in 0..Len(l) /\ n \in Nat /\ ~(k[n] \in Seq(S) /\ \E f : KeptFrom(k[n], f, l, T, n))
    BY <2>2, <1>0
  <2>4. CASE n = 0
    <3>1. k[0] = <<>> /\ <<>> \in Seq(S) /\ Len(<<>>) = 0  BY <2>3, <2>4, <1>4
    <3>2. PICK f : f = [i \in 1..0 |-> 0]  OBVIOUS
    <3>3. ~ \E i \in 1..0 : TRUE  OBVIOUS
    <3>4. KeptFrom(k[0], f, l, T, 0)  BY <3>1, <3>2, <3>3 DEF KeptFrom
    <3> QED  BY <3>1, <3>4, <2>3, <2>4
  <2>5. CASE n # 0
    <3>1. n - 1 \in 0..Len(l) /\ ~(n <= n - 1) /\ n \in 1..Len(l)  BY <2>3, <2>5, <1>0
    <3>2. n - 1 \notin Bad  BY <3>1, <2>2
    <3>3. PICK x, y : x = k[n - 1] /\ y = k[n]  OBVIOUS
    <3>4. PICK f : x \in Seq(S) /\ KeptFrom(x, f, l, T, n - 1)  BY <3>1, <3>2, <3>3
    <3>5. y = KeepNext(l, T, n, x) /\ l[n] \in S  BY <3>1, <3>3, <2>3, <2>5, <1>4, ElementOfSeq
    <3>6. /\ f \in [1..Len(x) -> 1..(n - 1)] /\ Len(x) \in Nat
          /\ \A i, j \in 1..Len(x) : i < j => f[i] < f[j]
          /\ \A i \in 1..Len(x) : x[i] = l[f[i]] /\ l[f[i]] \notin T
          /\ \A j \in 1..(n - 1) : l[j] \notin T => \E i \in 1..Len(x) : f[i] = j
      BY <3>4, LenProperties DEF KeptFrom
    <3>7. \A j \in 1..n : j \in 1..(n - 1) \/ j = n  BY <2>3
    <3>8. \A j \in 1..(n - 1) : j \in 1..n /\ j < n  BY <2>3
    <3>9. CASE l[n] \in T
      <4>1. y = x  BY <3>5, <3>9 DEF KeepNext
      <4>2. KeptFrom(y, f, l, T, n)  BY <4>1, <3>6, <3>7, <3>8, <3>9 DEF KeptFrom
      <4> QED  BY <4>1, <4>2, <3>3, <3>4, <2>3
    <3>10. CASE l[n] \notin T
      <4>1. PICK e \in S : e = l[n] /\ y = Append(x, e)  BY <3>5, <3>10 DEF KeepNext
      <4>2. /\ y \in Seq(S) /\ Len(y) = Len(x) + 1 /\ y[Len(x) + 1] = l[n]
            /\ \A i \in 1..Len(x) : y[i] = x[i]
        <5>1. /\ Append(x, e) \in Seq(S) /\ Len(Append(x, e)) = Len(x) + 1
              /\ Append(x, e)[Len(x) + 1] = e /\ \A i \in 1..Len(x) : Append(x, e)[i] = x[i]
          BY <3>4, AppendProperties
        <5> QED  BY <5>1, <4>1
      <4>3. PICK g : g = [i \in 1..(Len(x) + 1) |-> IF i = Len(x) + 1 THEN n ELSE f[i]]  OBVIOUS
      <4>4. \A i \in 1..(Len(x) + 1) : i \in 1..Len(x) \/ i = Len(x) + 1  BY <3>6
      <4>5. \A i \in 1..Len(x) : i \in 1..(Len(x) + 1) /\ i # Len(x) + 1  BY <3>6
      <4>6. Len(x) + 1 \in 1..(Len(x) + 1)  BY <3>6
      <4>7. g[Len(x) + 1] = n /\ \A i \in 1..Len(x) : g[i] = f[i] /\ f[i] \in 1..(n - 1)
        BY <4>3, <4>5, <4>6, <3>6
      <4>8. g \in [1..Len(y) -> 1..n]
        <5>1. \A i \in 1..(Len(x) + 1) : g[i] \in 1..n  BY <4>4, <4>7, <3>1, <3>8, <2>3, <2>5
        <5> QED  BY <5>1, <4>2, <4>3
      <4>9. ASSUME NEW i \in 1..Len(y), NEW j \in 1..Len(y), i < j PROVE g[i] < g[j]
        <5>1. i \in 1..Len(x)  BY <4>9, <4>2, <3>6
        <5>2. CASE j \in 1..Len(x)  BY <5>1, <5>2, <4>7, <4>9, <3>6
        <5>3. CASE j = Len(x) + 1  BY <5>1, <5>3, <4>7, <3>8
        <5> QED  BY <5>2, <5>3, <4>2, <4>4
      <4>10. \A i \in 1..Len(y) : y[i] = l[g[i]] /\ l[g[i]] \notin T
        BY <4>2, <4>4, <4>7, <3>6, <3>10
      <4>11. ASSUME NEW j \in 1..n, l[j] \notin T PROVE \E i \in 1..Len(y) : g[i] = j
        <5>1. CASE j = n  BY <5>1, <4>2, <4>6, <4>7
        <5>2. CASE j \in 1..(n - 1)
          <6>1. PICK i \in 1..Len(x) : f[i] = j  BY <5>2, <4>11, <3>6
          <6> QED  BY <6>1, <4>2, <4>5, <4>7
        <5> QED  BY <5>1, <5>2, <3>7
      <4>12. KeptFrom(y, g, l, T, n)  BY <4>8, <4>9, <4>10, <4>11 DEF KeptFrom
      <4> QED  BY <4>2, <4>12, <3>3, <2>3
    <3> QED  BY <3>9, <3>10
  <2> QED  BY <2>4, <2>5
<1>6. Len(l) \in 0..Len(l)  BY <1>0
<1> QED  BY <1>2, <1>3, <1>5, <1>6

\* x is on the list; nothing is on it twice.
On(l, x) == \E k \in 1..Len(l) : l[k] = x
Once(l) == \A j, k \in 1..Len(l) : l[j] = l[k] => j = k

\* The list without T has the others left, once each.
LEMMA WithoutSeq ==
    ASSUME NEW S, NEW l \in Seq(S), Once(l), NEW T, NEW r, r = Without(l, T)
    PROVE  r \in Seq(S) /\ Once(r) /\ \A x : On(r, x) <=> On(l, x) /\ x \notin T
<1>1. PICK f : r \in Seq(S) /\ KeptFrom(r, f, l, T, Len(l))  BY WithoutFrom
<1>2. /\ f \in [1..Len(r) -> 1..Len(l)] /\ Len(r) \in Nat /\ Len(l) \in Nat
      /\ \A i, j \in 1..Len(r) : i < j => f[i] < f[j]
      /\ \A i \in 1..Len(r) : r[i] = l[f[i]] /\ l[f[i]] \notin T
      /\ \A j \in 1..Len(l) : l[j] \notin T => \E i \in 1..Len(r) : f[i] = j
  BY <1>1, LenProperties DEF KeptFrom
<1>3. ASSUME NEW i \in 1..Len(r), NEW j \in 1..Len(r), r[i] = r[j] PROVE i = j
  <2>1. l[f[i]] = l[f[j]] /\ f[i] \in 1..Len(l) /\ f[j] \in 1..Len(l)  BY <1>2, <1>3
  <2>2. f[i] = f[j]  BY <2>1 DEF Once
  <2>3. ~(i < j) /\ ~(j < i)  BY <2>1, <2>2, <1>2
  <2> QED  BY <2>3, <1>2
<1>4. ASSUME NEW x PROVE On(r, x) <=> On(l, x) /\ x \notin T
  <2>1. ASSUME On(r, x) PROVE On(l, x) /\ x \notin T
    <3>1. PICK i \in 1..Len(r) : r[i] = x  BY <2>1 DEF On
    <3>2. f[i] \in 1..Len(l) /\ l[f[i]] = x /\ x \notin T  BY <3>1, <1>2
    <3> QED  BY <3>2 DEF On
  <2>2. ASSUME On(l, x), x \notin T PROVE On(r, x)
    <3>1. PICK j \in 1..Len(l) : l[j] = x  BY <2>2 DEF On
    <3>2. PICK i \in 1..Len(r) : f[i] = j  BY <3>1, <2>2, <1>2
    <3>3. r[i] = x  BY <3>1, <3>2, <1>2
    <3> QED  BY <3>3 DEF On
  <2> QED  BY <2>1, <2>2
<1> QED  BY <1>1, <1>3, <1>4 DEF Once

LEMMA PlaceIs ==
    ASSUME NEW l \in Seq(Thread), NEW t \in Thread
    PROVE  Place(l, t) \in 1..(Len(l) + 1)
<1> DEFINE behind == {n \in 1..Len(l) : flag = "PRIO" /\ prio[t] < prio[l[n]]}
<1>1. Len(l) \in Nat  BY LenProperties
<1>2. CASE behind = {}
  <2>1. Place(l, t) = Len(l) + 1  BY <1>2 DEF Place
  <2> QED  BY <2>1, <1>1
<1>3. CASE behind # {}
  <2>1. Place(l, t) = CHOOSE n \in behind : \A k \in behind : n <= k  BY <1>3 DEF Place
  <2>2. behind \in SUBSET Nat  BY <1>1
  <2>3. \E n \in behind : \A k \in behind : n <= k  BY <2>2, <1>3, LeastNatural
  <2>4. Place(l, t) \in behind  BY <2>1, <2>3
  <2>5. Place(l, t) \in 1..Len(l)  BY <2>4
  <2> QED  BY <2>5, <1>1
<1> QED  BY <1>2, <1>3

\* Where the others are then.
LEMMA InsertedFrom ==
    ASSUME NEW l \in Seq(Thread), NEW t \in Thread, NEW n \in 1..(Len(l) + 1), NEW r,
           r = InsertAt(l, n, t), NEW k \in 1..Len(r), k # n
    PROVE  \E i \in 1..Len(l) : k = (IF i < n THEN i ELSE i + 1) /\ r[k] = l[i]
<1>1. /\ Len(r) = Len(l) + 1
      /\ \A i \in 1..Len(l) : r[IF i < n THEN i ELSE i + 1] = l[i]
  BY InsertedIs
<1>2. Len(l) \in Nat  BY LenProperties
<1>3. CASE k < n
  <2>1. k \in 1..Len(l) /\ k < n  BY <1>1, <1>2, <1>3
  <2>2. r[k] = l[k]  BY <2>1, <1>1
  <2> QED  BY <2>1, <2>2
<1>4. CASE k > n
  <2>1. k - 1 \in 1..Len(l) /\ ~(k - 1 < n) /\ k = (k - 1) + 1  BY <1>1, <1>2, <1>4
  <2>2. r[(k - 1) + 1] = l[k - 1]  BY <2>1, <1>1
  <2> QED  BY <2>1, <2>2
<1> QED  BY <1>1, <1>2, <1>3, <1>4

\* A thread that is not on the list is on it then, with the others, once.
LEMMA InsertedSeq ==
    ASSUME NEW l \in Seq(Thread), Once(l), NEW t \in Thread, ~On(l, t), NEW r, r = Inserted(l, t)
    PROVE  r \in Seq(Thread) /\ Once(r) /\ \A x : On(r, x) <=> x = t \/ On(l, x)
<1>1. PICK n \in 1..(Len(l) + 1) : n = Place(l, t)  BY PlaceIs
<1>2. r = InsertAt(l, n, t)  BY <1>1 DEF Inserted, InsertAt
<1>3. /\ r \in Seq(Thread) /\ Len(r) = Len(l) + 1 /\ r[n] = t
      /\ \A k \in 1..Len(l) : r[IF k < n THEN k ELSE k + 1] = l[k]
  BY <1>2, InsertedIs
<1>4. Len(l) \in Nat  BY LenProperties
<1>5. \A k \in 1..Len(r) : k # n =>
          \E i \in 1..Len(l) : k = (IF i < n THEN i ELSE i + 1) /\ r[k] = l[i]
  BY <1>2, InsertedFrom
<1>6. \A k \in 1..Len(l) : (IF k < n THEN k ELSE k + 1) \in 1..Len(r)  BY <1>1, <1>3, <1>4
<1>7. n \in 1..Len(r)  BY <1>1, <1>3
<1>8. ASSUME NEW i \in 1..Len(r), NEW j \in 1..Len(r), r[i] = r[j] PROVE i = j
  <2>1. CASE i = n /\ j = n  BY <2>1
  <2>2. CASE i # n /\ j # n
    <3>1. PICK a \in 1..Len(l) : i = (IF a < n THEN a ELSE a + 1) /\ r[i] = l[a]  BY <2>2, <1>5
    <3>2. PICK b \in 1..Len(l) : j = (IF b < n THEN b ELSE b + 1) /\ r[j] = l[b]  BY <2>2, <1>5
    <3>3. a = b  BY <3>1, <3>2, <1>8 DEF Once
    <3> QED  BY <3>1, <3>2, <3>3
  <2>3. CASE i = n /\ j # n
    <3>1. PICK b \in 1..Len(l) : r[j] = l[b]  BY <2>3, <1>5
    <3> QED  BY <3>1, <2>3, <1>3, <1>8 DEF On
  <2>4. CASE i # n /\ j = n
    <3>1. PICK b \in 1..Len(l) : r[i] = l[b]  BY <2>4, <1>5
    <3> QED  BY <3>1, <2>4, <1>3, <1>8 DEF On
  <2> QED  BY <2>1, <2>2, <2>3, <2>4
<1>9. ASSUME NEW x PROVE On(r, x) <=> x = t \/ On(l, x)
  <2>1. ASSUME On(r, x), x # t PROVE On(l, x)
    <3>1. PICK k \in 1..Len(r) : r[k] = x  BY <2>1 DEF On
    <3>2. k # n  BY <3>1, <2>1, <1>3
    <3>3. PICK i \in 1..Len(l) : r[k] = l[i]  BY <3>2, <1>5
    <3> QED  BY <3>1, <3>3 DEF On
  <2>2. ASSUME On(l, x) PROVE On(r, x)
    <3>1. PICK k \in 1..Len(l) : l[k] = x  BY <2>2 DEF On
    <3>2. PICK i \in 1..Len(r) : i = IF k < n THEN k ELSE k + 1  BY <1>6
    <3>3. r[i] = x  BY <3>1, <3>2, <1>3
    <3> QED  BY <3>3 DEF On
  <2>3. On(r, t)  BY <1>3, <1>7 DEF On
  <2> QED  BY <2>1, <2>2, <2>3
<1> QED  BY <1>3, <1>8, <1>9 DEF Once

-----------------------------------------------------------------------------
(* The suspend lists.                                                      *)

\* A caller in the call c waits on list l when it is suspended.
WaitsOn(c, l) ==
    \/ c.op = "sem_take" /\ l = "sem"
    \/ c.op = "mutex_take" /\ l = c.m
    \/ c.op = "event_recv" /\ l = "event"
    \/ c.op = "mb_send" /\ l = "mb_senders"
    \/ c.op = "mb_recv" /\ l = "mb"
    \/ c.op = "mq_recv" /\ l = "mq"

Shapes ==
    /\ stat \in [Thread -> {"READY", "SUSPEND"}]
    /\ error \in [Thread -> {"EOK", "ERROR"}]
    /\ timer \in [Thread -> BOOLEAN]
    /\ call = [c \in Callers |-> call[c]]
    /\ wait \in [Lists -> Seq(Thread)]

\* The lists have the suspended threads, each on the list of the object its call is about,
\* and no error is with a thread as long as it is suspended.
ListInv ==
    /\ Shapes
    /\ \A l \in Lists : Once(wait[l])
    /\ \A l \in Lists, t \in Thread :
          On(wait[l], t) <=> (stat[t] = "SUSPEND" /\ WaitsOn(call[t], l))
    /\ \A t \in Thread : stat[t] = "SUSPEND" => error[t] = "EOK" /\ \E l \in Lists : WaitsOn(call[t], l)
    /\ \A t \in Thread : timer[t] => stat[t] = "SUSPEND"

\* The caller suspends itself.
LEMMA SuspendKeeps ==
    ASSUME ListInv, NEW t \in Thread, NEW l \in Lists, NEW c, NEW time,
           stat[t] = "READY", WaitsOn(c, l), Suspend(t, l, c, time)
    PROVE  ListInv'
<1>1. ~On(wait[l], t) /\ wait[l] \in Seq(Thread) /\ Once(wait[l])  BY DEF ListInv, Shapes
<1>2. PICK r : r = Inserted(wait[l], t)  OBVIOUS
<1>3. r \in Seq(Thread) /\ Once(r) /\ \A x : On(r, x) <=> x = t \/ On(wait[l], x)
  BY <1>1, <1>2, InsertedSeq
<1>4. wait' = [wait EXCEPT ![l] = r]  BY <1>2 DEF Suspend
<1>5. /\ wait' \in [Lists -> Seq(Thread)] /\ wait'[l] = r
      /\ \A k \in Lists : k # l => wait'[k] = wait[k]
  BY <1>3, <1>4 DEF ListInv, Shapes
<1>6. t \in Callers /\ \A x \in Thread : x \in Callers  BY DEF Callers
<1>7. /\ stat' \in [Thread -> {"READY", "SUSPEND"}] /\ error' \in [Thread -> {"EOK", "ERROR"}]
      /\ stat'[t] = "SUSPEND" /\ error'[t] = "EOK" /\ call'[t] = c
      /\ \A x \in Thread : x # t => stat'[x] = stat[x] /\ error'[x] = error[x]
  BY <1>6 DEF ListInv, Shapes, Suspend
<1>8. call' = [x \in Callers |-> call'[x]] /\ \A x \in Callers : x # t => call'[x] = call[x]
  BY <1>6 DEF ListInv, Shapes, Suspend
<1>9. timer' \in [Thread -> BOOLEAN] /\ \A x \in Thread : x # t => timer'[x] = timer[x]
  <2>1. timer \in [Thread -> BOOLEAN] /\ (time = "ticks") \in BOOLEAN  BY DEF ListInv, Shapes
  <2>2. timer' = [timer EXCEPT ![t] = (time = "ticks")]  BY DEF Suspend
  <2> QED  BY <2>1, <2>2, Zenon
<1>10. Shapes'  BY <1>5, <1>7, <1>8, <1>9 DEF Shapes
<1>11. \A k \in Lists : Once(wait'[k])  BY <1>3, <1>5 DEF ListInv
<1>12. ASSUME NEW k \in Lists, NEW x \in Thread
       PROVE  On(wait'[k], x) <=> (stat'[x] = "SUSPEND" /\ WaitsOn(call'[x], k))
  <2>1. On(wait[k], x) <=> (stat[x] = "SUSPEND" /\ WaitsOn(call[x], k))  BY DEF ListInv
  <2>2. CASE x # t
    <3>1. stat'[x] = stat[x] /\ call'[x] = call[x]  BY <2>2, <1>6, <1>7, <1>8
    <3>2. On(wait'[k], x) <=> On(wait[k], x)
      <4>1. CASE k = l  BY <4>1, <2>2, <1>3, <1>5
      <4>2. CASE k # l  BY <4>2, <1>5
      <4> QED  BY <4>1, <4>2
    <3> QED  BY <3>1, <3>2, <2>1
  <2>3. CASE x = t
    <3>1. CASE k = l  BY <3>1, <2>3, <1>3, <1>5, <1>7
    <3>2. CASE k # l
      <4>1. ~WaitsOn(c, k)  BY <3>2 DEF WaitsOn
      <4>2. ~On(wait'[k], x)  BY <3>2, <2>1, <2>3, <1>5
      <4> QED  BY <4>1, <4>2, <2>3, <1>7
    <3> QED  BY <3>1, <3>2
  <2> QED  BY <2>2, <2>3
<1>13. ASSUME NEW x \in Thread, stat'[x] = "SUSPEND"
       PROVE  error'[x] = "EOK" /\ \E k \in Lists : WaitsOn(call'[x], k)
  <2>1. CASE x = t  BY <2>1, <1>7
  <2>2. CASE x # t
    <3>1. stat[x] = "SUSPEND" /\ error'[x] = error[x] /\ call'[x] = call[x]
      BY <2>2, <1>6, <1>7, <1>8, <1>13
    <3> QED  BY <3>1 DEF ListInv
  <2> QED  BY <2>1, <2>2
<1>14. ASSUME NEW x \in Thread, timer'[x] PROVE stat'[x] = "SUSPEND"
  <2>1. CASE x = t  BY <2>1, <1>7
  <2>2. CASE x # t  BY <2>2, <1>7, <1>9, <1>14 DEF ListInv
  <2> QED  BY <2>1, <2>2
<1> QED  BY <1>10, <1>11, <1>12, <1>13, <1>14 DEF ListInv

\* A step leaves the calls and the errors of the threads suspended alone, but for T.
Spares(T) ==
    /\ call' = [c \in Callers |-> call'[c]] /\ error' \in [Thread -> {"EOK", "ERROR"}]
    /\ \A t \in Thread : stat[t] = "SUSPEND" /\ t \notin T => call'[t] = call[t] /\ error'[t] = error[t]

\* The threads of T are resumed.
LEMMA WakeKeeps ==
    ASSUME ListInv, NEW T, Wake(T), Spares(T)
    PROVE  ListInv'
<1>1. /\ stat' \in [Thread -> {"READY", "SUSPEND"}]
      /\ \A x \in Thread : stat'[x] = IF x \in T THEN "READY" ELSE stat[x]
  BY DEF Wake, ListInv, Shapes
<1>2. timer' \in [Thread -> BOOLEAN] /\ \A x \in Thread : timer'[x] => timer[x] /\ x \notin T
  <2>1. timer' = [t \in Thread |-> timer[t] /\ t \notin T]  BY DEF Wake
  <2>2. \A t \in Thread : (timer[t] /\ t \notin T) \in BOOLEAN  OBVIOUS
  <2> QED  BY <2>1, <2>2, Zenon
<1>3. ASSUME NEW l \in Lists
      PROVE  /\ wait'[l] \in Seq(Thread) /\ Once(wait'[l])
             /\ \A x : On(wait'[l], x) <=> On(wait[l], x) /\ x \notin T
  <2>1. PICK r : r = Without(wait[l], T)  OBVIOUS
  <2>2. wait'[l] = r  BY <2>1 DEF Wake
  <2>3. wait[l] \in Seq(Thread) /\ Once(wait[l])  BY DEF ListInv, Shapes
  <2>4. r \in Seq(Thread) /\ Once(r) /\ \A x : On(r, x) <=> On(wait[l], x) /\ x \notin T
    BY <2>1, <2>3, WithoutSeq
  <2> QED  BY <2>2, <2>4
<1>4. wait' \in [Lists -> Seq(Thread)]
  <2>1. wait' = [l \in Lists |-> wait'[l]]
    <3>1. wait' = [l \in Lists |-> Without(wait[l], T)]  BY DEF Wake
    <3> QED  BY <3>1
  <2> QED  BY <2>1, <1>3
<1>5. Shapes'  BY <1>1, <1>2, <1>4 DEF Spares, Shapes
<1>6. ASSUME NEW l \in Lists, NEW x \in Thread
      PROVE  On(wait'[l], x) <=> (stat'[x] = "SUSPEND" /\ WaitsOn(call'[x], l))
  <2>1. On(wait[l], x) <=> (stat[x] = "SUSPEND" /\ WaitsOn(call[x], l))  BY DEF ListInv
  <2>2. CASE x \in T  BY <2>2, <1>1, <1>3
  <2>3. CASE x \notin T
    <3>1. stat'[x] = stat[x] /\ (On(wait'[l], x) <=> On(wait[l], x))  BY <2>3, <1>1, <1>3
    <3>2. stat[x] = "SUSPEND" => call'[x] = call[x]  BY <2>3 DEF Spares
    <3> QED  BY <3>1, <3>2, <2>1
  <2> QED  BY <2>2, <2>3
<1>7. ASSUME NEW x \in Thread, stat'[x] = "SUSPEND"
      PROVE  error'[x] = "EOK" /\ \E l \in Lists : WaitsOn(call'[x], l)
  <2>1. x \notin T /\ stat[x] = "SUSPEND"  BY <1>1, <1>7
  <2>2. call'[x] = call[x] /\ error'[x] = error[x]  BY <2>1 DEF Spares
  <2> QED  BY <2>1, <2>2 DEF ListInv
<1>8. ASSUME NEW x \in Thread, timer'[x] PROVE stat'[x] = "SUSPEND"
  <2>1. timer[x] /\ x \notin T  BY <1>2, <1>8
  <2>2. stat[x] = "SUSPEND"  BY <2>1 DEF ListInv
  <2> QED  BY <2>1, <2>2, <1>1
<1>9. \A l \in Lists : Once(wait'[l])  BY <1>3
<1> QED  BY <1>5, <1>6, <1>7, <1>8, <1>9 DEF ListInv

\* Nobody is suspended or resumed.
LEMMA SameKeeps ==
    ASSUME ListInv, UNCHANGED <<stat, timer, wait>>, Spares({})
    PROVE  ListInv'
<1>1. Shapes'  BY DEF ListInv, Shapes, Spares
<1>2. ASSUME NEW l \in Lists, NEW x \in Thread
      PROVE  On(wait'[l], x) <=> (stat'[x] = "SUSPEND" /\ WaitsOn(call'[x], l))
  <2>1. On(wait[l], x) <=> (stat[x] = "SUSPEND" /\ WaitsOn(call[x], l))  BY DEF ListInv
  <2>2. stat[x] = "SUSPEND" => call'[x] = call[x]  BY DEF Spares
  <2> QED  BY <2>1, <2>2
<1>3. ASSUME NEW x \in Thread, stat'[x] = "SUSPEND"
      PROVE  error'[x] = "EOK" /\ \E l \in Lists : WaitsOn(call'[x], l)
  <2>1. stat[x] = "SUSPEND" /\ call'[x] = call[x] /\ error'[x] = error[x]  BY <1>3 DEF Spares
  <2> QED  BY <2>1 DEF ListInv
<1> QED  BY <1>1, <1>2, <1>3 DEF ListInv

-----------------------------------------------------------------------------
(* What the kinds share.                                                   *)

EventCalls == [op : {"event_recv"}, set : SUBSET Bits, all : BOOLEAN, clear : BOOLEAN]

\* The calls of a behaviour are about objects of its kind.
Fits(c) ==
    \/ c.op = "none"
    \/ kind = "sem" /\ c.op = "sem_take"
    \/ kind = "mutex" /\ c.op = "mutex_take" /\ c.m \in Mutex
    \/ kind = "event" /\ c \in EventCalls
    \/ kind = "mb" /\ c.op \in {"mb_send", "mb_recv"}
    \/ kind = "mq" /\ c.op \in {"mq_recv", "mq_link", "mq_free"}

\* The objects of the other kinds are as they were made.
Others ==
    /\ kind # "sem" => InitSem
    /\ kind # "mutex" => InitMutex /\ prio = Prio
    /\ kind # "event" => InitEvent
    /\ kind # "mb" => InitMb /\ last = 0
    /\ kind # "mq" => InitMq /\ queue = <<>>
    /\ kind \notin {"mb", "mq"} => sent = 0

Core ==
    /\ kind \in {"sem", "mutex", "event", "mb", "mq"}
    /\ ListInv
    /\ \A c \in Callers : Fits(call[c])
    /\ Others

LEMMA InitCore == Init => Core
<1> SUFFICES ASSUME Init PROVE Core
  OBVIOUS
<1>1. Others  BY DEF Init, InitThreads, InitSync, InitSem, InitMutex, InitEvent, InitMail, Others
<1>2. \A c \in Callers : call[c] = [op |-> "none"]  BY DEF Init, InitThreads, NoCall
<1>3. \A c \in Callers : Fits(call[c])  BY <1>2 DEF Fits
<1>4. Shapes
  <2>1. timer \in [Thread -> BOOLEAN]  BY DEF Init, InitThreads
  <2>2. call = [c \in Callers |-> call[c]]  BY DEF Init, InitThreads
  <2>3. wait \in [Lists -> Seq(Thread)]  BY EmptySeq DEF Init, InitThreads
  <2> QED  BY <2>1, <2>2, <2>3 DEF Init, InitThreads, Shapes
<1>5. ListInv
  <2>1. \A l \in Lists : wait[l] = <<>>  BY DEF Init, InitThreads
  <2>2. \A k : k \notin 1..Len(<<>>)  BY EmptySeq
  <2>3. \A l \in Lists : Once(wait[l]) /\ \A t \in Thread : ~On(wait[l], t)  BY <2>1, <2>2 DEF Once, On
  <2>4. \A t \in Thread : stat[t] = "READY" /\ ~timer[t]  BY DEF Init, InitThreads
  <2> QED  BY <2>3, <2>4, <1>4 DEF ListInv
<1> QED  BY <1>1, <1>3, <1>5 DEF Core, Init, InitThreads

\* The steps of a behaviour, by kind.
SemNext ==
    \/ \E c \in Callers, time \in Times : SemTake(c, time)
    \/ \E t \in Thread : SemTaken(t)
    \/ \E c \in Callers : SemRelease(c)
    \/ \E c \in Callers, v \in {0, 1} : SemReset(c, v)

MutexNext ==
    \/ \E t \in Thread, m \in Mutex, time \in Times : MutexTake(t, m, time)
    \/ \E t \in Thread : MutexTaken(t)
    \/ \E t \in Thread, m \in Mutex : MutexRelease(t, m)

EventNext ==
    \/ \E t \in Thread, s \in SUBSET Bits, all, clear \in BOOLEAN, time \in Times :
           EventRecv(t, s, all, clear, time)
    \/ \E t \in Thread : EventReceived(t)
    \/ \E c \in Callers, s \in SUBSET Bits : EventSend(c, s)
    \/ \E c \in Callers : EventReset(c)

MbNext ==
    \/ \E c \in Callers, time \in Times : MbSend(c, time)
    \/ \E t \in Thread : MbSendResumed(t)
    \/ \E c \in Callers, time \in Times : MbRecv(c, time)
    \/ \E t \in Thread : MbRecvResumed(t)
    \/ \E c \in Callers : MbReset(c)

MqNext ==
    \/ \E c \in Callers, urgent \in BOOLEAN : MqSend(c, urgent)
    \/ \E c \in Callers : MqLink(c)
    \/ \E c \in Callers, time \in Times : MqRecv(c, time)
    \/ \E t \in Thread : MqRecvResumed(t)
    \/ \E c \in Callers : MqFree(c)
    \/ \E c \in Callers : MqReset(c)

\* A thread that is in no call that waits is not suspended.
LEMMA CallerReady ==
    ASSUME ListInv, NEW t \in Thread,
           call[t].op \notin {"sem_take", "mutex_take", "event_recv", "mb_send", "mb_recv", "mq_recv"}
    PROVE  stat[t] = "READY"
  BY DEF ListInv, Shapes, WaitsOn

LEMMA CallsFit ==
    ASSUME Core, NEW c \in Callers
    PROVE  /\ call[c].op = "sem_take" => kind = "sem"
           /\ call[c].op = "mutex_take" => kind = "mutex" /\ call[c].m \in Mutex
           /\ call[c].op = "event_recv" => kind = "event" /\ call[c] \in EventCalls
           /\ call[c].op \in {"mb_send", "mb_recv"} => kind = "mb"
           /\ call[c].op \in {"mq_recv", "mq_link", "mq_free"} => kind = "mq"
<1>1. Fits(call[c])  BY DEF Core
<1>2. call[c] \in EventCalls => call[c].op = "event_recv"  BY DEF EventCalls
<1> QED  BY <1>1, <1>2 DEF Fits

LEMMA NextByKind ==
    ASSUME Core, Next
    PROVE  \/ kind = "sem" /\ SemNext /\ UNCHANGED <<kind, flag, mailVars>>
           \/ kind = "mutex" /\ MutexNext /\ UNCHANGED <<kind, flag, mailVars>>
           \/ kind = "event" /\ EventNext /\ UNCHANGED <<kind, flag, mailVars>>
           \/ kind = "mb" /\ MbNext /\ UNCHANGED <<kind, flag, syncVars>>
           \/ kind = "mq" /\ MqNext /\ UNCHANGED <<kind, flag, syncVars>>
           \/ \E t \in Thread : Timeout(t) /\ UNCHANGED <<syncVars, mailVars>>
<1>0. \A t \in Thread : t \in Callers  BY DEF Callers
<1>1. ASSUME NextSync
      PROVE  (kind = "sem" /\ SemNext) \/ (kind = "mutex" /\ MutexNext) \/ (kind = "event" /\ EventNext)
  <2>1. ASSUME NEW c \in Callers, NEW time \in Times, SemTake(c, time) PROVE kind = "sem"
    BY <2>1 DEF SemTake
  <2>2. ASSUME NEW t \in Thread, SemTaken(t) PROVE kind = "sem"
    <3>1. call[t].op = "sem_take"  BY <2>2 DEF SemTaken, Resumed
    <3> QED  BY <3>1, <1>0, CallsFit
  <2>3. ASSUME NEW c \in Callers, SemRelease(c) PROVE kind = "sem"
    BY <2>3 DEF SemRelease
  <2>4. ASSUME NEW c \in Callers, NEW v \in {0, 1}, SemReset(c, v) PROVE kind = "sem"
    BY <2>4 DEF SemReset
  <2>5. ASSUME NEW t \in Thread, NEW m \in Mutex, NEW time \in Times, MutexTake(t, m, time)
        PROVE  kind = "mutex"
    BY <2>5 DEF MutexTake
  <2>6. ASSUME NEW t \in Thread, MutexTaken(t) PROVE kind = "mutex"
    <3>1. call[t].op = "mutex_take"  BY <2>6 DEF MutexTaken, Resumed
    <3> QED  BY <3>1, <1>0, CallsFit
  <2>7. ASSUME NEW t \in Thread, NEW m \in Mutex, MutexRelease(t, m) PROVE kind = "mutex"
    BY <2>7 DEF MutexRelease
  <2>8. ASSUME NEW t \in Thread, NEW s \in SUBSET Bits, NEW all \in BOOLEAN, NEW clear \in BOOLEAN,
               NEW time \in Times, EventRecv(t, s, all, clear, time)
        PROVE  kind = "event"
    BY <2>8 DEF EventRecv
  <2>9. ASSUME NEW t \in Thread, EventReceived(t) PROVE kind = "event"
    <3>1. call[t].op = "event_recv"  BY <2>9 DEF EventReceived, Resumed
    <3> QED  BY <3>1, <1>0, CallsFit
  <2>10. ASSUME NEW c \in Callers, NEW s \in SUBSET Bits, EventSend(c, s) PROVE kind = "event"
    BY <2>10 DEF EventSend
  <2>11. ASSUME NEW c \in Callers, EventReset(c) PROVE kind = "event"
    BY <2>11 DEF EventReset
  <2>12. ASSUME SemNext PROVE kind = "sem"  BY <2>1, <2>2, <2>3, <2>4, <2>12 DEF SemNext
  <2>13. ASSUME MutexNext PROVE kind = "mutex"  BY <2>5, <2>6, <2>7, <2>13 DEF MutexNext
  <2>14. ASSUME EventNext PROVE kind = "event"  BY <2>8, <2>9, <2>10, <2>11, <2>14 DEF EventNext
  <2>15. SemNext \/ MutexNext \/ EventNext  BY <1>1 DEF NextSync, SemNext, MutexNext, EventNext
  <2> QED  BY <2>12, <2>13, <2>14, <2>15
<1>2. ASSUME NextMail
      PROVE  (kind = "mb" /\ MbNext) \/ (kind = "mq" /\ MqNext)
  <2>1. ASSUME NEW c \in Callers, NEW time \in Times, MbSend(c, time) PROVE kind = "mb"
    BY <2>1 DEF MbSend
  <2>2. ASSUME NEW t \in Thread, MbSendResumed(t) PROVE kind = "mb"
    <3>1. call[t].op = "mb_send"  BY <2>2 DEF MbSendResumed, Resumed
    <3> QED  BY <3>1, <1>0, CallsFit
  <2>3. ASSUME NEW c \in Callers, NEW time \in Times, MbRecv(c, time) PROVE kind = "mb"
    BY <2>3 DEF MbRecv
  <2>4. ASSUME NEW t \in Thread, MbRecvResumed(t) PROVE kind = "mb"
    <3>1. call[t].op = "mb_recv"  BY <2>4 DEF MbRecvResumed, Resumed
    <3> QED  BY <3>1, <1>0, CallsFit
  <2>5. ASSUME NEW c \in Callers, MbReset(c) PROVE kind = "mb"
    BY <2>5 DEF MbReset
  <2>6. ASSUME NEW c \in Callers, NEW urgent \in BOOLEAN, MqSend(c, urgent) PROVE kind = "mq"
    BY <2>6 DEF MqSend
  <2>7. ASSUME NEW c \in Callers, MqLink(c) PROVE kind = "mq"
    <3>1. call[c].op = "mq_link"  BY <2>7 DEF MqLink
    <3> QED  BY <3>1, CallsFit
  <2>8. ASSUME NEW c \in Callers, NEW time \in Times, MqRecv(c, time) PROVE kind = "mq"
    BY <2>8 DEF MqRecv
  <2>9. ASSUME NEW t \in Thread, MqRecvResumed(t) PROVE kind = "mq"
    <3>1. call[t].op = "mq_recv"  BY <2>9 DEF MqRecvResumed, Resumed
    <3> QED  BY <3>1, <1>0, CallsFit
  <2>10. ASSUME NEW c \in Callers, MqFree(c) PROVE kind = "mq"
    <3>1. call[c].op = "mq_free"  BY <2>10 DEF MqFree
    <3> QED  BY <3>1, CallsFit
  <2>11. ASSUME NEW c \in Callers, MqReset(c) PROVE kind = "mq"
    BY <2>11 DEF MqReset
  <2>12. ASSUME MbNext PROVE kind = "mb"  BY <2>1, <2>2, <2>3, <2>4, <2>5, <2>12 DEF MbNext
  <2>13. ASSUME MqNext PROVE kind = "mq"  BY <2>6, <2>7, <2>8, <2>9, <2>10, <2>11, <2>13 DEF MqNext
  <2>14. MbNext \/ MqNext  BY <1>2 DEF NextMail, MbNext, MqNext
  <2> QED  BY <2>12, <2>13, <2>14
<1> QED  BY <1>1, <1>2 DEF Next

LEMMA EmptyList ==
    ASSUME NEW S, NEW l \in Seq(S)
    PROVE  /\ l = <<>> <=> \A x \in S : ~On(l, x)
           /\ l # <<>> => Head(l) \in S /\ On(l, Head(l)) /\ Head(l) = l[1] /\ 1 \in 1..Len(l)
<1>1. CASE l = <<>>
  <2>1. \A k : k \notin 1..Len(<<>>)  BY EmptySeq
  <2> QED  BY <2>1, <1>1 DEF On
<1>2. CASE l # <<>>
  <2>1. Len(l) \in Nat /\ Len(l) # 0  BY <1>2, EmptySeq, LenProperties
  <2>2. 1 \in 1..Len(l)  BY <2>1
  <2>3. Head(l) = l[1] /\ l[1] \in S  BY <2>2, <1>2, ElementOfSeq, HeadTailProperties
  <2> QED  BY <2>2, <2>3, <1>2 DEF On
<1> QED  BY <1>1, <1>2

\* What resuming does to the lists and to the threads.
LEMMA WakeLists ==
    ASSUME ListInv, NEW T, Wake(T)
    PROVE  /\ \A l \in Lists : wait'[l] # <<>> => wait[l] # <<>>
           /\ \A l \in Lists : \A x \in Thread : On(wait'[l], x) <=> On(wait[l], x) /\ x \notin T
           /\ \A l \in Lists : wait'[l] \in Seq(Thread)
           /\ \A x \in Thread : stat'[x] = IF x \in T THEN "READY" ELSE stat[x]
<1>1. ASSUME NEW l \in Lists
      PROVE  /\ wait'[l] # <<>> => wait[l] # <<>>
             /\ wait'[l] \in Seq(Thread)
             /\ \A x \in Thread : On(wait'[l], x) <=> On(wait[l], x) /\ x \notin T
  <2>1. PICK r : r = Without(wait[l], T)  OBVIOUS
  <2>2. wait'[l] = r  BY <2>1 DEF Wake
  <2>3. wait[l] \in Seq(Thread) /\ Once(wait[l])  BY DEF ListInv, Shapes
  <2>4. r \in Seq(Thread) /\ \A x : On(r, x) <=> On(wait[l], x) /\ x \notin T
    BY <2>1, <2>3, WithoutSeq
  <2>5. (r = <<>> <=> \A x \in Thread : ~On(r, x)) /\ (wait[l] = <<>> <=> \A x \in Thread : ~On(wait[l], x))
    BY <2>3, <2>4, EmptyList
  <2> QED  BY <2>2, <2>4, <2>5
<1>2. \A x \in Thread : stat'[x] = IF x \in T THEN "READY" ELSE stat[x]  BY DEF Wake
<1> QED  BY <1>1, <1>2

\* The first of a list is suspended in the call the list is for, and is resumed alone.
LEMMA WakeFirstIs ==
    ASSUME ListInv, NEW l \in Lists, WakeFirst(l)
    PROVE  \/ wait[l] = <<>> /\ Wake({}) /\ \A x \in Thread : stat'[x] = stat[x]
           \/ \E h \in Thread :
                /\ wait[l] # <<>> /\ h = Head(wait[l]) /\ On(wait[l], h)
                /\ stat[h] = "SUSPEND" /\ WaitsOn(call[h], l) /\ error[h] = "EOK"
                /\ Wake({h})
                /\ \A x \in Thread : stat'[x] = IF x = h THEN "READY" ELSE stat[x]
<1>1. CASE wait[l] = <<>>
  <2>1. Wake({})  BY <1>1 DEF WakeFirst
  <2>2. \A x \in Thread : stat'[x] = stat[x]  BY <2>1, WakeLists
  <2> QED  BY <2>1, <2>2, <1>1
<1>2. CASE wait[l] # <<>>
  <2>1. wait[l] \in Seq(Thread)  BY DEF ListInv, Shapes
  <2>2. PICK h \in Thread : h = Head(wait[l]) /\ On(wait[l], h)  BY <2>1, <1>2, EmptyList
  <2>3. stat[h] = "SUSPEND" /\ WaitsOn(call[h], l) /\ error[h] = "EOK"  BY <2>2 DEF ListInv
  <2>4. Wake({h})  BY <2>2, <1>2 DEF WakeFirst
  <2>5. \A x \in Thread : stat'[x] = IF x \in {h} THEN "READY" ELSE stat[x]  BY <2>4, WakeLists
  <2> QED  BY <2>2, <2>3, <2>4, <2>5, <1>2
<1> QED  BY <1>1, <1>2

\* The threads of some lists are suspended, and get an error when they are resumed.
LEMMA WakeAllIs ==
    ASSUME ListInv, NEW L \in SUBSET Lists, WakeAll(L)
    PROVE  \E T \in SUBSET Thread :
              /\ Wake(T) /\ \A x \in Thread : x \in T <=> \E l \in L : On(wait[l], x)
              /\ \A x \in T : stat[x] = "SUSPEND" /\ \E l \in L : WaitsOn(call[x], l)
              /\ error' \in [Thread -> {"EOK", "ERROR"}]
              /\ \A x \in Thread : error'[x] = IF x \in T THEN "ERROR" ELSE error[x]
              /\ \A x \in Thread : stat'[x] = IF x \in T THEN "READY" ELSE stat[x]
              /\ \A l \in L : wait'[l] = <<>>
<1>1. PICK T \in SUBSET Thread :
         T = {t \in Thread : \E l \in L : \E n \in 1..Len(wait[l]) : wait[l][n] = t}  OBVIOUS
<1>2. Wake(T) /\ error' = [t \in Thread |-> IF t \in T THEN "ERROR" ELSE error[t]]
  BY <1>1 DEF WakeAll
<1>3. \A x \in Thread : x \in T <=> \E l \in L : On(wait[l], x)  BY <1>1 DEF On
<1>4. \A x \in T : stat[x] = "SUSPEND" /\ \E l \in L : WaitsOn(call[x], l)  BY <1>3 DEF ListInv
<1>5. error' \in [Thread -> {"EOK", "ERROR"}]  BY <1>2 DEF ListInv, Shapes
<1>6. /\ \A x \in Thread : error'[x] = IF x \in T THEN "ERROR" ELSE error[x]
  BY <1>2
<1>7. /\ \A x \in Thread : stat'[x] = IF x \in T THEN "READY" ELSE stat[x]
      /\ \A l \in Lists : \A x \in Thread : On(wait'[l], x) <=> On(wait[l], x) /\ x \notin T
      /\ \A l \in Lists : wait'[l] \in Seq(Thread)
  BY <1>2, WakeLists
<1>8. ASSUME NEW l \in L PROVE wait'[l] = <<>>
  <2>1. \A x \in Thread : ~On(wait'[l], x)  BY <1>3, <1>7
  <2> QED  BY <2>1, <1>7, EmptyList
<1> QED  BY <1>2, <1>3, <1>4, <1>5, <1>6, <1>7, <1>8

\* The rest of a step that resumes threads, or nobody.
LEMMA WakeFirstKeeps ==
    ASSUME ListInv, NEW l \in Lists, WakeFirst(l), Spares({})
    PROVE  ListInv'
<1>1. CASE Wake({})  BY <1>1, WakeKeeps
<1>2. ASSUME NEW h \in Thread, Wake({h}) PROVE ListInv'
  <2>1. Spares({h})  BY DEF Spares
  <2> QED  BY <2>1, <1>2, WakeKeeps
<1> QED  BY <1>1, <1>2, WakeFirstIs

LEMMA WakeAllKeeps ==
    ASSUME ListInv, NEW L \in SUBSET Lists, WakeAll(L), UNCHANGED call
    PROVE  ListInv'
<1>1. PICK T \in SUBSET Thread :
         /\ Wake(T) /\ error' \in [Thread -> {"EOK", "ERROR"}]
         /\ \A x \in Thread : error'[x] = IF x \in T THEN "ERROR" ELSE error[x]
  BY WakeAllIs
<1>2. Spares(T)  BY <1>1 DEF Spares, ListInv, Shapes
<1> QED  BY <1>1, <1>2, WakeKeeps

\* A step of one caller that is not suspended: its call ends, or goes on.
LEMMA OwnCall ==
    ASSUME ListInv, NEW c \in Callers, c \in Thread => stat[c] = "READY", NEW v,
           call' = [call EXCEPT ![c] = v], UNCHANGED error
    PROVE  Spares({}) /\ call'[c] = v /\ \A x \in Callers : x # c => call'[x] = call[x]
<1>1. /\ call' = [x \in Callers |-> call'[x]] /\ call'[c] = v
      /\ \A x \in Callers : x # c => call'[x] = call[x]
  BY DEF ListInv, Shapes
<1>2. \A x \in Thread : x \in Callers  BY DEF Callers
<1>3. error' \in [Thread -> {"EOK", "ERROR"}]  BY DEF ListInv, Shapes
<1> QED  BY <1>1, <1>2, <1>3 DEF Spares

\* And one that sets only the caller's error.
LEMMA OwnError ==
    ASSUME ListInv, NEW t \in Thread, stat[t] = "READY", NEW e \in {"EOK", "ERROR"},
           error' = [error EXCEPT ![t] = e], UNCHANGED call
    PROVE  Spares({})
  BY DEF ListInv, Shapes, Spares

LEMMA NoOne ==
    ASSUME ListInv, UNCHANGED <<error, call>>
    PROVE  Spares({})
  BY DEF ListInv, Shapes, Spares

\* A timer expires.
LEMMA TimeoutKeeps ==
    ASSUME Core, NEW t \in Thread, Timeout(t), UNCHANGED <<syncVars, mailVars>>
    PROVE  /\ Core'
           /\ stat[t] = "SUSPEND" /\ error'[t] = "ERROR"
           /\ \A x \in Thread : x # t => error'[x] = error[x] /\ stat'[x] = stat[x]
           /\ Wake({t})
<1>1. ListInv /\ Wake({t}) /\ timer[t]  BY DEF Core, Timeout
<1>2. stat[t] = "SUSPEND"  BY <1>1 DEF ListInv
<1>3. /\ error' \in [Thread -> {"EOK", "ERROR"}] /\ error'[t] = "ERROR"
      /\ \A x \in Thread : x # t => error'[x] = error[x]
  BY <1>1 DEF Timeout, ListInv, Shapes
<1>4. UNCHANGED <<prio, call, kind, flag, hist>>  BY DEF Timeout
<1>5. Spares({t})  BY <1>1, <1>3, <1>4 DEF Spares, ListInv, Shapes
<1>6. ListInv'  BY <1>1, <1>5, WakeKeeps
<1>7. \A x \in Thread : x # t => stat'[x] = stat[x]  BY <1>1, WakeLists
<1>8. \A c \in Callers : Fits(call[c])'  BY <1>4 DEF Core, Fits
<1>9. Others'
  BY <1>4 DEF Core, Others, InitSem, InitMutex, InitEvent, InitMb, InitMq, syncVars, mailVars
<1> QED  BY <1>1, <1>2, <1>3, <1>4, <1>6, <1>7, <1>8, <1>9 DEF Core

-----------------------------------------------------------------------------
(* The semaphore.                                                          *)

\* The units of the value and the threads on their way to a unit; and nobody waits while
\* the value is not 0.
SemInv ==
    kind = "sem" =>
        /\ value \in 0..(SemMod - 1) /\ owed \in Int
        /\ wait["sem"] # <<>> => value = 0
        /\ UnitsConserved

LEMMA WellFinite ==
    ASSUME NEW op
    PROVE  IsFiniteSet(ResumedWell(op)) /\ Cardinality(ResumedWell(op)) \in Nat
<1>1. ResumedWell(op) \in SUBSET Thread  BY DEF ResumedWell
<1>2. IsFiniteSet(ResumedWell(op))  BY <1>1, ThreadsAssumption, FS_Subset
<1> QED  BY <1>2, FS_CardinalityType

\* The threads resumed well after a step.
WellThen(t, op) == stat'[t] = "READY" /\ call'[t].op = op /\ error'[t] = "EOK"

\* They are the same, one more or one less.
LEMMA WellSame ==
    ASSUME NEW op, \A t \in Thread : WellThen(t, op) <=> t \in ResumedWell(op)
    PROVE  Cardinality(ResumedWell(op))' = Cardinality(ResumedWell(op))
<1>1. ResumedWell(op)' = ResumedWell(op)  BY DEF ResumedWell, Resumed, WellThen
<1> QED  BY <1>1

LEMMA WellMore ==
    ASSUME NEW op, NEW h \in Thread, h \notin ResumedWell(op),
           \A t \in Thread : WellThen(t, op) <=> t = h \/ t \in ResumedWell(op)
    PROVE  Cardinality(ResumedWell(op))' = Cardinality(ResumedWell(op)) + 1
<1>1. ResumedWell(op)' = ResumedWell(op) \cup {h}  BY DEF ResumedWell, Resumed, WellThen
<1>2. PICK S : S = ResumedWell(op)  OBVIOUS
<1>3. Cardinality(S \cup {h}) = Cardinality(S) + 1  BY <1>2, WellFinite, FS_AddElement
<1> QED  BY <1>1, <1>2, <1>3

LEMMA WellLess ==
    ASSUME NEW op, NEW h \in ResumedWell(op),
           \A t \in Thread : WellThen(t, op) <=> t # h /\ t \in ResumedWell(op)
    PROVE  Cardinality(ResumedWell(op))' = Cardinality(ResumedWell(op)) - 1
<1>1. ResumedWell(op)' = ResumedWell(op) \ {h}  BY DEF ResumedWell, Resumed, WellThen
<1>2. PICK S : S = ResumedWell(op)  OBVIOUS
<1>3. Cardinality(S \ {h}) = Cardinality(S) - 1  BY <1>2, WellFinite, FS_RemoveElement
<1> QED  BY <1>1, <1>2, <1>3

\* A step about a semaphore leaves the rest alone.
LEMMA SemCore ==
    ASSUME Core, kind = "sem", UNCHANGED <<kind, prio, mutex, held, events, mailVars>>, ListInv',
           \A c \in Callers : \/ call'[c] = call[c]
                              \/ call'[c].op \in {"none", "sem_take"}
    PROVE  Core'
<1>1. Others'  BY DEF Core, Others, InitMutex, InitEvent, InitMb, InitMq, mailVars
<1>2. \A c \in Callers : Fits(call[c])'  BY DEF Core, Fits
<1> QED  BY <1>1, <1>2 DEF Core

LEMMA SemTakeKeeps ==
    ASSUME Core, SemInv, kind = "sem", UNCHANGED <<kind, flag, mailVars>>,
           NEW c \in Callers, NEW time \in Times, SemTake(c, time)
    PROVE  Core' /\ SemInv'
<1>1. ListInv /\ call[c].op = "none" /\ (c = Isr => time = "none")  BY DEF Core, SemTake, Idle, Allowed
<1>2. value \in 0..(SemMod - 1) /\ owed \in Int /\ (wait["sem"] # <<>> => value = 0) /\ UnitsConserved
  BY DEF SemInv
<1>3. SemMod \in Nat  BY SyncAssumption
<1>4. UNCHANGED <<mutex, held, events, hist>>  BY DEF SemTake
<1>5. Cardinality(ResumedWell("sem_take")) \in Nat  BY WellFinite
<1>6. CASE value > 0 /\ value' = value - 1 /\ owed' = owed - 1 /\ UNCHANGED threadVars
  <2>1. UNCHANGED <<stat, error, timer, prio, call, wait>>  BY <1>6 DEF threadVars
  <2>2. ListInv'  BY <2>1, <1>1, SameKeeps, NoOne
  <2>3. Core'  BY <2>1, <2>2, <1>4, SemCore
  <2>4. Cardinality(ResumedWell("sem_take"))' = Cardinality(ResumedWell("sem_take"))
    <3>1. \A t \in Thread : WellThen(t, "sem_take") <=> t \in ResumedWell("sem_take")
      BY <2>1 DEF WellThen, ResumedWell, Resumed
    <3> QED  BY <3>1, WellSame
  <2>5. value' \in 0..(SemMod - 1) /\ owed' \in Int  BY <1>2, <1>3, <1>6
  <2>6. wait'["sem"] = <<>>  BY <2>1, <1>2, <1>6
  <2>7. UnitsConserved'  BY <2>4, <1>2, <1>4, <1>5, <1>6 DEF UnitsConserved
  <2> QED  BY <2>3, <2>5, <2>6, <2>7 DEF SemInv
<1>7. CASE /\ value = 0 /\ time # "none" /\ Suspend(c, "sem", [op |-> "sem_take"], time)
           /\ UNCHANGED <<prio, value, owed>>
  <2>1. c \in Thread  BY <1>1, <1>7 DEF Callers
  <2>2. stat[c] = "READY"  BY <2>1, <1>1, CallerReady
  <2>3. "sem" \in Lists /\ WaitsOn([op |-> "sem_take"], "sem")  BY DEF Lists, ObjectLists, WaitsOn
  <2>4. ListInv'  BY <2>1, <2>2, <2>3, <1>1, <1>7, SuspendKeeps
  <2>5. /\ call'[c] = [op |-> "sem_take"] /\ \A x \in Callers : x # c => call'[x] = call[x]
        /\ stat'[c] = "SUSPEND" /\ \A x \in Thread : x # c => stat'[x] = stat[x] /\ error'[x] = error[x]
    BY <2>1, <1>1, <1>7 DEF Suspend, ListInv, Shapes
  <2>6. Core'  BY <2>4, <2>5, <1>4, <1>7, SemCore
  <2>7. Cardinality(ResumedWell("sem_take"))' = Cardinality(ResumedWell("sem_take"))
    <3>1. \A t \in Thread : WellThen(t, "sem_take") <=> t \in ResumedWell("sem_take")
      BY <2>1, <2>5, <1>1 DEF WellThen, ResumedWell, Resumed, Callers
    <3> QED  BY <3>1, WellSame
  <2>8. UnitsConserved'  BY <2>7, <1>2, <1>4, <1>7 DEF UnitsConserved
  <2> QED  BY <2>6, <2>8, <1>2, <1>7 DEF SemInv
<1> QED  BY <1>6, <1>7 DEF SemTake

LEMMA SemTakenKeeps ==
    ASSUME Core, SemInv, kind = "sem", UNCHANGED <<kind, flag, mailVars>>,
           NEW t \in Thread, SemTaken(t)
    PROVE  Core' /\ SemInv'
<1>1. ListInv /\ stat[t] = "READY" /\ call[t].op = "sem_take" /\ t \in Callers
  BY DEF Core, SemTaken, Resumed, Callers
<1>2. value \in 0..(SemMod - 1) /\ owed \in Int /\ (wait["sem"] # <<>> => value = 0) /\ UnitsConserved
  BY DEF SemInv
<1>3. UNCHANGED <<stat, error, timer, prio, wait, value, mutex, held, events, hist>>  BY DEF SemTaken
<1>4. call' = [call EXCEPT ![t] = [op |-> "none"]]  BY DEF SemTaken, Return, NoCall
<1>5. Spares({}) /\ call'[t] = [op |-> "none"] /\ \A x \in Callers : x # t => call'[x] = call[x]
  BY <1>1, <1>3, <1>4, OwnCall
<1>6. ListInv'  BY <1>1, <1>3, <1>5, SameKeeps
<1>7. Core'  BY <1>3, <1>5, <1>6, SemCore
<1>8. Cardinality(ResumedWell("sem_take")) \in Nat  BY WellFinite
<1>9. UnitsConserved' /\ owed' \in Int
  <2>1. CASE error[t] = "EOK"
    <3>1. t \in ResumedWell("sem_take")  BY <2>1, <1>1 DEF ResumedWell, Resumed
    <3>2. \A x \in Thread : WellThen(x, "sem_take") <=> x # t /\ x \in ResumedWell("sem_take")
      BY <1>3, <1>5 DEF WellThen, ResumedWell, Resumed, Callers
    <3>3. Cardinality(ResumedWell("sem_take"))' = Cardinality(ResumedWell("sem_take")) - 1
      BY <3>1, <3>2, WellLess
    <3>4. owed' = owed - 1  BY <2>1 DEF SemTaken
    <3> QED  BY <3>3, <3>4, <1>2, <1>3, <1>8 DEF UnitsConserved
  <2>2. CASE error[t] # "EOK"
    <3>1. \A x \in Thread : WellThen(x, "sem_take") <=> x \in ResumedWell("sem_take")
      BY <2>2, <1>3, <1>5 DEF WellThen, ResumedWell, Resumed, Callers
    <3>2. Cardinality(ResumedWell("sem_take"))' = Cardinality(ResumedWell("sem_take"))
      BY <3>1, WellSame
    <3>3. owed' = owed  BY <2>2 DEF SemTaken
    <3> QED  BY <3>2, <3>3, <1>2, <1>3 DEF UnitsConserved
  <2> QED  BY <2>1, <2>2
<1> QED  BY <1>2, <1>3, <1>7, <1>9 DEF SemInv

LEMMA SemReleaseKeeps ==
    ASSUME Core, SemInv, kind = "sem", UNCHANGED <<kind, flag, mailVars>>,
           NEW c \in Callers, SemRelease(c)
    PROVE  Core' /\ SemInv'
<1>1. ListInv /\ WakeFirst("sem") /\ "wrapped" \notin hist  BY DEF Core, SemRelease
<1>2. value \in 0..(SemMod - 1) /\ owed \in Int /\ (wait["sem"] # <<>> => value = 0) /\ UnitsConserved
  BY DEF SemInv
<1>3. UNCHANGED <<error, prio, call, mutex, held, events>> /\ owed' = owed + 1  BY DEF SemRelease
<1>4. "sem" \in Lists  BY DEF Lists, ObjectLists
<1>5. ListInv'  BY <1>1, <1>3, <1>4, NoOne, WakeFirstKeeps
<1>6. Core'  BY <1>3, <1>5, SemCore
<1>7. Cardinality(ResumedWell("sem_take")) \in Nat  BY WellFinite
<1>8. SemMod \in Nat \ {0, 1}  BY SyncAssumption
<1>9. CASE wait["sem"] = <<>> /\ Wake({}) /\ \A x \in Thread : stat'[x] = stat[x]
  <2>1. \A x \in Thread : WellThen(x, "sem_take") <=> x \in ResumedWell("sem_take")
    BY <1>3, <1>9 DEF WellThen, ResumedWell, Resumed
  <2>2. Cardinality(ResumedWell("sem_take"))' = Cardinality(ResumedWell("sem_take"))
    BY <2>1, WellSame
  <2>3. wait'["sem"] = <<>>  BY <1>1, <1>4, <1>9, WakeLists
  <2>4. /\ value' = (value + 1) % SemMod
        /\ hist' = IF value + 1 = SemMod THEN hist \cup {"wrapped"} ELSE hist
    BY <1>9 DEF SemRelease
  <2>5. value' \in 0..(SemMod - 1)
    <3>1. PICK v \in Int : v = value + 1  BY <1>2
    <3>2. v % SemMod \in 0..(SemMod - 1)  BY <1>8, ModFact
    <3> QED  BY <3>1, <3>2, <2>4
  <2>6. UnitsConserved'
    <3>1. CASE value + 1 = SemMod  BY <3>1, <2>4 DEF UnitsConserved
    <3>2. CASE value + 1 # SemMod
      <4>1. value + 1 \in 0..(SemMod - 1)  BY <3>2, <1>2, <1>8
      <4>2. PICK v \in 0..(SemMod - 1) : v = value + 1  BY <4>1
      <4>3. v % SemMod = v  BY <1>8, ModSmall
      <4>4. value' = value + 1  BY <4>2, <4>3, <2>4
      <4> QED  BY <4>4, <2>2, <1>1, <1>2, <1>3, <1>7 DEF UnitsConserved
    <3> QED  BY <3>1, <3>2
  <2> QED  BY <2>3, <2>5, <2>6, <1>2, <1>3, <1>6 DEF SemInv
<1>10. ASSUME NEW h \in Thread, wait["sem"] # <<>>, stat[h] = "SUSPEND", WaitsOn(call[h], "sem"),
              error[h] = "EOK", \A x \in Thread : stat'[x] = IF x = h THEN "READY" ELSE stat[x]
       PROVE  Core' /\ SemInv'
  <2>1. call[h].op = "sem_take"
    <3>1. h \in Callers  BY DEF Callers
    <3>2. call[h].op = "mutex_take" => kind = "mutex"  BY <3>1, CallsFit
    <3> QED  BY <3>2, <1>10 DEF WaitsOn
  <2>2. h \notin ResumedWell("sem_take")  BY <1>10 DEF ResumedWell, Resumed
  <2>3. \A x \in Thread : WellThen(x, "sem_take") <=> x = h \/ x \in ResumedWell("sem_take")
    BY <2>1, <1>3, <1>10 DEF WellThen, ResumedWell, Resumed
  <2>4. Cardinality(ResumedWell("sem_take"))' = Cardinality(ResumedWell("sem_take")) + 1
    BY <2>2, <2>3, WellMore
  <2>5. value' = value /\ hist' = hist  BY <1>10 DEF SemRelease
  <2>6. UnitsConserved'  BY <2>4, <2>5, <1>2, <1>3, <1>7 DEF UnitsConserved
  <2>7. value = 0  BY <1>2, <1>10
  <2> QED  BY <2>5, <2>6, <2>7, <1>2, <1>3, <1>6 DEF SemInv
<1> QED  BY <1>1, <1>4, <1>9, <1>10, WakeFirstIs

LEMMA SemResetKeeps ==
    ASSUME Core, SemInv, kind = "sem", UNCHANGED <<kind, flag, mailVars>>,
           NEW c \in Callers, NEW v \in {0, 1}, SemReset(c, v)
    PROVE  Core' /\ SemInv'
<1>1. ListInv /\ WakeAll({"sem"})  BY DEF Core, SemReset
<1>2. /\ UNCHANGED <<prio, call, mutex, held, events, hist>> /\ value' = v
      /\ owed' = v + Cardinality(ResumedWell("sem_take"))
  BY DEF SemReset
<1>3. {"sem"} \in SUBSET Lists  BY DEF Lists, ObjectLists
<1>4. Core'  BY <1>1, <1>2, <1>3, WakeAllKeeps, SemCore
<1>5. PICK T \in SUBSET Thread :
         /\ \A x \in T : stat[x] = "SUSPEND"
         /\ \A x \in Thread : error'[x] = IF x \in T THEN "ERROR" ELSE error[x]
         /\ \A x \in Thread : stat'[x] = IF x \in T THEN "READY" ELSE stat[x]
         /\ \A l \in {"sem"} : wait'[l] = <<>>
  <2>1. PICK L \in SUBSET Lists : L = {"sem"}  BY <1>3
  <2>2. WakeAll(L)  BY <2>1, <1>1
  <2> QED  BY <2>1, <2>2, <1>1, WakeAllIs
<1>6. \A x \in Thread : WellThen(x, "sem_take") <=> x \in ResumedWell("sem_take")
  BY <1>2, <1>5 DEF WellThen, ResumedWell, Resumed
<1>7. Cardinality(ResumedWell("sem_take"))' = Cardinality(ResumedWell("sem_take"))
  BY <1>6, WellSame
<1>8. Cardinality(ResumedWell("sem_take")) \in Nat  BY WellFinite
<1>9. SemMod \in Nat \ {0, 1}  BY SyncAssumption
<1>10. value' \in 0..(SemMod - 1) /\ owed' \in Int  BY <1>2, <1>8, <1>9
<1>11. UnitsConserved'  BY <1>2, <1>7 DEF UnitsConserved
<1> QED  BY <1>4, <1>5, <1>10, <1>11 DEF SemInv

LEMMA SemTimeout ==
    ASSUME Core, SemInv, NEW t \in Thread, Timeout(t), UNCHANGED <<syncVars, mailVars>>
    PROVE  SemInv'
<1>1. UNCHANGED <<call, kind, hist, value, owed>>  BY DEF Timeout, syncVars
<1>2. /\ ListInv /\ stat[t] = "SUSPEND" /\ error'[t] = "ERROR" /\ Wake({t})
      /\ \A x \in Thread : x # t => error'[x] = error[x] /\ stat'[x] = stat[x]
  BY TimeoutKeeps DEF Core
<1>3. \A x \in Thread : WellThen(x, "sem_take") <=> x \in ResumedWell("sem_take")
  BY <1>1, <1>2 DEF WellThen, ResumedWell, Resumed
<1>4. Cardinality(ResumedWell("sem_take"))' = Cardinality(ResumedWell("sem_take"))
  BY <1>3, WellSame
<1>5. "sem" \in Lists  BY DEF Lists, ObjectLists
<1>6. wait'["sem"] # <<>> => wait["sem"] # <<>>  BY <1>2, <1>5, WakeLists
<1>7. ASSUME UnitsConserved PROVE UnitsConserved'  BY <1>1, <1>4, <1>7 DEF UnitsConserved
<1> QED  BY <1>1, <1>6, <1>7 DEF SemInv

-----------------------------------------------------------------------------
(* The number of times a mutex is in a list.                               *)

LEMMA CountType ==
    ASSUME NEW S, NEW s \in Seq(S), NEW m
    PROVE  /\ Count(m, s) \in Nat /\ IsFiniteSet({n \in 1..Len(s) : s[n] = m})
           /\ Count(m, s) = 0 <=> ~On(s, m)
<1> DEFINE P == {n \in 1..Len(s) : s[n] = m}
<1>1. Len(s) \in Nat  BY LenProperties
<1>2. IsFiniteSet(1..Len(s)) /\ P \in SUBSET (1..Len(s))  BY <1>1, FS_Interval
<1>3. IsFiniteSet(P)  BY <1>2, FS_Subset
<1>4. Cardinality(P) \in Nat /\ (Cardinality(P) = 0 <=> P = {})  BY <1>3, FS_CardinalityType, FS_EmptySet
<1>5. P = {} <=> ~On(s, m)  BY DEF On
<1> QED  BY <1>3, <1>4, <1>5 DEF Count

IsAppend(r, s, x) == r = Append(s, x)

LEMMA CountAppend ==
    ASSUME NEW S, NEW s \in Seq(S), NEW x \in S, NEW r, IsAppend(r, s, x), NEW m
    PROVE  /\ x = m => Count(m, r) = Count(m, s) + 1
           /\ x # m => Count(m, r) = Count(m, s)
<1>1. /\ Append(s, x) \in Seq(S) /\ Len(Append(s, x)) = Len(s) + 1
      /\ Append(s, x)[Len(s) + 1] = x /\ \A i \in 1..Len(s) : Append(s, x)[i] = s[i]
  BY AppendProperties
<1>2. /\ r \in Seq(S) /\ Len(r) = Len(s) + 1
      /\ r[Len(s) + 1] = x /\ \A i \in 1..Len(s) : r[i] = s[i]
  BY <1>1 DEF IsAppend
<1>3. Len(s) \in Nat  BY LenProperties
<1>4. \A i : i \in 1..Len(r) <=> i \in 1..Len(s) \/ i = Len(s) + 1  BY <1>2, <1>3
<1>5. PICK P, Q : P = {n \in 1..Len(s) : s[n] = m} /\ Q = {n \in 1..Len(r) : r[n] = m}  OBVIOUS
<1>6. IsFiniteSet(P) /\ Count(m, s) = Cardinality(P) /\ Cardinality(P) \in Nat  BY <1>5, CountType DEF Count
<1>7. Count(m, r) = Cardinality(Q)  BY <1>5 DEF Count
<1>8. CASE x = m
  <2>1. Q = P \cup {Len(s) + 1}  BY <1>2, <1>4, <1>5, <1>8
  <2>2. Len(s) + 1 \notin P  BY <1>3, <1>5
  <2>3. Cardinality(P \cup {Len(s) + 1}) = Cardinality(P) + 1  BY <2>2, <1>6, FS_AddElement
  <2> QED  BY <2>1, <2>3, <1>6, <1>7, <1>8
<1>9. CASE x # m
  <2>1. Q = P  BY <1>2, <1>4, <1>5, <1>9
  <2> QED  BY <2>1, <1>6, <1>7, <1>9
<1> QED  BY <1>8, <1>9

LEMMA CountRemoved ==
    ASSUME NEW S, NEW s \in Seq(S), NEW p \in 1..Len(s), NEW r, r = RemoveAt(s, p), NEW m
    PROVE  /\ s[p] = m => Count(m, r) = Count(m, s) - 1
           /\ s[p] # m => Count(m, r) = Count(m, s)
<1>1. /\ r \in Seq(S) /\ Len(r) = Len(s) - 1
      /\ \A k \in 1..(Len(s) - 1) : r[k] = s[IF k < p THEN k ELSE k + 1]
  BY RemoveAtIs
<1>2. Len(s) \in Nat /\ p \in Nat /\ 1 <= p /\ p <= Len(s)  BY LenProperties
<1>3. PICK P, Q : P = {n \in 1..Len(s) : s[n] = m} /\ Q = {n \in 1..Len(r) : r[n] = m}  OBVIOUS
<1>4. IsFiniteSet(P) /\ Count(m, s) = Cardinality(P) /\ Cardinality(P) \in Nat  BY <1>3, CountType DEF Count
<1>5. Count(m, r) = Cardinality(Q) /\ IsFiniteSet(Q)
  <2>1. PICK u \in Seq(S) : u = r  BY <1>1
  <2>2. IsFiniteSet({n \in 1..Len(u) : u[n] = m})  BY CountType
  <2> QED  BY <2>1, <2>2, <1>3 DEF Count
<1>6. PICK f : f = [k \in Q |-> IF k < p THEN k ELSE k + 1]  OBVIOUS
<1>7. Cardinality(P \ {p}) = Cardinality(Q)
  <2>1. ASSUME NEW k \in Q PROVE f[k] \in P \ {p} /\ f[k] = IF k < p THEN k ELSE k + 1
    <3>1. k \in 1..(Len(s) - 1) /\ r[k] = m  BY <1>1, <1>3
    <3>2. f[k] = IF k < p THEN k ELSE k + 1  BY <1>6
    <3>3. f[k] \in 1..Len(s) /\ f[k] # p  BY <3>1, <3>2, <1>2
    <3>4. s[f[k]] = m  BY <3>1, <3>2, <1>1
    <3> QED  BY <3>2, <3>3, <3>4, <1>3
  <2>2. f \in [Q -> P \ {p}]  BY <2>1, <1>6
  <2>3. Q \subseteq Int  BY <1>1, <1>2, <1>3
  <2>4. ASSUME NEW a \in Q, NEW b \in Q, f[a] = f[b] PROVE a = b
    BY <2>1, <2>3, <2>4, <1>2
  <2>5. ASSUME NEW n \in P \ {p} PROVE \E k \in Q : f[k] = n
    <3>1. n \in 1..Len(s) /\ s[n] = m /\ n # p  BY <1>3
    <3>2. CASE n < p
      <4>1. n \in 1..(Len(s) - 1) /\ n < p  BY <3>1, <3>2, <1>2
      <4>2. r[n] = m  BY <4>1, <3>1, <1>1
      <4>3. n \in Q  BY <4>1, <4>2, <1>1, <1>3
      <4> QED  BY <4>3, <3>2, <1>6
    <3>3. CASE ~(n < p)
      <4>1. PICK k \in 1..(Len(s) - 1) : k = n - 1 /\ ~(k < p) /\ k + 1 = n  BY <3>1, <3>3, <1>2
      <4>2. r[k] = m  BY <4>1, <3>1, <1>1
      <4>3. k \in Q  BY <4>1, <4>2, <1>1, <1>3
      <4> QED  BY <4>1, <4>3, <1>6
    <3> QED  BY <3>2, <3>3
  <2>6. f \in Bijection(Q, P \ {p})
    <3>1. f \in Injection(Q, P \ {p})  BY <2>2, <2>4 DEF Injection, IsInjective
    <3>2. f \in Surjection(Q, P \ {p})  BY <2>2, <2>5 DEF Surjection
    <3> QED  BY <3>1, <3>2 DEF Bijection
  <2>7. ExistsBijection(Q, P \ {p})  BY <2>6 DEF ExistsBijection
  <2> QED  BY <2>7, <1>5, FS_Bijection
<1>8. CASE s[p] = m
  <2>1. p \in P  BY <1>3, <1>8
  <2>2. Cardinality(P \ {p}) = Cardinality(P) - 1  BY <2>1, <1>4, FS_RemoveElement
  <2> QED  BY <2>2, <1>4, <1>5, <1>7, <1>8
<1>9. CASE s[p] # m
  <2>1. P \ {p} = P  BY <1>3, <1>9
  <2>2. PICK c \in Nat : c = Count(m, s) /\ c = Count(m, r)
    <3>1. Cardinality(P) = Cardinality(Q)  BY <2>1, <1>7
    <3> QED  BY <3>1, <1>4, <1>5
  <2> QED  BY <2>2, <1>9
<1> QED  BY <1>8, <1>9

\* The last place of a mutex in a list, and what dropping it there does.
LEMMA DropsIs ==
    ASSUME held \in [Thread -> Seq(Mutex)], NEW t \in Thread, NEW m \in Mutex, On(held[t], m), Drops(t, m)
    PROVE  \E p \in 1..Len(held[t]), r \in Seq(Mutex) :
              /\ held[t][p] = m /\ \A j \in (p + 1)..Len(held[t]) : held[t][j] # m
              /\ r = RemoveAt(held[t], p) /\ held' = [held EXCEPT ![t] = r]
              /\ hist' = IF p = Len(held[t]) THEN hist ELSE hist \cup {"crossed"}
<1>1. PICK s \in Seq(Mutex) : s = held[t]  OBVIOUS
<1>2. Len(s) \in Nat  BY LenProperties
<1>3. \E p \in 1..Len(s) : s[p] = m /\ \A j \in p + 1..Len(s) : s[j] # m
  <2> DEFINE P == {n \in Nat : \E k \in 1..Len(s) : s[k] = m /\ n = Len(s) - k}
  <2>1. PICK k \in 1..Len(s) : s[k] = m  BY <1>1 DEF On
  <2>2. Len(s) - k \in P  BY <2>1, <1>2
  <2>3. P \in SUBSET Nat /\ P # {}  BY <2>2
  <2>4. PICK n \in P : \A i \in P : n <= i  BY <2>3, LeastNatural
  <2>5. PICK p \in 1..Len(s) : s[p] = m /\ n = Len(s) - p  BY <2>4
  <2>6. ASSUME NEW j \in p + 1..Len(s), s[j] = m PROVE FALSE
    <3>1. j \in 1..Len(s) /\ Len(s) - j \in Nat /\ ~(n <= Len(s) - j)  BY <2>5, <1>2
    <3>2. Len(s) - j \in P  BY <3>1, <2>6
    <3> QED  BY <3>1, <3>2, <2>4
  <2> QED  BY <2>5, <2>6
<1>4. PICK p : p = CHOOSE k \in 1..Len(s) : s[k] = m /\ \A j \in k + 1..Len(s) : s[j] # m  OBVIOUS
<1>5. p \in 1..Len(s) /\ s[p] = m /\ \A j \in p + 1..Len(s) : s[j] # m  BY <1>3, <1>4
<1>6. /\ held' = [held EXCEPT ![t] = SubSeq(s, 1, p - 1) \o SubSeq(s, p + 1, Len(s))]
      /\ hist' = IF p = Len(s) THEN hist ELSE hist \cup {"crossed"}
  BY <1>1, <1>4 DEF Drops
<1>7. PICK r : r = RemoveAt(s, p)  OBVIOUS
<1>8. r \in Seq(Mutex)  BY <1>5, <1>7, RemoveAtIs
<1>9. held' = [held EXCEPT ![t] = r]  BY <1>6, <1>7 DEF RemoveAt
<1> QED  BY <1>1, <1>5, <1>6, <1>7, <1>8, <1>9

-----------------------------------------------------------------------------
(* Lists in the order of priorities.                                       *)

SortedBy(l, p) == \A i, j \in 1..Len(l) : i < j => p[l[i]] <= p[l[j]]

LEMMA SortedWithout ==
    ASSUME NEW l \in Seq(Thread), NEW p, SortedBy(l, p), NEW T, NEW r, r = Without(l, T)
    PROVE  SortedBy(r, p)
<1>1. PICK f : KeptFrom(r, f, l, T, Len(l))  BY WithoutFrom
<1>2. /\ f \in [1..Len(r) -> 1..Len(l)]
      /\ \A i, j \in 1..Len(r) : i < j => f[i] < f[j]
      /\ \A i \in 1..Len(r) : r[i] = l[f[i]]
  BY <1>1 DEF KeptFrom
<1>3. ASSUME NEW i \in 1..Len(r), NEW j \in 1..Len(r), i < j PROVE p[r[i]] <= p[r[j]]
  <2>1. f[i] \in 1..Len(l) /\ f[j] \in 1..Len(l) /\ f[i] < f[j]  BY <1>2, <1>3
  <2>2. p[l[f[i]]] <= p[l[f[j]]]  BY <2>1 DEF SortedBy
  <2> QED  BY <2>2, <1>2
<1> QED  BY <1>3 DEF SortedBy

LEMMA SortedHead ==
    ASSUME NEW l \in Seq(Thread), NEW p \in [Thread -> 0..255], SortedBy(l, p), NEW x, On(l, x)
    PROVE  l # <<>> /\ p[Head(l)] <= p[x]
<1>1. PICK k \in 1..Len(l) : l[k] = x  BY DEF On
<1>2. Len(l) \in Nat  BY LenProperties
<1>3. l # <<>>
  <2>1. l = <<>> => Len(l) = 0  BY EmptySeq
  <2> QED  BY <2>1, <1>1, <1>2
<1>4. Head(l) = l[1] /\ 1 \in 1..Len(l) /\ l[1] \in Thread  BY <1>3, EmptyList
<1>5. p[l[1]] <= p[l[k]]
  <2>1. CASE k = 1
    <3>1. PICK a \in 0..255 : a = p[l[1]]  BY <1>4
    <3>2. a <= a  OBVIOUS
    <3> QED  BY <3>1, <3>2, <2>1
  <2>2. CASE k # 1
    <3>1. 1 < k  BY <2>2, <1>1
    <3> QED  BY <3>1, <1>1, <1>4 DEF SortedBy
  <2> QED  BY <2>1, <2>2
<1> QED  BY <1>1, <1>3, <1>4, <1>5

LEMMA SortedInserted ==
    ASSUME flag = "PRIO", prio \in [Thread -> 0..255], NEW l \in Seq(Thread), NEW t \in Thread,
           SortedBy(l, prio), NEW r, r = Inserted(l, t)
    PROVE  SortedBy(r, prio)
<1>1. PICK n \in 1..(Len(l) + 1) : n = Place(l, t)  BY PlaceIs
<1>2. r = InsertAt(l, n, t)  BY <1>1 DEF Inserted, InsertAt
<1>3. /\ r \in Seq(Thread) /\ Len(r) = Len(l) + 1 /\ r[n] = t
      /\ \A k \in 1..Len(l) : r[IF k < n THEN k ELSE k + 1] = l[k]
  BY <1>2, InsertedIs
<1>4. Len(l) \in Nat /\ \A k \in 1..Len(l) : l[k] \in Thread  BY LenProperties, ElementOfSeq
<1>5. /\ \A k \in 1..Len(l) : k < n => prio[l[k]] <= prio[t]
      /\ \A k \in 1..Len(l) : k >= n => prio[t] <= prio[l[k]]
  <2> DEFINE behind == {k \in 1..Len(l) : flag = "PRIO" /\ prio[t] < prio[l[k]]}
  <2>1. \A k \in 1..Len(l) : prio[l[k]] \in 0..255 /\ prio[t] \in 0..255  BY <1>4
  <2>2. ASSUME NEW k \in 1..Len(l), k \notin behind PROVE prio[l[k]] <= prio[t]
    <3>1. PICK a \in 0..255, b \in 0..255 : a = prio[t] /\ b = prio[l[k]]  BY <2>1
    <3>2. ~(a < b)  BY <3>1, <2>2
    <3> QED  BY <3>1, <3>2
  <2>3. CASE behind = {}
    <3>1. n = Len(l) + 1  BY <2>3, <1>1 DEF Place
    <3>2. \A k \in 1..Len(l) : ~(k >= n)  BY <3>1, <1>4
    <3> QED  BY <3>2, <2>2, <2>3
  <2>4. CASE behind # {}
    <3>1. n = CHOOSE k \in behind : \A j \in behind : k <= j  BY <2>4, <1>1 DEF Place
    <3>2. behind \in SUBSET Nat  BY <1>4
    <3>3. \E k \in behind : \A j \in behind : k <= j  BY <3>2, <2>4, LeastNatural
    <3>4. n \in behind /\ \A j \in behind : n <= j  BY <3>1, <3>3
    <3>5. \A k \in 1..Len(l) : k < n => k \notin behind  BY <3>4, <1>1, <1>4
    <3>6. n \in 1..Len(l) /\ prio[t] < prio[l[n]]  BY <3>4
    <3>7. ASSUME NEW k \in 1..Len(l), k >= n PROVE prio[t] <= prio[l[k]]
      <4>1. PICK a \in 0..255, b \in 0..255, c \in 0..255 :
               a = prio[t] /\ b = prio[l[n]] /\ c = prio[l[k]]
        BY <3>6, <2>1
      <4>2. a < b  BY <4>1, <3>6
      <4>3. CASE k = n  BY <4>1, <4>2, <4>3
      <4>4. CASE k # n
        <5>1. n < k  BY <4>4, <3>7, <1>1, <1>4
        <5>2. b <= c  BY <5>1, <4>1, <3>6 DEF SortedBy
        <5> QED  BY <5>2, <4>1, <4>2
      <4> QED  BY <4>3, <4>4
    <3> QED  BY <3>5, <3>7, <2>2
  <2> QED  BY <2>3, <2>4
<1>6. \A k \in 1..Len(r) : k # n =>
          \E i \in 1..Len(l) : k = (IF i < n THEN i ELSE i + 1) /\ r[k] = l[i]
  BY <1>2, InsertedFrom
<1>7. ASSUME NEW i \in 1..Len(r), NEW j \in 1..Len(r), i < j PROVE prio[r[i]] <= prio[r[j]]
  <2>1. CASE i # n /\ j # n
    <3>1. PICK a \in 1..Len(l) : i = (IF a < n THEN a ELSE a + 1) /\ r[i] = l[a]  BY <2>1, <1>6
    <3>2. PICK b \in 1..Len(l) : j = (IF b < n THEN b ELSE b + 1) /\ r[j] = l[b]  BY <2>1, <1>6
    <3>3. a < b  BY <3>1, <3>2, <1>1, <1>4, <1>7
    <3> QED  BY <3>1, <3>2, <3>3 DEF SortedBy
  <2>2. CASE i = n /\ j # n
    <3>1. PICK b \in 1..Len(l) : j = (IF b < n THEN b ELSE b + 1) /\ r[j] = l[b]  BY <2>2, <1>6
    <3>2. b >= n  BY <3>1, <2>2, <1>1, <1>4, <1>7
    <3> QED  BY <3>1, <3>2, <2>2, <1>3, <1>5
  <2>3. CASE i # n /\ j = n
    <3>1. PICK a \in 1..Len(l) : i = (IF a < n THEN a ELSE a + 1) /\ r[i] = l[a]  BY <2>3, <1>6
    <3>2. a < n  BY <3>1, <2>3, <1>1, <1>4, <1>7
    <3> QED  BY <3>1, <3>2, <2>3, <1>3, <1>5
  <2>4. ~(i = n /\ j = n)  BY <1>7, <1>1, <1>4
  <2> QED  BY <2>1, <2>2, <2>3, <2>4
<1> QED  BY <1>7 DEF SortedBy

-----------------------------------------------------------------------------
(* The mutexes.                                                            *)

MutexRecord == [value : {0, 1}, owner : Thread \cup {Null}, original_priority : 0..255,
                hold : 0..(HoldMod - 1)]

MutexTypes ==
    /\ mutex \in [Mutex -> MutexRecord]
    /\ held \in [Thread -> Seq(Mutex)]
    /\ prio \in [Thread -> 0..255]

\* A thread resumed without an error in the call c has been handed m.
HandedTo(s, c, e, m) == s = "READY" /\ c.op = "mutex_take" /\ e = "EOK" /\ c.m = m

TakesOf(list, s, c, e, m) == Count(m, list) + IF HandedTo(s, c, e, m) THEN 1 ELSE 0
Takes(t, m) == TakesOf(held[t], stat[t], call[t], error[t], m)

\* The hold count of the mutex x is that of t's takes, k, if t is the owner.
Holds(x, t, k) == IF x.owner = t THEN k \in 1..HoldMod /\ x.hold = k % HoldMod ELSE k = 0
FreeOrNot(x) == (x.value = 1 <=> x.owner = Null) /\ (x.owner = Null => x.hold = 0)

HoldsStrong ==
    \A m \in Mutex : FreeOrNot(mutex[m]) /\ \A t \in Thread : Holds(mutex[m], t, Takes(t, m))

\* The mutex a thread got first remembers the thread's own priority.
FirstOf(list, s, c, e, m) == IF list = <<>> THEN HandedTo(s, c, e, m) ELSE list[1] = m
Bottoms ==
    \A t \in Thread, m \in Mutex :
        FirstOf(held[t], stat[t], call[t], error[t], m) => mutex[m].original_priority = Prio[t]

\* Nobody that has a mutex waits for another or has it.
Single ==
    \A t \in Thread : /\ \A i, j \in 1..Len(held[t]) : held[t][i] = held[t][j]
                      /\ call[t].op = "mutex_take" => held[t] = <<>>

InOrderOf(list, p, x) == SortedBy(list, p) /\ \A t \in Thread : On(list, t) => p[x.owner] <= p[t]

MutexInv ==
    kind = "mutex" =>
        /\ MutexTypes
        /\ \A m \in Mutex : wait[m] # <<>> => mutex[m].owner # Null
        /\ "overheld" \notin hist => HoldsStrong
        /\ PriorityRestored
        /\ ("overheld" \notin hist /\ "crossed" \notin hist) => Bottoms
        /\ "nested" \notin hist => Single /\ "crossed" \notin hist
        /\ (flag = "PRIO" /\ "nested" \notin hist) => \A m \in Mutex : InOrderOf(wait[m], prio, mutex[m])

LEMMA InitMutexInv == Init => MutexInv
<1> SUFFICES ASSUME Init PROVE MutexInv
  OBVIOUS
<1>1. /\ mutex = [m \in Mutex |-> [value |-> 1, owner |-> Null, original_priority |-> 255, hold |-> 0]]
      /\ held = [t \in Thread |-> <<>>] /\ prio = Prio /\ hist = {}
      /\ call = [c \in Callers |-> [op |-> "none"]] /\ wait = [l \in Lists |-> <<>>]
  BY DEF Init, InitThreads, InitSync, InitMutex, NoPriority, NoCall
<1>2. HoldMod \in Nat \ {0, 1} /\ Prio \in [Thread -> 0..254] /\ Null \notin Thread
  BY SyncAssumption, ThreadsAssumption
<1>3. MutexTypes
  <2>1. [value |-> 1, owner |-> Null, original_priority |-> 255, hold |-> 0] \in MutexRecord
    BY <1>2 DEF MutexRecord
  <2>2. <<>> \in Seq(Mutex)  BY EmptySeq
  <2>3. mutex \in [Mutex -> MutexRecord]  BY <2>1, <1>1
  <2>4. held \in [Thread -> Seq(Mutex)]  BY <2>2, <1>1
  <2>5. prio \in [Thread -> 0..255]  BY <1>1, <1>2
  <2> QED  BY <2>3, <2>4, <2>5 DEF MutexTypes
<1>4. \A m \in Mutex : m \in Lists /\ wait[m] = <<>>  BY <1>1 DEF Lists
<1>5. \A t \in Thread : t \in Callers /\ call[t].op = "none" /\ held[t] = <<>>  BY <1>1 DEF Callers
<1>6. \A k : k \notin 1..Len(<<>>)  BY EmptySeq
<1>7. ASSUME NEW t \in Thread, NEW m \in Mutex
      PROVE  Takes(t, m) = 0 /\ ~FirstOf(held[t], stat[t], call[t], error[t], m)
  <2>1. ~HandedTo(stat[t], call[t], error[t], m)  BY <1>5 DEF HandedTo
  <2>2. <<>> \in Seq(Mutex) /\ ~On(<<>>, m)  BY <1>6, EmptySeq DEF On
  <2>3. Count(m, held[t]) = 0  BY <2>2, <1>5, CountType
  <2>4. Takes(t, m) = 0 + 0  BY <2>1, <2>3 DEF Takes, TakesOf
  <2> QED  BY <2>1, <2>4, <1>5 DEF FirstOf
<1>8. HoldsStrong
  <2>1. \A m \in Mutex : mutex[m].value = 1 /\ mutex[m].owner = Null /\ mutex[m].hold = 0  BY <1>1
  <2> QED  BY <2>1, <1>2, <1>7 DEF HoldsStrong, Holds, FreeOrNot
<1>9. PriorityRestored  BY <1>1 DEF PriorityRestored
<1>10. Bottoms  BY <1>7 DEF Bottoms
<1>11. Single  BY <1>5, <1>6 DEF Single
<1>12. \A m \in Mutex : InOrderOf(wait[m], prio, mutex[m])  BY <1>4, <1>6 DEF InOrderOf, SortedBy, On
<1> QED  BY <1>1, <1>3, <1>4, <1>8, <1>9, <1>10, <1>11, <1>12 DEF MutexInv

\* Takes are natural numbers.
LEMMA TakesType ==
    ASSUME MutexTypes, NEW t \in Thread, NEW m \in Mutex
    PROVE  /\ Takes(t, m) \in Nat
           /\ On(held[t], m) => Takes(t, m) > 0
           /\ ~On(held[t], m) /\ ~HandedTo(stat[t], call[t], error[t], m) => Takes(t, m) = 0
<1>1. held[t] \in Seq(Mutex)  BY DEF MutexTypes
<1>2. PICK s \in Seq(Mutex) : s = held[t]  BY <1>1
<1>3. Count(m, s) \in Nat /\ (Count(m, s) = 0 <=> ~On(s, m))  BY CountType
<1>4. PICK c \in Nat : c = Count(m, s)  BY <1>3
<1>5. CASE HandedTo(stat[t], call[t], error[t], m)
  <2>1. Takes(t, m) = c + 1  BY <1>2, <1>4, <1>5 DEF Takes, TakesOf
  <2> QED  BY <2>1, <1>5
<1>6. CASE ~HandedTo(stat[t], call[t], error[t], m)
  <2>1. Takes(t, m) = c + 0  BY <1>2, <1>4, <1>6 DEF Takes, TakesOf
  <2>2. c + 0 = c  OBVIOUS
  <2>3. c > 0 <=> c # 0  OBVIOUS
  <2> QED  BY <2>1, <2>2, <2>3, <1>2, <1>3, <1>4
<1> QED  BY <1>5, <1>6

\* Who has a mutex owns it, and an owner that is in no call has it.
LEMMA OwnerHas ==
    ASSUME MutexTypes, HoldsStrong, NEW t \in Thread, NEW m \in Mutex
    PROVE  /\ On(held[t], m) \/ HandedTo(stat[t], call[t], error[t], m) <=> mutex[m].owner = t
           /\ mutex[m].owner = t /\ call[t].op # "mutex_take" => On(held[t], m)
<1>1. Holds(mutex[m], t, Takes(t, m))  BY DEF HoldsStrong
<1>2. PICK k \in Nat : k = Takes(t, m)  BY TakesType
<1>3. HoldMod \in Nat  BY SyncAssumption
<1>4. HandedTo(stat[t], call[t], error[t], m) => k # 0
  <2>1. ASSUME HandedTo(stat[t], call[t], error[t], m) PROVE k # 0
    <3>1. held[t] \in Seq(Mutex)  BY DEF MutexTypes
    <3>2. PICK c \in Nat : c = Count(m, held[t])  BY <3>1, CountType
    <3>3. k = c + 1  BY <3>2, <2>1, <1>2 DEF Takes, TakesOf
    <3> QED  BY <3>3
  <2> QED  BY <2>1
<1>5. On(held[t], m) => k # 0  BY <1>2, TakesType
<1>6. ~On(held[t], m) /\ ~HandedTo(stat[t], call[t], error[t], m) => k = 0  BY <1>2, TakesType
<1>7. mutex[m].owner = t <=> k # 0  BY <1>1, <1>2, <1>3 DEF Holds
<1>8. call[t].op # "mutex_take" => ~HandedTo(stat[t], call[t], error[t], m)  BY DEF HandedTo
<1> QED  BY <1>4, <1>5, <1>6, <1>7, <1>8

\* A step about mutexes leaves the rest alone.
LEMMA MutexCore ==
    ASSUME Core, kind = "mutex", UNCHANGED <<kind, value, owed, events, mailVars>>, ListInv',
           \A c \in Callers : \/ call'[c] = call[c]
                              \/ call'[c].op = "none"
                              \/ call'[c].op = "mutex_take" /\ call'[c].m \in Mutex
    PROVE  Core'
<1>1. Others'  BY DEF Core, Others, InitSem, InitEvent, InitMb, InitMq, mailVars
<1>2. \A c \in Callers : Fits(call[c])'  BY DEF Core, Fits
<1> QED  BY <1>1, <1>2 DEF Core

\* The takes of x after a step.
TakesThen(x, m) == TakesOf(held'[x], stat'[x], call'[x], error'[x], m)
HandedThen(x, m) == HandedTo(stat'[x], call'[x], error'[x], m)

LEMMA HoldsThen ==
    ASSUME \A m \in Mutex : FreeOrNot(mutex'[m]) /\ \A x \in Thread : Holds(mutex'[m], x, TakesThen(x, m))
    PROVE  HoldsStrong'
  BY DEF HoldsStrong, Takes, TakesThen

LEMMA TakesSame ==
    ASSUME NEW x \in Thread, NEW m \in Mutex, held'[x] = held[x],
           HandedThen(x, m) <=> HandedTo(stat[x], call[x], error[x], m)
    PROVE  TakesThen(x, m) = Takes(x, m)
  BY DEF TakesThen, Takes, TakesOf, HandedThen

\* The history only grows, and no step but a release crosses.
HistGrows ==
    /\ \A h \in {"overheld", "crossed", "nested"} : h \in hist => h \in hist'
    /\ "crossed" \in hist' => "crossed" \in hist

\* A call that fails.
LEMMA MutexFails ==
    ASSUME Core, MutexInv, kind = "mutex", UNCHANGED <<kind, flag, mailVars>>, NEW t \in Thread,
           call[t].op = "none", error' = [error EXCEPT ![t] = "ERROR"], HistGrows,
           UNCHANGED <<stat, timer, prio, call, wait, mutex, held, value, owed, events>>
    PROVE  Core' /\ MutexInv'
<1>1. ListInv  BY DEF Core
<1>2. stat[t] = "READY"  BY <1>1, CallerReady
<1>3. Spares({})  BY <1>1, <1>2, OwnError
<1>4. ListInv'  BY <1>1, <1>3, SameKeeps
<1>5. Core'  BY <1>4, MutexCore
<1>6. \A x \in Thread : x # t => error'[x] = error[x]  BY <1>1 DEF ListInv, Shapes
<1>7. ASSUME NEW x \in Thread, NEW m \in Mutex
      PROVE  HandedThen(x, m) <=> HandedTo(stat[x], call[x], error[x], m)
  <2>1. CASE x = t  BY <2>1 DEF HandedThen, HandedTo
  <2>2. CASE x # t  BY <2>2, <1>6 DEF HandedThen
  <2> QED  BY <2>1, <2>2
<1>8. ASSUME HoldsStrong PROVE HoldsStrong'
  <2>1. \A m \in Mutex : FreeOrNot(mutex'[m])  BY <1>8 DEF HoldsStrong
  <2>2. ASSUME NEW m \in Mutex, NEW x \in Thread PROVE Holds(mutex'[m], x, TakesThen(x, m))
    <3>1. TakesThen(x, m) = Takes(x, m)  BY <1>7, TakesSame
    <3> QED  BY <3>1, <1>8 DEF HoldsStrong
  <2> QED  BY <2>1, <2>2, HoldsThen
<1>9. ASSUME Bottoms PROVE Bottoms'
  <2>1. ASSUME NEW x \in Thread, NEW m \in Mutex, FirstOf(held'[x], stat'[x], call'[x], error'[x], m)
        PROVE  mutex'[m].original_priority = Prio[x]
    <3>1. FirstOf(held[x], stat[x], call[x], error[x], m)  BY <2>1, <1>7 DEF FirstOf, HandedThen
    <3> QED  BY <3>1, <1>9 DEF Bottoms
  <2> QED  BY <2>1 DEF Bottoms
<1>10. MutexTypes'  BY DEF MutexInv, MutexTypes
<1>11. PriorityRestored'  BY DEF MutexInv, PriorityRestored, Owns, HistGrows
<1>12. ASSUME Single PROVE Single'  BY <1>12 DEF Single
<1> QED  BY <1>5, <1>8, <1>9, <1>10, <1>11, <1>12 DEF MutexInv, HistGrows

LEMMA HistAsks ==
    ASSUME NEW t, NEW m, Asks(t, m)
    PROVE  /\ HistGrows
           /\ "nested" \notin hist' => \A n \in 1..Len(held[t]) : held[t][n] = m
           /\ "overheld" \notin hist' => ~(mutex[m].owner = t /\ mutex[m].hold = 0)
  BY DEF Asks, HistGrows

\* What a take that succeeds at once does to the threads: t has m once more.
LEMMA TakeHas ==
    ASSUME Core, MutexInv, kind = "mutex", UNCHANGED <<kind, flag, mailVars>>, NEW t \in Thread,
           NEW m \in Mutex, call[t].op = "none", error' = [error EXCEPT ![t] = "EOK"], Has(t, m),
           UNCHANGED <<stat, timer, prio, call, wait, value, owed, events>>
    PROVE  /\ Core'
           /\ held' \in [Thread -> Seq(Mutex)] /\ held'[t] = Append(held[t], m)
           /\ \A x \in Thread : x # t => held'[x] = held[x]
           /\ \A x \in Thread, k \in Mutex : HandedThen(x, k) <=> HandedTo(stat[x], call[x], error[x], k)
           /\ \A k \in Mutex : ~HandedThen(t, k)
           /\ \A x \in Thread, k \in Mutex :
                 TakesThen(x, k) = IF x = t /\ k = m THEN Takes(x, k) + 1 ELSE Takes(x, k)
<1>1. ListInv /\ MutexTypes  BY DEF Core, MutexInv
<1>2. stat[t] = "READY"  BY <1>1, CallerReady
<1>3. Spares({})  BY <1>1, <1>2, OwnError
<1>4. ListInv'  BY <1>1, <1>3, SameKeeps
<1>5. Core'  BY <1>4, MutexCore
<1>6. \A x \in Thread : x # t => error'[x] = error[x]  BY <1>1 DEF ListInv, Shapes
<1>7. ASSUME NEW x \in Thread, NEW k \in Mutex
      PROVE  HandedThen(x, k) <=> HandedTo(stat[x], call[x], error[x], k)
  <2>1. CASE x = t  BY <2>1 DEF HandedThen, HandedTo
  <2>2. CASE x # t  BY <2>2, <1>6 DEF HandedThen
  <2> QED  BY <2>1, <2>2
<1>8. \A k \in Mutex : ~HandedThen(t, k)  BY DEF HandedThen, HandedTo
<1>9. PICK s \in Seq(Mutex) : s = held[t]  BY <1>1 DEF MutexTypes
<1>10. PICK r : r = Append(s, m)  OBVIOUS
<1>11. r \in Seq(Mutex)  BY <1>10, AppendProperties
<1>12. /\ held' \in [Thread -> Seq(Mutex)] /\ held'[t] = r
       /\ \A x \in Thread : x # t => held'[x] = held[x]
  <2>1. held' = [held EXCEPT ![t] = r]  BY <1>9, <1>10 DEF Has
  <2> QED  BY <2>1, <1>1, <1>11 DEF MutexTypes
<1>13. ASSUME NEW x \in Thread, NEW k \in Mutex
       PROVE  TakesThen(x, k) = IF x = t /\ k = m THEN Takes(x, k) + 1 ELSE Takes(x, k)
  <2>1. CASE x # t
    <3>1. TakesThen(x, k) = Takes(x, k)  BY <2>1, <1>7, <1>12, TakesSame
    <3> QED  BY <3>1, <2>1
  <2>2. CASE x = t
    <3>1. /\ m = k => Count(k, r) = Count(k, s) + 1
          /\ m # k => Count(k, r) = Count(k, s)
      <4>1. IsAppend(r, s, m)  BY <1>10 DEF IsAppend
      <4> QED  BY <4>1, CountAppend
    <3>2. PICK c \in Nat : c = Count(k, s)  BY CountType
    <3>3. ~HandedTo(stat[t], call[t], error[t], k)  BY <1>7, <1>8
    <3>4. Takes(x, k) = c + 0 /\ TakesThen(x, k) = Count(k, r) + 0
      BY <3>2, <3>3, <2>2, <1>8, <1>9, <1>12 DEF Takes, TakesThen, TakesOf, HandedThen
    <3>5. CASE k = m  BY <3>1, <3>2, <3>4, <3>5, <2>2
    <3>6. CASE k # m  BY <3>1, <3>2, <3>4, <3>6, <2>2
    <3> QED  BY <3>5, <3>6
  <2> QED  BY <2>1, <2>2
<1> QED  BY <1>5, <1>7, <1>8, <1>9, <1>10, <1>12, <1>13

\* The first of a list that grows is the first it had, if it had one.
LEMMA AppendFirst ==
    ASSUME NEW s \in Seq(Mutex), NEW m \in Mutex, NEW r, r = Append(s, m)
    PROVE  /\ r # <<>> /\ s # <<>> => r[1] = s[1]
           /\ r # <<>> /\ s = <<>> => r[1] = m
           /\ r # <<>>
           /\ (\A n \in 1..Len(s) : s[n] = m) => \A i, j \in 1..Len(r) : r[i] = r[j]
<1>1. /\ Append(s, m) \in Seq(Mutex) /\ Len(Append(s, m)) = Len(s) + 1
      /\ Append(s, m)[Len(s) + 1] = m /\ \A i \in 1..Len(s) : Append(s, m)[i] = s[i]
  BY AppendProperties
<1>2. /\ r \in Seq(Mutex) /\ Len(r) = Len(s) + 1
      /\ r[Len(s) + 1] = m /\ \A i \in 1..Len(s) : r[i] = s[i]
  BY <1>1
<1>3. Len(s) \in Nat /\ (s = <<>> <=> Len(s) = 0) /\ (r = <<>> => Len(r) = 0)
  BY <1>2, EmptySeq, LenProperties
<1>4. r # <<>>  BY <1>2, <1>3
<1>5. CASE s = <<>>
  <2>1. Len(s) + 1 = 1  BY <1>3, <1>5
  <2>2. r[1] = m  BY <2>1, <1>2
  <2>3. \A i \in 1..Len(r) : i = 1  BY <2>1, <1>2
  <2> QED  BY <2>2, <2>3, <1>4, <1>5
<1>6. CASE s # <<>>
  <2>1. 1 \in 1..Len(s)  BY <1>3, <1>6
  <2>2. r[1] = s[1]  BY <2>1, <1>2
  <2>3. \A i \in 1..Len(r) : i \in 1..Len(s) \/ i = Len(s) + 1  BY <1>2, <1>3
  <2>4. (\A n \in 1..Len(s) : s[n] = m) => \A i \in 1..Len(r) : r[i] = m  BY <2>3, <1>2
  <2> QED  BY <2>2, <2>4, <1>4, <1>6
<1> QED  BY <1>5, <1>6

\* The owner takes its mutex once more.
LEMMA TakeAgain ==
    ASSUME Core, MutexInv, kind = "mutex", UNCHANGED <<kind, flag, mailVars>>, NEW t \in Thread,
           NEW m \in Mutex, call[t].op = "none", error' = [error EXCEPT ![t] = "EOK"], Has(t, m),
           UNCHANGED <<stat, timer, prio, call, wait, value, owed, events>>,
           "overheld" \notin hist, Asks(t, m), mutex[m].owner = t,
           mutex' = [mutex EXCEPT ![m].hold = (@ + 1) % HoldMod]
    PROVE  Core' /\ MutexInv'
<1>1. ListInv /\ MutexTypes /\ HoldsStrong  BY DEF Core, MutexInv
<1>2. /\ Core'
      /\ held' \in [Thread -> Seq(Mutex)] /\ held'[t] = Append(held[t], m)
      /\ \A x \in Thread : x # t => held'[x] = held[x]
      /\ \A x \in Thread, k \in Mutex : HandedThen(x, k) <=> HandedTo(stat[x], call[x], error[x], k)
      /\ \A x \in Thread, k \in Mutex :
            TakesThen(x, k) = IF x = t /\ k = m THEN Takes(x, k) + 1 ELSE Takes(x, k)
  BY TakeHas, ZenonT(40)
<1>3. /\ HistGrows
      /\ "nested" \notin hist' => \A n \in 1..Len(held[t]) : held[t][n] = m
      /\ "overheld" \notin hist' => ~(mutex[m].owner = t /\ mutex[m].hold = 0)
  BY HistAsks
<1>4. HoldMod \in Nat \ {0, 1}  BY SyncAssumption
<1>5. PICK x0 \in MutexRecord : x0 = mutex[m]  BY <1>1 DEF MutexTypes
<1>6. PICK h \in 0..(HoldMod - 1) : h = (x0.hold + 1) % HoldMod
  <2>1. x0.hold + 1 \in Int  BY <1>4 DEF MutexRecord
  <2> QED  BY <2>1, <1>4, ModFact
<1>7. PICK x1 \in MutexRecord :
         /\ x1.hold = h /\ x1.owner = x0.owner /\ x1.value = x0.value
         /\ x1.original_priority = x0.original_priority /\ x1 = [x0 EXCEPT !.hold = h]
  BY DEF MutexRecord
<1>8. mutex' = [mutex EXCEPT ![m] = x1]  BY <1>5, <1>6, <1>7
<1>9. mutex' \in [Mutex -> MutexRecord] /\ mutex'[m] = x1 /\ \A k \in Mutex : k # m => mutex'[k] = mutex[k]
  BY <1>1, <1>8 DEF MutexTypes
<1>10. MutexTypes'  BY <1>1, <1>2, <1>9 DEF MutexTypes
<1>11. \A k \in Mutex : /\ mutex'[k].owner = mutex[k].owner
                        /\ mutex'[k].original_priority = mutex[k].original_priority
  BY <1>5, <1>7, <1>9
<1>12. ASSUME "overheld" \notin hist' PROVE HoldsStrong'
  <2>1. \A k \in Mutex : FreeOrNot(mutex'[k])
    <3>1. x1.owner = t /\ t # Null /\ x1.value # 1
      <4>1. FreeOrNot(x0)  BY <1>1, <1>5 DEF HoldsStrong
      <4> QED  BY <4>1, <1>5, <1>7, ThreadsAssumption DEF FreeOrNot
    <3> QED  BY <3>1, <1>1, <1>9 DEF FreeOrNot, HoldsStrong
  <2>2. ASSUME NEW k \in Mutex, NEW x \in Thread PROVE Holds(mutex'[k], x, TakesThen(x, k))
    <3>1. Holds(mutex[k], x, Takes(x, k))  BY <1>1 DEF HoldsStrong
    <3>2. CASE k # m
      <4>1. TakesThen(x, k) = Takes(x, k)  BY <3>2, <1>2
      <4> QED  BY <4>1, <3>1, <3>2, <1>9
    <3>3. CASE k = m /\ x # t
      <4>1. TakesThen(x, k) = Takes(x, k)  BY <3>3, <1>2
      <4>2. Takes(x, k) = 0  BY <3>1, <3>3 DEF Holds
      <4> QED  BY <4>1, <4>2, <3>3, <1>5, <1>7, <1>9 DEF Holds
    <3>4. CASE k = m /\ x = t
      <4>1. PICK n \in 1..HoldMod : n = Takes(t, m) /\ x0.hold = n % HoldMod
        BY <3>1, <3>4, <1>5 DEF Holds
      <4>2. x0.hold # 0  BY <1>3, <1>5, <1>12
      <4>3. n # HoldMod
        <5>1. HoldMod % HoldMod = 0  BY <1>4
        <5> QED  BY <5>1, <4>1, <4>2
      <4>4. n + 1 \in 1..HoldMod  BY <4>3, <1>4
      <4>5. h = (n + 1) % HoldMod
        <5>1. n \in Int /\ 1 \in Int  BY <1>4
        <5>2. PICK one \in Int : one = 1  OBVIOUS
        <5>3. ((n % HoldMod) + one) % HoldMod = (n + one) % HoldMod  BY <5>1, <1>4, ModSum
        <5> QED  BY <5>2, <5>3, <4>1, <1>6
      <4>6. TakesThen(t, m) = n + 1  BY <4>1, <1>2
      <4> QED  BY <4>4, <4>5, <4>6, <3>4, <1>5, <1>7, <1>9 DEF Holds
    <3> QED  BY <3>2, <3>3, <3>4
  <2> QED  BY <2>1, <2>2, HoldsThen
<1>13. PriorityRestored'
  BY <1>3, <1>11 DEF MutexInv, PriorityRestored, Owns, HistGrows
<1>14. ASSUME Bottoms PROVE Bottoms'
  <2>1. ASSUME NEW x \in Thread, NEW k \in Mutex, FirstOf(held'[x], stat'[x], call'[x], error'[x], k)
        PROVE  mutex'[k].original_priority = Prio[x]
    <3>1. FirstOf(held[x], stat[x], call[x], error[x], k)
      <4>1. CASE x # t  BY <4>1, <2>1, <1>2 DEF FirstOf, HandedThen
      <4>2. CASE x = t
        <5>1. held[t] \in Seq(Mutex) /\ On(held[t], m)  BY <1>1, OwnerHas DEF MutexTypes
        <5>2. held[t] # <<>>  BY <5>1, EmptyList
        <5>3. held'[t] # <<>> /\ held'[t][1] = held[t][1]  BY <5>1, <5>2, <1>2, AppendFirst
        <5> QED  BY <5>2, <5>3, <4>2, <2>1 DEF FirstOf
      <4> QED  BY <4>1, <4>2
    <3> QED  BY <3>1, <1>11, <1>14 DEF Bottoms
  <2> QED  BY <2>1 DEF Bottoms
<1>15. ASSUME Single, "nested" \notin hist' PROVE Single'
  <2>1. held[t] \in Seq(Mutex)  BY <1>1 DEF MutexTypes
  <2>2. \A i, j \in 1..Len(held'[t]) : held'[t][i] = held'[t][j]  BY <2>1, <1>2, <1>3, <1>15, AppendFirst
  <2>3. ASSUME NEW x \in Thread
        PROVE  /\ \A i, j \in 1..Len(held'[x]) : held'[x][i] = held'[x][j]
               /\ call'[x].op = "mutex_take" => held'[x] = <<>>
    <3>1. CASE x = t  BY <3>1, <2>2
    <3>2. CASE x # t
      <4>1. held'[x] = held[x] /\ call'[x] = call[x]  BY <3>2, <1>2
      <4> QED  BY <4>1, <1>15 DEF Single
    <3> QED  BY <3>1, <3>2
  <2> QED  BY <2>3 DEF Single
<1>16. \A k \in Mutex : InOrderOf(wait[k], prio, mutex[k]) => InOrderOf(wait'[k], prio', mutex'[k])
  BY <1>11 DEF InOrderOf
<1>17. \A k \in Mutex : wait'[k] # <<>> => mutex'[k].owner # Null  BY <1>11 DEF MutexInv
<1> QED  BY <1>2, <1>3, <1>10, <1>12, <1>13, <1>14, <1>15, <1>16, <1>17 DEF MutexInv, HistGrows

\* A free mutex is taken.
LEMMA TakeFree ==
    ASSUME Core, MutexInv, kind = "mutex", UNCHANGED <<kind, flag, mailVars>>, NEW t \in Thread,
           NEW m \in Mutex, call[t].op = "none", error' = [error EXCEPT ![t] = "EOK"], Has(t, m),
           UNCHANGED <<stat, timer, prio, call, wait, value, owed, events>>,
           "overheld" \notin hist, Asks(t, m), mutex[m].owner # t, mutex[m].value > 0,
           mutex' = [mutex EXCEPT ![m] =
                [value |-> @.value - 1, owner |-> t, original_priority |-> prio[t], hold |-> @.hold + 1]]
    PROVE  Core' /\ MutexInv'
<1>1. ListInv /\ MutexTypes /\ HoldsStrong  BY DEF Core, MutexInv
<1>2. /\ Core'
      /\ held' \in [Thread -> Seq(Mutex)] /\ held'[t] = Append(held[t], m)
      /\ \A x \in Thread : x # t => held'[x] = held[x]
      /\ \A x \in Thread, k \in Mutex : HandedThen(x, k) <=> HandedTo(stat[x], call[x], error[x], k)
      /\ \A x \in Thread, k \in Mutex :
            TakesThen(x, k) = IF x = t /\ k = m THEN Takes(x, k) + 1 ELSE Takes(x, k)
  BY TakeHas
<1>3. /\ HistGrows
      /\ "nested" \notin hist' => \A n \in 1..Len(held[t]) : held[t][n] = m
  BY HistAsks
<1>4. HoldMod \in Nat \ {0, 1} /\ Null \notin Thread  BY SyncAssumption, ThreadsAssumption
<1>5. PICK x0 \in MutexRecord : x0 = mutex[m]  BY <1>1 DEF MutexTypes
<1>6. x0.value = 1 /\ x0.owner = Null /\ x0.hold = 0
  <2>1. FreeOrNot(x0) /\ x0.value > 0 /\ x0.value \in {0, 1}  BY <1>1, <1>5 DEF HoldsStrong, MutexRecord
  <2>2. x0.value = 1  BY <2>1
  <2> QED  BY <2>1, <2>2 DEF FreeOrNot
<1>7. PICK x1 : x1 = [value |-> 0, owner |-> t, original_priority |-> prio[t], hold |-> 1]  OBVIOUS
<1>8. mutex' = [mutex EXCEPT ![m] = x1]
  <2>1. x0.value - 1 = 0 /\ x0.hold + 1 = 1  BY <1>6
  <2> QED  BY <2>1, <1>5, <1>7
<1>9. x1 \in MutexRecord
  <2>1. prio[t] \in 0..255  BY <1>1 DEF MutexTypes
  <2>2. 1 \in 0..(HoldMod - 1)  BY <1>4
  <2> QED  BY <2>1, <2>2, <1>7 DEF MutexRecord
<1>10. x1.value = 0 /\ x1.owner = t /\ x1.original_priority = prio[t] /\ x1.hold = 1  BY <1>7
<1>11. mutex' \in [Mutex -> MutexRecord] /\ mutex'[m] = x1 /\ \A k \in Mutex : k # m => mutex'[k] = mutex[k]
  BY <1>1, <1>8, <1>9 DEF MutexTypes
<1>12. MutexTypes'  BY <1>1, <1>2, <1>11 DEF MutexTypes
<1>13. HoldsStrong'
  <2>1. \A k \in Mutex : FreeOrNot(mutex'[k])  BY <1>1, <1>4, <1>10, <1>11 DEF FreeOrNot, HoldsStrong
  <2>2. ASSUME NEW k \in Mutex, NEW x \in Thread PROVE Holds(mutex'[k], x, TakesThen(x, k))
    <3>1. Holds(mutex[k], x, Takes(x, k))  BY <1>1 DEF HoldsStrong
    <3>2. CASE k # m
      <4>1. TakesThen(x, k) = Takes(x, k)  BY <3>2, <1>2
      <4> QED  BY <4>1, <3>1, <3>2, <1>11
    <3>3. CASE k = m
      <4>1. Takes(x, k) = 0  BY <3>1, <3>3, <1>4, <1>5, <1>6 DEF Holds
      <4>2. CASE x # t
        <5>1. TakesThen(x, k) = 0  BY <4>1, <4>2, <1>2
        <5> QED  BY <5>1, <4>2, <3>3, <1>10, <1>11 DEF Holds
      <4>3. CASE x = t
        <5>1. TakesThen(x, k) = 0 + 1  BY <4>1, <4>3, <3>3, <1>2
        <5>2. PICK one \in 0..(HoldMod - 1) : one = 1  BY <1>4
        <5>3. one % HoldMod = one /\ one \in 1..HoldMod  BY <5>2, <1>4, ModSmall
        <5>4. TakesThen(x, k) = one  BY <5>1, <5>2
        <5> QED  BY <5>2, <5>3, <5>4, <4>3, <3>3, <1>10, <1>11 DEF Holds
      <4> QED  BY <4>2, <4>3
    <3> QED  BY <3>2, <3>3
  <2> QED  BY <2>1, <2>2, HoldsThen
<1>14. PriorityRestored'
  <2>1. ASSUME NEW x \in Thread, \A k \in Mutex : mutex'[k].owner # x PROVE \A k \in Mutex : mutex[k].owner # x
    BY <2>1, <1>4, <1>5, <1>6, <1>11
  <2> QED  BY <2>1, <1>3 DEF MutexInv, PriorityRestored, Owns, HistGrows
<1>15. ASSUME Bottoms, "crossed" \notin hist PROVE Bottoms'
  <2>1. ASSUME NEW x \in Thread, NEW k \in Mutex, FirstOf(held'[x], stat'[x], call'[x], error'[x], k)
        PROVE  mutex'[k].original_priority = Prio[x]
    <3>1. held[x] \in Seq(Mutex)  BY <1>1 DEF MutexTypes
    <3>2. ASSUME FirstOf(held[x], stat[x], call[x], error[x], k) PROVE mutex'[k].original_priority = Prio[x]
      <4>1. On(held[x], k) \/ HandedTo(stat[x], call[x], error[x], k)
        <5>1. held[x] # <<>> => On(held[x], held[x][1])  BY <3>1, EmptyList
        <5> QED  BY <5>1, <3>2 DEF FirstOf
      <4>2. mutex[k].owner = x  BY <4>1, <1>1, OwnerHas
      <4>3. k # m  BY <4>2, <1>4, <1>5, <1>6
      <4> QED  BY <4>3, <3>2, <1>11, <1>15 DEF Bottoms
    <3>3. CASE x # t
      <4>1. FirstOf(held[x], stat[x], call[x], error[x], k)  BY <3>3, <2>1, <1>2 DEF FirstOf, HandedThen
      <4> QED  BY <4>1, <3>2
    <3>4. CASE x = t /\ held[t] # <<>>
      <4>0. held[t] \in Seq(Mutex) /\ held[t] # <<>>  BY <3>1, <3>4
      <4>1. held'[t] # <<>> /\ held'[t][1] = held[t][1]  BY <4>0, <1>2, AppendFirst
      <4>2. FirstOf(held[x], stat[x], call[x], error[x], k)  BY <4>1, <3>4, <2>1 DEF FirstOf
      <4> QED  BY <4>2, <3>2
    <3>5. CASE x = t /\ held[t] = <<>>
      <4>1. held'[t] # <<>> /\ held'[t][1] = m  BY <3>1, <3>5, <1>2, AppendFirst
      <4>2. k = m  BY <4>1, <3>5, <2>1 DEF FirstOf
      <4>3. \A j \in Mutex : ~On(held[t], j)  BY <3>1, <3>5, EmptyList
      <4>4. \A j \in Mutex : mutex[j].owner # t  BY <4>3, <1>1, OwnerHas
      <4>5. prio[t] = Prio[t]  BY <4>4, <1>15 DEF MutexInv, PriorityRestored, Owns
      <4> QED  BY <4>2, <4>5, <3>5, <1>10, <1>11
    <3> QED  BY <3>3, <3>4, <3>5
  <2> QED  BY <2>1 DEF Bottoms
<1>16. ASSUME Single, "nested" \notin hist' PROVE Single'
  <2>1. held[t] \in Seq(Mutex)  BY <1>1 DEF MutexTypes
  <2>2. \A i, j \in 1..Len(held'[t]) : held'[t][i] = held'[t][j]  BY <2>1, <1>2, <1>3, <1>16, AppendFirst
  <2>3. ASSUME NEW x \in Thread
        PROVE  /\ \A i, j \in 1..Len(held'[x]) : held'[x][i] = held'[x][j]
               /\ call'[x].op = "mutex_take" => held'[x] = <<>>
    <3>1. CASE x = t  BY <3>1, <2>2
    <3>2. CASE x # t
      <4>1. held'[x] = held[x] /\ call'[x] = call[x]  BY <3>2, <1>2
      <4> QED  BY <4>1, <1>16 DEF Single
    <3> QED  BY <3>1, <3>2
  <2> QED  BY <2>3 DEF Single
<1>17. wait[m] = <<>>  BY <1>5, <1>6 DEF MutexInv
<1>18. \A k \in Mutex : InOrderOf(wait[k], prio, mutex[k]) => InOrderOf(wait'[k], prio', mutex'[k])
  <2>1. \A k : k \notin 1..Len(<<>>)  BY EmptySeq
  <2>2. InOrderOf(wait'[m], prio', mutex'[m])  BY <2>1, <1>17 DEF InOrderOf, SortedBy, On
  <2> QED  BY <2>2, <1>11
<1>19. \A k \in Mutex : wait'[k] # <<>> => mutex'[k].owner # Null  BY <1>11, <1>17 DEF MutexInv
<1> QED  BY <1>2, <1>3, <1>12, <1>13, <1>14, <1>15, <1>16, <1>18, <1>19 DEF MutexInv, HistGrows

LEMMA LeqTransitive == \A a, b, c \in Int : a <= b /\ b <= c => a <= c
  OBVIOUS

LEMMA SortedSame ==
    ASSUME NEW l, NEW p, SortedBy(l, p), NEW q, \A x : On(l, x) => q[x] = p[x]
    PROVE  SortedBy(l, q)
<1>1. \A i \in 1..Len(l) : q[l[i]] = p[l[i]]  BY DEF On
<1> QED  BY <1>1 DEF SortedBy

\* A thread on the list of a mutex waits for that mutex.
LEMMA WaitsForMutex ==
    ASSUME ListInv, NEW m \in Mutex, NEW x \in Thread, On(wait[m], x)
    PROVE  stat[x] = "SUSPEND" /\ call[x].op = "mutex_take" /\ call[x].m = m
<1>1. m \in Lists /\ m \notin ObjectLists  BY ThreadsAssumption DEF Lists
<1>2. stat[x] = "SUSPEND" /\ WaitsOn(call[x], m)  BY <1>1 DEF ListInv
<1> QED  BY <1>1, <1>2 DEF WaitsOn, ObjectLists

\* As long as nobody nests, an owner does not wait.
LEMMA OwnersRun ==
    ASSUME ListInv, MutexTypes, HoldsStrong, Single, NEW m \in Mutex, NEW o \in Thread, mutex[m].owner = o,
           NEW k \in Mutex
    PROVE  ~On(wait[k], o)
<1> SUFFICES ASSUME On(wait[k], o) PROVE FALSE
  OBVIOUS
<1>1. stat[o] = "SUSPEND" /\ call[o].op = "mutex_take"  BY WaitsForMutex
<1>2. held[o] = <<>> /\ held[o] \in Seq(Mutex)  BY <1>1 DEF Single, MutexTypes
<1>3. ~On(held[o], m)  BY <1>2, EmptyList
<1>4. ~HandedTo(stat[o], call[o], error[o], m)  BY <1>1 DEF HandedTo
<1> QED  BY <1>3, <1>4, OwnerHas

\* What lending does to the priorities.
LEMMA LendIs ==
    ASSUME prio \in [Thread -> 0..255], NEW t \in Thread, NEW m \in Mutex, NEW o \in Thread,
           mutex[m].owner = o, Lend(t, m)
    PROVE  /\ prio' \in [Thread -> 0..255] /\ \A x \in Thread : x # o => prio'[x] = prio[x]
           /\ \A x \in Thread : prio'[x] <= prio[x]
           /\ prio'[o] <= prio[t]
<1>1. PICK a \in 0..255, b \in 0..255 : a = prio[t] /\ b = prio[o]  OBVIOUS
<1>2. \A x \in Thread : prio[x] \in 0..255 /\ prio[x] <= prio[x]
  <2>1. \A n \in 0..255 : n <= n  OBVIOUS
  <2> QED  BY <2>1
<1>3. CASE a < b
  <2>1. prio' = [prio EXCEPT ![o] = a]  BY <1>1, <1>3 DEF Lend, ChangePriority
  <2>2. prio' \in [Thread -> 0..255] /\ prio'[o] = a /\ \A x \in Thread : x # o => prio'[x] = prio[x]
    BY <2>1
  <2>3. a <= b /\ a <= a  BY <1>3
  <2> QED  BY <2>2, <2>3, <1>1, <1>2
<1>4. CASE ~(a < b)
  <2>1. prio' = prio  BY <1>1, <1>4 DEF Lend
  <2>2. b <= a  BY <1>4
  <2> QED  BY <2>1, <2>2, <1>1, <1>2
<1> QED  BY <1>3, <1>4

\* The mutex is another's: the thread waits for it.
LEMMA TakeWaits ==
    ASSUME Core, MutexInv, kind = "mutex", UNCHANGED <<kind, flag, mailVars>>, NEW t \in Thread,
           NEW m \in Mutex, call[t].op = "none", NEW time,
           UNCHANGED <<mutex, held, value, owed, events>>,
           "overheld" \notin hist, Asks(t, m), mutex[m].owner # t, mutex[m].value = 0,
           Lend(t, m), Suspend(t, m, [op |-> "mutex_take", m |-> m], time)
    PROVE  Core' /\ MutexInv'
<1>1. ListInv /\ MutexTypes /\ HoldsStrong  BY DEF Core, MutexInv
<1>2. stat[t] = "READY" /\ t \in Callers  BY <1>1, CallerReady DEF Callers
<1>3. m \in Lists  BY DEF Lists
<1>4. PICK c : c = [op |-> "mutex_take", m |-> m]  OBVIOUS
<1>5. c.op = "mutex_take" /\ c.m = m /\ WaitsOn(c, m)  BY <1>4 DEF WaitsOn
<1>6. Suspend(t, m, c, time)  BY <1>4
<1>7. ListInv'  BY <1>1, <1>2, <1>3, <1>5, <1>6, SuspendKeeps
<1>8. /\ call'[t] = c /\ \A x \in Callers : x # t => call'[x] = call[x]
      /\ stat'[t] = "SUSPEND" /\ \A x \in Thread : x # t => stat'[x] = stat[x] /\ error'[x] = error[x]
  BY <1>1, <1>2, <1>6 DEF Suspend, ListInv, Shapes
<1>9. Core'  BY <1>5, <1>7, <1>8, MutexCore
<1>10. /\ HistGrows
       /\ "nested" \notin hist' => \A n \in 1..Len(held[t]) : held[t][n] = m
  BY HistAsks
<1>11. PICK o \in Thread : mutex[m].owner = o /\ o # t
  <2>1. FreeOrNot(mutex[m]) /\ mutex[m].owner \in Thread \cup {Null}
    BY <1>1 DEF HoldsStrong, MutexTypes, MutexRecord
  <2> QED  BY <2>1 DEF FreeOrNot
<1>12. /\ prio' \in [Thread -> 0..255] /\ \A x \in Thread : x # o => prio'[x] = prio[x]
       /\ \A x \in Thread : prio'[x] <= prio[x]
       /\ prio'[o] <= prio[t]
  <2>1. prio \in [Thread -> 0..255]  BY <1>1 DEF MutexTypes
  <2> QED  BY <2>1, <1>11, LendIs
<1>13. MutexTypes'  BY <1>1, <1>12 DEF MutexTypes
<1>14. ASSUME NEW x \in Thread, NEW k \in Mutex
       PROVE  HandedThen(x, k) <=> HandedTo(stat[x], call[x], error[x], k)
  <2>1. CASE x = t  BY <2>1, <1>8 DEF HandedThen, HandedTo
  <2>2. CASE x # t
    <3>1. x \in Callers  BY DEF Callers
    <3> QED  BY <3>1, <2>2, <1>8 DEF HandedThen
  <2> QED  BY <2>1, <2>2
<1>15. HoldsStrong'
  <2>1. \A k \in Mutex : FreeOrNot(mutex'[k])  BY <1>1 DEF HoldsStrong
  <2>2. ASSUME NEW k \in Mutex, NEW x \in Thread PROVE Holds(mutex'[k], x, TakesThen(x, k))
    <3>1. TakesThen(x, k) = Takes(x, k)  BY <1>14, TakesSame
    <3> QED  BY <3>1, <1>1 DEF HoldsStrong
  <2> QED  BY <2>1, <2>2, HoldsThen
<1>16. PriorityRestored'
  <2>1. ASSUME NEW x \in Thread, ~Owns(x) PROVE prio'[x] = prio[x]  BY <2>1, <1>11, <1>12 DEF Owns
  <2>2. \A x \in Thread : Owns(x)' <=> Owns(x)  BY DEF Owns
  <2> QED  BY <2>1, <2>2, <1>10 DEF MutexInv, PriorityRestored, HistGrows
<1>17. ASSUME Bottoms PROVE Bottoms'
  <2>1. ASSUME NEW x \in Thread, NEW k \in Mutex, FirstOf(held'[x], stat'[x], call'[x], error'[x], k)
        PROVE  mutex'[k].original_priority = Prio[x]
    <3>1. FirstOf(held[x], stat[x], call[x], error[x], k)  BY <2>1, <1>14 DEF FirstOf, HandedThen
    <3> QED  BY <3>1, <1>17 DEF Bottoms
  <2> QED  BY <2>1 DEF Bottoms
<1>18. ASSUME Single, "nested" \notin hist' PROVE Single'
  <2>1. held[t] = <<>>
    <3>1. held[t] \in Seq(Mutex)  BY <1>1 DEF MutexTypes
    <3>2. ~On(held[t], m)  BY <1>1, <1>11, OwnerHas
    <3>3. \A k \in Mutex : ~On(held[t], k)  BY <3>2, <1>10, <1>18 DEF On
    <3> QED  BY <3>1, <3>3, EmptyList
  <2>2. ASSUME NEW x \in Thread
        PROVE  /\ \A i, j \in 1..Len(held'[x]) : held'[x][i] = held'[x][j]
               /\ call'[x].op = "mutex_take" => held'[x] = <<>>
    <3>1. \A i, j \in 1..Len(held[x]) : held[x][i] = held[x][j]  BY <1>18 DEF Single
    <3>2. CASE x = t  BY <3>1, <3>2, <2>1
    <3>3. CASE x # t
      <4>1. call'[x] = call[x]  BY <3>3, <1>8 DEF Callers
      <4> QED  BY <4>1, <3>1, <1>18 DEF Single
    <3> QED  BY <3>2, <3>3
  <2> QED  BY <2>2 DEF Single
<1>19. PICK r : r = Inserted(wait[m], t)  OBVIOUS
<1>20. /\ wait[m] \in Seq(Thread) /\ wait'[m] = r /\ \A k \in Mutex : k # m => wait'[k] = wait[k]
       /\ \A x : On(r, x) <=> x = t \/ On(wait[m], x)
  <2>1. wait \in [Lists -> Seq(Thread)] /\ Once(wait[m]) /\ ~On(wait[m], t)
    BY <1>1, <1>2, <1>3 DEF ListInv, Shapes
  <2>2. wait' = [wait EXCEPT ![m] = r]  BY <1>6, <1>19 DEF Suspend
  <2>3. wait[m] \in Seq(Thread)  BY <2>1, <1>3
  <2>4. \A x : On(r, x) <=> x = t \/ On(wait[m], x)  BY <2>1, <2>3, <1>19, InsertedSeq
  <2> QED  BY <2>1, <2>2, <2>3, <2>4, <1>3 DEF Lists
<1>21. ASSUME flag = "PRIO", "nested" \notin hist, NEW k \in Mutex
       PROVE  InOrderOf(wait'[k], prio', mutex'[k])
  <2>1. Single /\ InOrderOf(wait[k], prio, mutex[k])  BY <1>21 DEF MutexInv
  <2>2. SortedBy(wait[k], prio) /\ \A x \in Thread : On(wait[k], x) => prio[mutex[k].owner] <= prio[x]
    BY <2>1 DEF InOrderOf
  <2>3. ~On(wait[k], o) /\ wait[k] \in Seq(Thread)
    BY <2>1, <1>1, <1>11, OwnersRun DEF ListInv, Shapes, Lists
  <2>4. SortedBy(wait'[k], prio) /\ \A x \in Thread : On(wait'[k], x) => On(wait[k], x) \/ (k = m /\ x = t)
    <3>1. CASE k = m
      <4>1. SortedBy(r, prio)  BY <3>1, <2>2, <1>1, <1>19, <1>20, <1>21, SortedInserted DEF MutexTypes
      <4> QED  BY <4>1, <3>1, <1>20
    <3>2. CASE k # m  BY <3>2, <2>2, <1>20
    <3> QED  BY <3>1, <3>2
  <2>5. wait'[k] \in Seq(Thread)  BY <1>7 DEF ListInv, Shapes, Lists
  <2>6. \A x : On(wait'[k], x) => x \in Thread /\ x # o
    <3>1. \A x : On(wait'[k], x) => x \in Thread  BY <2>5, ElementOfSeq DEF On
    <3> QED  BY <3>1, <2>3, <2>4, <1>11
  <2>7. SortedBy(wait'[k], prio')
    <3>1. \A x : On(wait'[k], x) => prio'[x] = prio[x]  BY <2>6, <1>12
    <3> QED  BY <3>1, <2>4, SortedSame
  <2>8. ASSUME NEW x \in Thread, On(wait'[k], x) PROVE prio'[mutex'[k].owner] <= prio'[x]
    <3>1. prio'[x] = prio[x] /\ prio[x] \in 0..255  BY <2>6, <2>8, <1>1, <1>12 DEF MutexTypes
    <3>2. CASE On(wait[k], x)
      <4>1. wait[k] # <<>>  BY <3>2, <2>3, EmptyList
      <4>2. PICK u \in Thread : mutex[k].owner = u
        <5>1. mutex[k].owner # Null  BY <4>1 DEF MutexInv
        <5>2. mutex[k].owner \in Thread \cup {Null}  BY <1>1 DEF MutexTypes, MutexRecord
        <5> QED  BY <5>1, <5>2
      <4>3. PICK a, b, d : a = prio'[u] /\ b = prio[u] /\ d = prio[x]  OBVIOUS
      <4>4. a \in 0..255 /\ b \in 0..255 /\ d \in 0..255  BY <4>3, <3>1, <1>1, <1>12, ZenonT(40) DEF MutexTypes
      <4>5. a <= b /\ b <= d  BY <4>2, <4>3, <3>2, <2>2, <1>12
      <4>6. a <= d
        <5>1. a \in Int /\ b \in Int /\ d \in Int  BY <4>4
        <5> QED  BY <5>1, <4>5, LeqTransitive
      <4>7. mutex'[k].owner = u  BY <4>2
      <4> QED  BY <4>3, <4>6, <4>7, <3>1
    <3>3. CASE k = m /\ x = t  BY <3>1, <3>3, <1>11, <1>12
    <3> QED  BY <3>2, <3>3, <2>4, <2>8
  <2> QED  BY <2>7, <2>8 DEF InOrderOf
<1>22. \A k \in Mutex : wait'[k] # <<>> => mutex'[k].owner # Null
  BY <1>11, <1>20, ThreadsAssumption DEF MutexInv
<1> QED  BY <1>9, <1>10, <1>13, <1>15, <1>16, <1>17, <1>18, <1>21, <1>22 DEF MutexInv, HistGrows

LEMMA MutexTakeKeeps ==
    ASSUME Core, MutexInv, kind = "mutex", UNCHANGED <<kind, flag, mailVars>>, NEW t \in Thread,
           NEW m \in Mutex, NEW time \in Times, MutexTake(t, m, time)
    PROVE  Core' /\ MutexInv'
<1>1. /\ call[t].op = "none" /\ "overheld" \notin hist /\ Asks(t, m)
      /\ UNCHANGED <<value, owed, events>>
  BY DEF MutexTake, Idle
<1>2. CASE /\ mutex[m].owner = t
           /\ mutex' = [mutex EXCEPT ![m].hold = (@ + 1) % HoldMod]
           /\ error' = [error EXCEPT ![t] = "EOK"]
           /\ Has(t, m)
           /\ UNCHANGED <<stat, timer, prio, call, wait>>
  BY <1>1, <1>2, TakeAgain
<1>3. CASE /\ mutex[m].owner # t /\ mutex[m].value > 0
           /\ mutex' = [mutex EXCEPT ![m] =
                [value |-> @.value - 1, owner |-> t, original_priority |-> prio[t], hold |-> @.hold + 1]]
           /\ error' = [error EXCEPT ![t] = "EOK"]
           /\ Has(t, m)
           /\ UNCHANGED <<stat, timer, prio, call, wait>>
  BY <1>1, <1>3, TakeFree
<1>4. CASE /\ error' = [error EXCEPT ![t] = "ERROR"]
           /\ UNCHANGED <<stat, timer, prio, call, wait, mutex, held>>
  <2>1. HistGrows  BY <1>1, HistAsks
  <2> QED  BY <2>1, <1>1, <1>4, MutexFails
<1>5. CASE /\ mutex[m].owner # t /\ mutex[m].value = 0
           /\ Lend(t, m)
           /\ Suspend(t, m, [op |-> "mutex_take", m |-> m], time)
           /\ UNCHANGED <<mutex, held>>
  BY <1>1, <1>5, TakeWaits
<1> QED  BY <1>2, <1>3, <1>4, <1>5 DEF MutexTake

\* The call goes on with the mutex, or without.
LEMMA MutexTakenKeeps ==
    ASSUME Core, MutexInv, kind = "mutex", UNCHANGED <<kind, flag, mailVars>>, NEW t \in Thread,
           MutexTaken(t)
    PROVE  Core' /\ MutexInv'
<1>1. ListInv /\ stat[t] = "READY" /\ call[t].op = "mutex_take" /\ t \in Callers /\ MutexTypes
  BY DEF Core, MutexTaken, Resumed, Callers, MutexInv
<1>2. UNCHANGED <<stat, error, timer, prio, wait, value, owed, mutex, events, hist>>  BY DEF MutexTaken
<1>3. call' = [call EXCEPT ![t] = [op |-> "none"]]  BY DEF MutexTaken, Return, NoCall
<1>4. Spares({}) /\ call'[t] = [op |-> "none"] /\ \A x \in Callers : x # t => call'[x] = call[x]
  BY <1>1, <1>2, <1>3, OwnCall
<1>5. ListInv'  BY <1>1, <1>2, <1>4, SameKeeps
<1>6. Core'  BY <1>2, <1>4, <1>5, MutexCore
<1>7. PICK m \in Mutex : m = call[t].m  BY <1>1, CallsFit
<1>8. PICK s \in Seq(Mutex) : s = held[t]  BY <1>1 DEF MutexTypes
<1>9. PICK r : r = IF error[t] = "EOK" THEN Append(s, m) ELSE s  OBVIOUS
<1>10. held' = [held EXCEPT ![t] = r]
  <2>1. CASE error[t] = "EOK"  BY <2>1, <1>7, <1>8, <1>9 DEF MutexTaken, Has
  <2>2. CASE error[t] # "EOK"
    <3>1. held' = held /\ r = held[t]  BY <2>2, <1>8, <1>9 DEF MutexTaken
    <3> QED  BY <3>1, <1>1 DEF MutexTypes
  <2> QED  BY <2>1, <2>2
<1>11. r \in Seq(Mutex)
  <2>1. Append(s, m) \in Seq(Mutex)  BY AppendProperties
  <2> QED  BY <2>1, <1>9
<1>12. /\ held' \in [Thread -> Seq(Mutex)] /\ held'[t] = r
       /\ \A x \in Thread : x # t => held'[x] = held[x]
  BY <1>1, <1>10, <1>11 DEF MutexTypes
<1>13. MutexTypes'  BY <1>1, <1>2, <1>12 DEF MutexTypes
<1>14. \A k \in Mutex : ~HandedThen(t, k)  BY <1>4 DEF HandedThen, HandedTo
<1>15. \A k \in Mutex : HandedTo(stat[t], call[t], error[t], k) <=> (error[t] = "EOK" /\ k = m)
  BY <1>1, <1>7 DEF HandedTo
<1>16. \A x \in Thread, k \in Mutex : x # t => (HandedThen(x, k) <=> HandedTo(stat[x], call[x], error[x], k))
  BY <1>2, <1>4 DEF HandedThen, Callers
<1>17. ASSUME NEW x \in Thread, NEW k \in Mutex PROVE TakesThen(x, k) = Takes(x, k)
  <2>1. CASE x # t  BY <2>1, <1>12, <1>16, TakesSame
  <2>2. CASE x = t /\ error[t] # "EOK"
    <3>1. held'[x] = held[x]  BY <2>2, <1>8, <1>9, <1>12
    <3> QED  BY <3>1, <2>2, <1>14, <1>15, TakesSame
  <2>3. CASE x = t /\ error[t] = "EOK"
    <3>1. PICK c \in Nat : c = Count(k, s)  BY CountType
    <3>2. IsAppend(r, s, m)  BY <2>3, <1>9 DEF IsAppend
    <3>3. (m = k => Count(k, r) = c + 1) /\ (m # k => Count(k, r) = c)  BY <3>1, <3>2, CountAppend
    <3>4. TakesThen(t, k) = Count(k, r) + 0  BY <1>12, <1>14 DEF TakesThen, TakesOf, HandedThen
    <3>5. CASE k = m
      <4>1. Takes(t, k) = c + 1  BY <3>1, <3>5, <2>3, <1>8, <1>15 DEF Takes, TakesOf
      <4> QED  BY <4>1, <3>3, <3>4, <3>5, <2>3
    <3>6. CASE k # m
      <4>1. Takes(t, k) = c + 0  BY <3>1, <3>6, <2>3, <1>8, <1>15 DEF Takes, TakesOf
      <4> QED  BY <4>1, <3>3, <3>4, <3>6, <2>3
    <3> QED  BY <3>5, <3>6
  <2> QED  BY <2>1, <2>2, <2>3
<1>18. ASSUME HoldsStrong PROVE HoldsStrong'
  <2>1. \A k \in Mutex : FreeOrNot(mutex'[k])  BY <1>2, <1>18 DEF HoldsStrong
  <2>2. ASSUME NEW k \in Mutex, NEW x \in Thread PROVE Holds(mutex'[k], x, TakesThen(x, k))
    BY <1>2, <1>17, <1>18 DEF HoldsStrong
  <2> QED  BY <2>1, <2>2, HoldsThen
<1>19. PriorityRestored'  BY <1>2 DEF MutexInv, PriorityRestored, Owns
<1>20. ASSUME Bottoms PROVE Bottoms'
  <2>1. ASSUME NEW x \in Thread, NEW k \in Mutex, FirstOf(held'[x], stat'[x], call'[x], error'[x], k)
        PROVE  FirstOf(held[x], stat[x], call[x], error[x], k)
    <3>1. CASE x # t  BY <3>1, <2>1, <1>12, <1>16 DEF FirstOf, HandedThen
    <3>2. CASE x = t /\ error[t] # "EOK"
      <4>1. held'[t] = held[t]  BY <3>2, <1>8, <1>9, <1>12
      <4> QED  BY <4>1, <3>2, <2>1, <1>14 DEF FirstOf, HandedThen
    <3>3. CASE x = t /\ error[t] = "EOK"
      <4>1. r = Append(s, m)  BY <3>3, <1>9
      <4>2. r # <<>> /\ (s # <<>> => r[1] = s[1]) /\ (s = <<>> => r[1] = m)  BY <4>1, AppendFirst
      <4>3. r[1] = k  BY <4>2, <3>3, <2>1, <1>12 DEF FirstOf
      <4> QED  BY <4>2, <4>3, <3>3, <1>8, <1>15 DEF FirstOf
    <3> QED  BY <3>1, <3>2, <3>3
  <2> QED  BY <2>1, <1>2, <1>20 DEF Bottoms
<1>21. ASSUME Single PROVE Single'
  <2>1. s = <<>>  BY <1>1, <1>8, <1>21 DEF Single
  <2>2. \A i, j \in 1..Len(r) : r[i] = r[j]
    <3>1. \A k : k \notin 1..Len(<<>>)  BY EmptySeq
    <3>2. CASE error[t] = "EOK"
      <4>1. r = Append(s, m) /\ \A n \in 1..Len(s) : s[n] = m  BY <3>1, <3>2, <2>1, <1>9
      <4> QED  BY <4>1, AppendFirst
    <3>3. CASE error[t] # "EOK"  BY <3>1, <3>3, <2>1, <1>9
    <3> QED  BY <3>2, <3>3
  <2>3. ASSUME NEW x \in Thread
        PROVE  /\ \A i, j \in 1..Len(held'[x]) : held'[x][i] = held'[x][j]
               /\ call'[x].op = "mutex_take" => held'[x] = <<>>
    <3>1. CASE x = t  BY <3>1, <2>2, <1>4, <1>12
    <3>2. CASE x # t
      <4>1. held'[x] = held[x] /\ call'[x] = call[x]  BY <3>2, <1>4, <1>12 DEF Callers
      <4> QED  BY <4>1, <1>21 DEF Single
    <3> QED  BY <3>1, <3>2
  <2> QED  BY <2>3 DEF Single
<1> QED  BY <1>2, <1>6, <1>13, <1>18, <1>19, <1>20, <1>21 DEF MutexInv

AllSame(s) == \A i, j \in 1..Len(s) : s[i] = s[j]

\* What is left of a list when one of it has gone.
LEMMA RemovedIs ==
    ASSUME NEW s \in Seq(Mutex), NEW p \in 1..Len(s), NEW r, r = RemoveAt(s, p)
    PROVE  /\ p = Len(s) /\ r # <<>> => r[1] = s[1]
           /\ AllSame(s) => AllSame(r)
<1>1. /\ r \in Seq(Mutex) /\ Len(r) = Len(s) - 1
      /\ \A k \in 1..(Len(s) - 1) : r[k] = s[IF k < p THEN k ELSE k + 1]
  BY RemoveAtIs
<1>2. Len(s) \in Nat /\ Len(r) \in Nat  BY <1>1, LenProperties
<1>3. ASSUME p = Len(s), r # <<>> PROVE r[1] = s[1]
  <2>1. Len(r) # 0  BY <1>1, <1>3, EmptySeq
  <2>2. 1 \in 1..(Len(s) - 1) /\ 1 < p  BY <2>1, <1>1, <1>2, <1>3
  <2> QED  BY <2>2, <1>1
<1>4. ASSUME \A i, j \in 1..Len(s) : s[i] = s[j], NEW i \in 1..Len(r), NEW j \in 1..Len(r)
      PROVE  r[i] = r[j]
  <2>1. PICK a \in 1..Len(s) : r[i] = s[a]
    <3>1. (IF i < p THEN i ELSE i + 1) \in 1..Len(s) /\ i \in 1..(Len(s) - 1)  BY <1>1, <1>2
    <3> QED  BY <3>1, <1>1
  <2>2. PICK b \in 1..Len(s) : r[j] = s[b]
    <3>1. (IF j < p THEN j ELSE j + 1) \in 1..Len(s) /\ j \in 1..(Len(s) - 1)  BY <1>1, <1>2
    <3> QED  BY <3>1, <1>1
  <2> QED  BY <2>1, <2>2, <1>4
<1> QED  BY <1>3, <1>4 DEF AllSame

\* The owner, which is in no call, drops the mutex once.
DropFacts(t, m, r) ==
    /\ r \in Seq(Mutex) /\ held' \in [Thread -> Seq(Mutex)] /\ held'[t] = r
    /\ \A x \in Thread : x # t => held'[x] = held[x]
    /\ Count(m, r) = Takes(t, m) - 1
    /\ \A k \in Mutex : k # m => Count(k, r) = Takes(t, k)
    /\ "crossed" \notin hist' => r = <<>> \/ r[1] = held[t][1]
    /\ (\A i, j \in 1..Len(held[t]) : held[t][i] = held[t][j]) =>
          hist' = hist /\ \A i, j \in 1..Len(r) : r[i] = r[j]
    /\ hist' = hist \/ hist' = hist \cup {"crossed"}

LEMMA DropIs ==
    ASSUME MutexTypes, HoldsStrong, NEW t \in Thread, NEW m \in Mutex, call[t].op = "none",
           mutex[m].owner = t, Drops(t, m)
    PROVE  On(held[t], m) /\ \E r : DropFacts(t, m, r)
<1>1. On(held[t], m)  BY OwnerHas
<1>2. PICK p \in 1..Len(held[t]), r \in Seq(Mutex) :
         /\ held[t][p] = m /\ \A j \in (p + 1)..Len(held[t]) : held[t][j] # m
         /\ r = RemoveAt(held[t], p) /\ held' = [held EXCEPT ![t] = r]
         /\ hist' = IF p = Len(held[t]) THEN hist ELSE hist \cup {"crossed"}
  BY <1>1, DropsIs DEF MutexTypes
<1>3. PICK s \in Seq(Mutex) : s = held[t]  BY DEF MutexTypes
<1>4. Len(s) \in Nat  BY LenProperties
<1>5. \A k \in Mutex : Count(k, s) \in Nat /\ Takes(t, k) = Count(k, s)
  <2>1. ASSUME NEW k \in Mutex PROVE Count(k, s) \in Nat /\ Takes(t, k) = Count(k, s)
    <3>1. PICK c \in Nat : c = Count(k, s)  BY CountType
    <3>2. ~HandedTo(stat[t], call[t], error[t], k)  BY DEF HandedTo
    <3>3. Takes(t, k) = c + 0  BY <3>1, <3>2, <1>3 DEF Takes, TakesOf
    <3>4. c + 0 = c  OBVIOUS
    <3> QED  BY <3>1, <3>3, <3>4
  <2> QED  BY <2>1
<1>6. r = RemoveAt(s, p) /\ s[p] = m /\ p \in 1..Len(s)  BY <1>2, <1>3
<1>7. \A k \in Mutex : (k = m => Count(k, r) = Count(k, s) - 1) /\ (k # m => Count(k, r) = Count(k, s))
  BY <1>6, CountRemoved
<1>8. /\ p = Len(s) /\ r # <<>> => r[1] = s[1]
      /\ AllSame(s) => AllSame(r)
  BY <1>6, RemovedIs
<1>9. ASSUME \A i, j \in 1..Len(s) : s[i] = s[j] PROVE p = Len(s)
  <2>1. p \in 1..Len(s) /\ Len(s) \in 1..Len(s)  BY <1>4, <1>6
  <2>2. s[Len(s)] = m  BY <2>1, <1>6, <1>9
  <2>3. ~(Len(s) \in (p + 1)..Len(s))  BY <2>2, <1>2, <1>3
  <2> QED  BY <2>1, <2>3, <1>4
<1>10. held' \in [Thread -> Seq(Mutex)] /\ held'[t] = r /\ \A x \in Thread : x # t => held'[x] = held[x]
  BY <1>2 DEF MutexTypes
<1>11. Count(m, r) = Takes(t, m) - 1 /\ \A k \in Mutex : k # m => Count(k, r) = Takes(t, k)  BY <1>5, <1>7
<1>12. "crossed" \notin hist' => r = <<>> \/ r[1] = held[t][1]  BY <1>2, <1>3, <1>8
<1>13. ASSUME \A i, j \in 1..Len(held[t]) : held[t][i] = held[t][j]
       PROVE  hist' = hist /\ \A i, j \in 1..Len(r) : r[i] = r[j]
  BY <1>2, <1>3, <1>8, <1>9, <1>13 DEF AllSame
<1>14. hist' = hist \/ hist' = hist \cup {"crossed"}  BY <1>2
<1>15. DropFacts(t, m, r)  BY <1>2, <1>10, <1>11, <1>12, <1>13, <1>14 DEF DropFacts
<1> QED  BY <1>1, <1>15

\* One hold of several is gone.
LEMMA ReleaseOne ==
    ASSUME Core, MutexInv, kind = "mutex", UNCHANGED <<kind, flag, mailVars>>, NEW t \in Thread,
           NEW m \in Mutex, call[t].op = "none", "overheld" \notin hist,
           mutex[m].owner = t, mutex[m].hold # 1,
           mutex' = [mutex EXCEPT ![m].hold = (@ - 1) % HoldMod], Drops(t, m),
           UNCHANGED <<stat, error, timer, prio, wait, call, value, owed, events>>
    PROVE  Core' /\ MutexInv'
<1>1. ListInv /\ MutexTypes /\ HoldsStrong  BY DEF Core, MutexInv
<1>2. ListInv'  BY <1>1, NoOne, SameKeeps
<1>3. Core'  BY <1>2, MutexCore
<1>4. On(held[t], m) /\ \E u : DropFacts(t, m, u)  BY <1>1, DropIs
<1>5. PICK r : DropFacts(t, m, r)  BY <1>4
<1>6. /\ r \in Seq(Mutex) /\ held' \in [Thread -> Seq(Mutex)] /\ held'[t] = r
      /\ \A x \in Thread : x # t => held'[x] = held[x]
      /\ Count(m, r) = Takes(t, m) - 1 /\ \A k \in Mutex : k # m => Count(k, r) = Takes(t, k)
      /\ hist' = hist \/ hist' = hist \cup {"crossed"}
  BY <1>5 DEF DropFacts
<1>7. HoldMod \in Nat \ {0, 1} /\ Null \notin Thread  BY SyncAssumption, ThreadsAssumption
<1>8. PICK x0 \in MutexRecord : x0 = mutex[m]  BY <1>1 DEF MutexTypes
<1>9. PICK h \in 0..(HoldMod - 1) : h = (x0.hold - 1) % HoldMod
  <2>1. x0.hold - 1 \in Int  BY <1>7 DEF MutexRecord
  <2> QED  BY <2>1, <1>7, ModFact
<1>10. PICK x1 \in MutexRecord :
         /\ x1.hold = h /\ x1.owner = x0.owner /\ x1.value = x0.value
         /\ x1.original_priority = x0.original_priority /\ x1 = [x0 EXCEPT !.hold = h]
  BY DEF MutexRecord
<1>11. mutex' = [mutex EXCEPT ![m] = x1]  BY <1>8, <1>9, <1>10
<1>12. mutex' \in [Mutex -> MutexRecord] /\ mutex'[m] = x1 /\ \A k \in Mutex : k # m => mutex'[k] = mutex[k]
  BY <1>1, <1>11 DEF MutexTypes
<1>13. MutexTypes'  BY <1>1, <1>6, <1>12 DEF MutexTypes
<1>14. \A k \in Mutex : /\ mutex'[k].owner = mutex[k].owner
                        /\ mutex'[k].original_priority = mutex[k].original_priority
  BY <1>8, <1>10, <1>12
<1>15. PICK n \in 1..HoldMod : n = Takes(t, m) /\ x0.hold = n % HoldMod
  BY <1>1, <1>8 DEF HoldsStrong, Holds
<1>16. n - 1 \in 1..HoldMod
  <2>1. PICK one \in 0..(HoldMod - 1) : one = 1  BY <1>7
  <2>2. one % HoldMod = one  BY <1>7, ModSmall
  <2>3. n # 1  BY <2>1, <2>2, <1>8, <1>15
  <2> QED  BY <2>3, <1>7
<1>17. h = (n - 1) % HoldMod
  <2>1. n \in Int /\ n % HoldMod \in Int  BY <1>7
  <2>2. PICK less \in Int : less = -1  OBVIOUS
  <2>3. ((n % HoldMod) + less) % HoldMod = (n + less) % HoldMod  BY <2>1, <1>7, ModSum
  <2>4. (n % HoldMod) + less = (n % HoldMod) - 1 /\ n + less = n - 1  BY <2>1, <2>2
  <2> QED  BY <2>3, <2>4, <1>9, <1>15
<1>18. \A k \in Mutex : ~HandedThen(t, k)  BY DEF HandedThen, HandedTo
<1>19. \A x \in Thread, k \in Mutex : HandedThen(x, k) <=> HandedTo(stat[x], call[x], error[x], k)
  BY DEF HandedThen
<1>20. HoldsStrong'
  <2>1. \A k \in Mutex : FreeOrNot(mutex'[k])
    <3>1. FreeOrNot(x0)  BY <1>1, <1>8 DEF HoldsStrong
    <3>2. x1.owner # Null /\ x1.value # 1  BY <3>1, <1>7, <1>8, <1>10 DEF FreeOrNot
    <3> QED  BY <3>2, <1>1, <1>12 DEF FreeOrNot, HoldsStrong
  <2>2. ASSUME NEW k \in Mutex, NEW x \in Thread PROVE Holds(mutex'[k], x, TakesThen(x, k))
    <3>1. Holds(mutex[k], x, Takes(x, k))  BY <1>1 DEF HoldsStrong
    <3>2. CASE x # t
      <4>1. TakesThen(x, k) = Takes(x, k)  BY <3>2, <1>6, <1>19, TakesSame
      <4>2. CASE k = m
        <5>1. Takes(x, k) = 0  BY <4>2, <3>1, <3>2 DEF Holds
        <5> QED  BY <5>1, <4>1, <4>2, <3>2, <1>14 DEF Holds
      <4>3. CASE k # m  BY <4>1, <4>3, <3>1, <1>12
      <4> QED  BY <4>2, <4>3
    <3>3. CASE x = t
      <4>1. TakesThen(t, k) = Count(k, r) + 0  BY <1>6, <1>18 DEF TakesThen, TakesOf, HandedThen
      <4>2. PICK c \in Nat : c = Count(k, r)  BY <1>6, CountType
      <4>3. c + 0 = c  OBVIOUS
      <4>4. TakesThen(t, k) = c  BY <4>1, <4>2, <4>3
      <4>5. CASE k = m
        <5>1. c = n - 1  BY <4>2, <4>5, <1>6, <1>15
        <5> QED  BY <5>1, <4>4, <4>5, <3>3, <1>8, <1>10, <1>12, <1>16, <1>17 DEF Holds
      <4>6. CASE k # m
        <5>1. TakesThen(t, k) = Takes(t, k)  BY <4>2, <4>4, <4>6, <1>6
        <5> QED  BY <5>1, <4>6, <3>1, <3>3, <1>12
      <4> QED  BY <4>5, <4>6
    <3> QED  BY <3>2, <3>3
  <2> QED  BY <2>1, <2>2, HoldsThen
<1>21. PriorityRestored'  BY <1>6, <1>14 DEF MutexInv, PriorityRestored, Owns
<1>22. ASSUME Bottoms, "crossed" \notin hist' PROVE Bottoms'
  <2>1. r # <<>> /\ r[1] = held[t][1]
    <3>1. Count(m, r) # 0  BY <1>6, <1>15, <1>16
    <3>2. On(r, m)  BY <3>1, <1>6, CountType
    <3>3. r # <<>>  BY <3>2, <1>6, EmptyList
    <3> QED  BY <3>3, <1>5, <1>22 DEF DropFacts
  <2>2. held[t] # <<>>
    <3>1. held[t] \in Seq(Mutex)  BY <1>1 DEF MutexTypes
    <3> QED  BY <3>1, <1>4, EmptyList
  <2>3. ASSUME NEW x \in Thread, NEW k \in Mutex, FirstOf(held'[x], stat'[x], call'[x], error'[x], k)
        PROVE  FirstOf(held[x], stat[x], call[x], error[x], k)
    <3>1. CASE x # t  BY <3>1, <2>3, <1>6, <1>19 DEF FirstOf, HandedThen
    <3>2. CASE x = t  BY <3>2, <2>1, <2>2, <2>3, <1>6 DEF FirstOf
    <3> QED  BY <3>1, <3>2
  <2> QED  BY <2>3, <1>14, <1>22 DEF Bottoms
<1>23. ASSUME Single PROVE Single' /\ hist' = hist
  <2>1. hist' = hist /\ \A i, j \in 1..Len(r) : r[i] = r[j]  BY <1>5, <1>23 DEF DropFacts, Single
  <2>2. ASSUME NEW x \in Thread
        PROVE  /\ \A i, j \in 1..Len(held'[x]) : held'[x][i] = held'[x][j]
               /\ call'[x].op = "mutex_take" => held'[x] = <<>>
    <3>1. CASE x = t  BY <3>1, <2>1, <1>6
    <3>2. CASE x # t
      <4>1. held'[x] = held[x] /\ call'[x] = call[x]  BY <3>2, <1>6
      <4> QED  BY <4>1, <1>23 DEF Single
    <3> QED  BY <3>1, <3>2
  <2> QED  BY <2>1, <2>2 DEF Single
<1>24. \A k \in Mutex : InOrderOf(wait[k], prio, mutex[k]) => InOrderOf(wait'[k], prio', mutex'[k])
  BY <1>14 DEF InOrderOf
<1>25. \A k \in Mutex : wait'[k] # <<>> => mutex'[k].owner # Null  BY <1>14 DEF MutexInv
<1>26. \A h1 \in {"overheld", "nested"} : h1 \in hist' <=> h1 \in hist  BY <1>6
<1>27. "crossed" \notin hist' => "crossed" \notin hist  BY <1>6
<1> QED  BY <1>3, <1>13, <1>20, <1>21, <1>22, <1>23, <1>24, <1>25, <1>26, <1>27 DEF MutexInv

\* The last hold is gone: the mutex is free, or h's that waited first.
HandedOver(t, m, T, x1) ==
    /\ Wake(T) /\ \A x \in Thread : stat'[x] = IF x \in T THEN "READY" ELSE stat[x]
    /\ x1 \in MutexRecord /\ mutex' = [mutex EXCEPT ![m] = x1]
    /\ prio' = [prio EXCEPT ![t] = mutex[m].original_priority]
    /\ \/ /\ T = {} /\ wait[m] = <<>>
          /\ x1.value = 1 /\ x1.owner = Null /\ x1.hold = 0
       \/ \E h \in Thread :
             /\ T = {h} /\ h # t /\ wait[m] # <<>> /\ h = Head(wait[m]) /\ On(wait[m], h)
             /\ stat[h] = "SUSPEND" /\ error[h] = "EOK"
             /\ call[h].op = "mutex_take" /\ call[h].m = m
             /\ x1.value = 0 /\ x1.owner = h /\ x1.hold = 1 /\ x1.original_priority = prio[h]

LEMMA HandOverIs ==
    ASSUME ListInv, MutexTypes, HoldsStrong, NEW t \in Thread, NEW m \in Mutex, stat[t] = "READY",
           mutex[m].owner = t, mutex[m].hold = 1, HandOver(t, m)
    PROVE  \E T, x1 : HandedOver(t, m, T, x1)
<1>1. PICK x0 \in MutexRecord : x0 = mutex[m]  BY DEF MutexTypes
<1>2. x0.value = 0
  <2>1. FreeOrNot(x0) /\ x0.owner # Null  BY <1>1, ThreadsAssumption DEF HoldsStrong
  <2> QED  BY <2>1 DEF FreeOrNot, MutexRecord
<1>3. m \in Lists /\ HoldMod \in Nat \ {0, 1}  BY SyncAssumption DEF Lists
<1>4. WakeFirst(m) /\ prio' = [prio EXCEPT ![t] = mutex[m].original_priority]
  BY DEF HandOver, ChangePriority
<1>5. CASE wait[m] = <<>> /\ Wake({}) /\ \A x \in Thread : stat'[x] = stat[x]
  <2>1. PICK x1 : x1 = [value |-> 1, owner |-> Null, original_priority |-> 255, hold |-> 0]  OBVIOUS
  <2>2. /\ x1.value = 1 /\ x1.owner = Null /\ x1.hold = 0 /\ x1 \in MutexRecord
    BY <2>1, <1>3 DEF MutexRecord
  <2>3. mutex' = [mutex EXCEPT ![m] = x1]
    <3>1. x0.value + 1 = 1  BY <1>2
    <3> QED  BY <3>1, <2>1, <1>1, <1>5 DEF HandOver, NoPriority
  <2>4. HandedOver(t, m, {}, x1)  BY <2>2, <2>3, <1>4, <1>5 DEF HandedOver
  <2> QED  BY <2>4
<1>6. ASSUME NEW h \in Thread,
             wait[m] # <<>>, h = Head(wait[m]), On(wait[m], h), stat[h] = "SUSPEND", error[h] = "EOK",
             Wake({h}), \A x \in Thread : stat'[x] = IF x = h THEN "READY" ELSE stat[x]
      PROVE  \E T, x1 : HandedOver(t, m, T, x1)
  <2>1. h # t /\ call[h].op = "mutex_take" /\ call[h].m = m  BY <1>6, WaitsForMutex
  <2>2. PICK x1 : x1 = [x0 EXCEPT !.owner = h, !.hold = 1, !.original_priority = prio[h]]  OBVIOUS
  <2>3. prio[h] \in 0..255 /\ 1 \in 0..(HoldMod - 1)  BY <1>3 DEF MutexTypes
  <2>4. /\ x1.value = 0 /\ x1.owner = h /\ x1.hold = 1 /\ x1.original_priority = prio[h]
        /\ x1 \in MutexRecord
    <3>1. PICK p \in 0..255, one \in 0..(HoldMod - 1) : p = prio[h] /\ one = 1  BY <2>3
    <3>2. PICK v \in {0, 1}, o \in Thread \cup {Null}, q \in 0..255, i \in 0..(HoldMod - 1) :
             x0 = [value |-> v, owner |-> o, original_priority |-> q, hold |-> i]
      BY <1>1 DEF MutexRecord
    <3>3. x1 = [value |-> v, owner |-> h, original_priority |-> p, hold |-> one]
      BY <3>1, <3>2, <2>2
    <3>4. x1.value = v /\ x0.value = v  BY <3>2, <3>3
    <3>5. x1.owner = h /\ x1.hold = one /\ x1.original_priority = p  BY <3>3
    <3>6. x1 \in MutexRecord  BY <3>3 DEF MutexRecord
    <3> QED  BY <3>1, <3>4, <3>5, <3>6, <1>2
  <2>5. mutex' = [mutex EXCEPT ![m] = x1]  BY <2>2, <1>1, <1>6 DEF HandOver
  <2>6. HandedOver(t, m, {h}, x1)
    <3>1. \A x \in Thread : stat'[x] = IF x \in {h} THEN "READY" ELSE stat[x]  BY <1>6
    <3> QED  BY <3>1, <2>1, <2>4, <2>5, <1>4, <1>6 DEF HandedOver
  <2> QED  BY <2>6
<1> QED  BY <1>3, <1>4, <1>5, <1>6, WakeFirstIs

LEMMA ReleaseLast ==
    ASSUME Core, MutexInv, kind = "mutex", UNCHANGED <<kind, flag, mailVars>>, NEW t \in Thread,
           NEW m \in Mutex, call[t].op = "none", "overheld" \notin hist,
           mutex[m].owner = t, mutex[m].hold = 1, HandOver(t, m), Drops(t, m),
           UNCHANGED <<error, call, value, owed, events>>
    PROVE  Core' /\ MutexInv'
<1>1. ListInv /\ MutexTypes /\ HoldsStrong  BY DEF Core, MutexInv
<1>2. stat[t] = "READY" /\ m \in Lists  BY <1>1, CallerReady DEF Lists
<1>3. ListInv'
  <2>1. WakeFirst(m)  BY DEF HandOver
  <2> QED  BY <2>1, <1>1, <1>2, NoOne, WakeFirstKeeps
<1>4. Core'  BY <1>3, MutexCore
<1>5. On(held[t], m) /\ \E u : DropFacts(t, m, u)  BY <1>1, DropIs
<1>6. PICK r : DropFacts(t, m, r)  BY <1>5
<1>7. /\ r \in Seq(Mutex) /\ held' \in [Thread -> Seq(Mutex)] /\ held'[t] = r
      /\ \A x \in Thread : x # t => held'[x] = held[x]
      /\ Count(m, r) = Takes(t, m) - 1 /\ \A k \in Mutex : k # m => Count(k, r) = Takes(t, k)
      /\ hist' = hist \/ hist' = hist \cup {"crossed"}
  BY <1>6 DEF DropFacts
<1>8. HoldMod \in Nat \ {0, 1} /\ Null \notin Thread  BY SyncAssumption, ThreadsAssumption
<1>9. PICK T, x1 : HandedOver(t, m, T, x1)  BY <1>1, <1>2, HandOverIs
<1>10. /\ Wake(T) /\ \A x \in Thread : stat'[x] = IF x \in T THEN "READY" ELSE stat[x]
       /\ x1 \in MutexRecord /\ mutex' = [mutex EXCEPT ![m] = x1]
       /\ prio' = [prio EXCEPT ![t] = mutex[m].original_priority]
  BY <1>9 DEF HandedOver
<1>11. mutex' \in [Mutex -> MutexRecord] /\ mutex'[m] = x1 /\ \A k \in Mutex : k # m => mutex'[k] = mutex[k]
  BY <1>1, <1>10 DEF MutexTypes
<1>12. /\ prio' \in [Thread -> 0..255] /\ prio'[t] = mutex[m].original_priority
       /\ \A x \in Thread : x # t => prio'[x] = prio[x]
  <2>1. mutex[m].original_priority \in 0..255  BY <1>1 DEF MutexTypes, MutexRecord
  <2> QED  BY <2>1, <1>1, <1>10 DEF MutexTypes
<1>13. MutexTypes'  BY <1>7, <1>11, <1>12 DEF MutexTypes
<1>14. Takes(t, m) = 1 /\ Count(m, r) = 0
  <2>1. PICK n \in 1..HoldMod : n = Takes(t, m) /\ n % HoldMod = 1
    BY <1>1 DEF HoldsStrong, Holds
  <2>2. n = 1
    <3>1. CASE n = HoldMod
      <4>1. HoldMod % HoldMod = 0  BY <1>8
      <4> QED  BY <4>1, <3>1, <2>1
    <3>2. CASE n # HoldMod
      <4>1. n \in 0..(HoldMod - 1)  BY <3>2, <1>8
      <4>2. n % HoldMod = n  BY <4>1, <1>8, ModSmall
      <4> QED  BY <4>2, <2>1
    <3> QED  BY <3>1, <3>2
  <2>3. n - 1 = 0  BY <2>2
  <2>4. Count(m, r) = n - 1  BY <2>1, <1>7
  <2> QED  BY <2>1, <2>2, <2>3, <2>4
<1>15. t \notin T /\ (T = {} \/ \E h \in Thread : T = {h})  BY <1>9 DEF HandedOver
<1>16. ASSUME NEW x \in Thread, NEW k \in Mutex
       PROVE  HandedThen(x, k) <=> (x \in T /\ k = m) \/ HandedTo(stat[x], call[x], error[x], k)
  <2>1. CASE x \notin T  BY <2>1, <1>10 DEF HandedThen
  <2>2. CASE x \in T
    <3>1. stat[x] = "SUSPEND" /\ error[x] = "EOK" /\ call[x].op = "mutex_take" /\ call[x].m = m
      BY <2>2, <1>9 DEF HandedOver
    <3>2. stat'[x] = "READY" /\ error'[x] = "EOK" /\ call'[x] = call[x]  BY <3>1, <2>2, <1>10
    <3> QED  BY <3>1, <3>2, <2>2 DEF HandedThen, HandedTo
  <2> QED  BY <2>1, <2>2
<1>17. \A k \in Mutex : ~HandedTo(stat[t], call[t], error[t], k)  BY DEF HandedTo
<1>18. \A x \in T : x \in Thread /\ x1.owner = x /\ x1.hold = 1 /\ x1.original_priority = prio[x]
  BY <1>9 DEF HandedOver
<1>19. x1.owner # t /\ \A x \in Thread : x \notin T => x1.owner # x  BY <1>8, <1>9 DEF HandedOver
<1>20. HoldsStrong'
  <2>1. \A k \in Mutex : FreeOrNot(mutex'[k])
    <3>1. FreeOrNot(x1)  BY <1>8, <1>9 DEF HandedOver, FreeOrNot
    <3> QED  BY <3>1, <1>1, <1>11 DEF HoldsStrong
  <2>2. ASSUME NEW k \in Mutex, NEW x \in Thread PROVE Holds(mutex'[k], x, TakesThen(x, k))
    <3>1. Holds(mutex[k], x, Takes(x, k))  BY <1>1 DEF HoldsStrong
    <3>2. CASE x = t
      <4>1. TakesThen(t, k) = Count(k, r) + 0  BY <1>7, <1>15, <1>16, <1>17 DEF TakesThen, TakesOf, HandedThen
      <4>2. PICK c \in Nat : c = Count(k, r)  BY <1>7, CountType
      <4>3. c + 0 = c  OBVIOUS
      <4>4. TakesThen(t, k) = c  BY <4>1, <4>2, <4>3
      <4>5. CASE k = m
        <5>1. c = 0  BY <4>2, <4>5, <1>14
        <5> QED  BY <5>1, <4>4, <4>5, <3>2, <1>11, <1>19 DEF Holds
      <4>6. CASE k # m
        <5>1. TakesThen(t, k) = Takes(t, k)  BY <4>2, <4>4, <4>6, <1>7
        <5> QED  BY <5>1, <4>6, <3>1, <3>2, <1>11
      <4> QED  BY <4>5, <4>6
    <3>3. CASE x # t /\ ~(x \in T /\ k = m)
      <4>1. TakesThen(x, k) = Takes(x, k)  BY <3>3, <1>7, <1>16, TakesSame
      <4>2. CASE k # m  BY <4>1, <4>2, <3>1, <1>11
      <4>3. CASE k = m
        <5>1. Takes(x, k) = 0  BY <4>3, <3>1, <3>3 DEF Holds
        <5> QED  BY <5>1, <4>1, <4>3, <3>3, <1>11, <1>19 DEF Holds
      <4> QED  BY <4>2, <4>3
    <3>4. CASE x # t /\ x \in T /\ k = m
      <4>1. Takes(x, m) = 0  BY <3>1, <3>4 DEF Holds
      <4>2. ~On(held[x], m)  BY <3>4, <1>1, OwnerHas
      <4>3. held[x] \in Seq(Mutex)  BY <1>1 DEF MutexTypes
      <4>4. Count(m, held[x]) = 0  BY <4>2, <4>3, CountType
      <4>5. HandedThen(x, m) /\ held'[x] = held[x]  BY <3>4, <1>7, <1>16
      <4>6. TakesThen(x, m) = 0 + 1  BY <4>4, <4>5 DEF TakesThen, TakesOf, HandedThen
      <4>7. PICK one \in 0..(HoldMod - 1) : one = 1  BY <1>8
      <4>8. one % HoldMod = one /\ one \in 1..HoldMod  BY <4>7, <1>8, ModSmall
      <4>9. TakesThen(x, k) = one  BY <4>6, <4>7, <3>4
      <4> QED  BY <4>7, <4>8, <4>9, <3>4, <1>11, <1>18 DEF Holds
    <3> QED  BY <3>2, <3>3, <3>4
  <2> QED  BY <2>1, <2>2, HoldsThen
<1>21. held[t] \in Seq(Mutex) /\ held[t] # <<>>
  <2>1. held[t] \in Seq(Mutex)  BY <1>1 DEF MutexTypes
  <2> QED  BY <2>1, <1>5, EmptyList
<1>22. PICK f \in Mutex : f = held[t][1] /\ On(held[t], f)
  <2>1. Head(held[t]) \in Mutex /\ On(held[t], Head(held[t])) /\ Head(held[t]) = held[t][1]
    BY <1>21, EmptyList
  <2> QED  BY <2>1
<1>23. mutex[f].owner = t /\ FirstOf(held[t], stat[t], call[t], error[t], f)
  BY <1>1, <1>21, <1>22, OwnerHas DEF FirstOf
<1>24. PriorityRestored'
  <2>1. ASSUME "crossed" \notin hist', NEW x \in Thread, \A k \in Mutex : mutex'[k].owner # x
        PROVE  prio'[x] = Prio[x]
    <3>1. "crossed" \notin hist  BY <2>1, <1>7
    <3>2. CASE x # t
      <4>1. \A k \in Mutex : mutex[k].owner # x  BY <3>2, <2>1, <1>11
      <4>2. prio[x] = Prio[x]  BY <4>1, <3>1 DEF MutexInv, PriorityRestored, Owns
      <4> QED  BY <4>2, <3>2, <1>12
    <3>3. CASE x = t
      <4>1. f = m  BY <3>3, <2>1, <1>11, <1>23
      <4>2. mutex[m].original_priority = Prio[t]  BY <4>1, <3>1, <1>23 DEF MutexInv, Bottoms
      <4> QED  BY <4>2, <3>3, <1>12
    <3> QED  BY <3>2, <3>3
  <2> QED  BY <2>1 DEF PriorityRestored, Owns
<1>25. ASSUME "crossed" \notin hist' PROVE Bottoms'
  <2>0. "crossed" \notin hist /\ Bottoms  BY <1>7, <1>25 DEF MutexInv
  <2>1. ASSUME NEW x \in Thread, NEW k \in Mutex, FirstOf(held'[x], stat'[x], call'[x], error'[x], k)
        PROVE  mutex'[k].original_priority = Prio[x]
    <3>0. held[x] \in Seq(Mutex)  BY <1>1 DEF MutexTypes
    <3>1. CASE x = t
      <4>1. r # <<>>
        <5>1. ~HandedTo(stat'[t], call'[t], error'[t], k)  BY <1>15, <1>16, <1>17 DEF HandedThen
        <5> QED  BY <5>1, <3>1, <2>1, <1>7 DEF FirstOf
      <4>2. r[1] = f /\ k = f  BY <4>1, <3>1, <2>1, <1>6, <1>7, <1>22, <1>25 DEF DropFacts, FirstOf
      <4>3. ~On(r, m) /\ On(r, r[1])  BY <4>1, <1>7, <1>14, CountType, EmptyList
      <4>4. k # m  BY <4>2, <4>3
      <4> QED  BY <4>2, <4>4, <3>1, <2>0, <1>11, <1>23 DEF Bottoms
    <3>2. CASE x # t /\ FirstOf(held[x], stat[x], call[x], error[x], k)
      <4>1. On(held[x], k) \/ HandedTo(stat[x], call[x], error[x], k)
        <5>1. held[x] # <<>> => On(held[x], held[x][1])  BY <3>0, EmptyList
        <5> QED  BY <5>1, <3>2 DEF FirstOf
      <4>2. mutex[k].owner = x  BY <4>1, <1>1, OwnerHas
      <4>3. k # m  BY <4>2, <3>2
      <4> QED  BY <4>3, <3>2, <2>0, <1>11 DEF Bottoms
    <3>3. CASE x # t /\ ~FirstOf(held[x], stat[x], call[x], error[x], k)
      <4>1. held[x] = <<>> /\ x \in T /\ k = m  BY <3>3, <2>1, <1>7, <1>16 DEF FirstOf, HandedThen
      <4>2. stat[x] = "SUSPEND"  BY <4>1, <1>9 DEF HandedOver
      <4>3. \A j \in Mutex : ~On(held[x], j) /\ ~HandedTo(stat[x], call[x], error[x], j)
        BY <4>1, <4>2, <3>0, EmptyList DEF HandedTo
      <4>4. \A j \in Mutex : mutex[j].owner # x  BY <4>3, <1>1, OwnerHas
      <4>5. prio[x] = Prio[x]  BY <4>4, <2>0 DEF MutexInv, PriorityRestored, Owns
      <4> QED  BY <4>1, <4>5, <1>11, <1>18
    <3> QED  BY <3>1, <3>2, <3>3
  <2> QED  BY <2>1 DEF Bottoms
<1>26. ASSUME Single PROVE Single' /\ hist' = hist
  <2>1. hist' = hist /\ \A i, j \in 1..Len(r) : r[i] = r[j]  BY <1>6, <1>26 DEF DropFacts, Single
  <2>2. ASSUME NEW x \in Thread
        PROVE  /\ \A i, j \in 1..Len(held'[x]) : held'[x][i] = held'[x][j]
               /\ call'[x].op = "mutex_take" => held'[x] = <<>>
    <3>1. CASE x = t  BY <3>1, <2>1, <1>7
    <3>2. CASE x # t
      <4>1. held'[x] = held[x] /\ call'[x] = call[x]  BY <3>2, <1>7
      <4> QED  BY <4>1, <1>26 DEF Single
    <3> QED  BY <3>1, <3>2
  <2> QED  BY <2>1, <2>2 DEF Single
<1>27. /\ \A l \in Lists : wait'[l] # <<>> => wait[l] # <<>>
       /\ \A l \in Lists : \A x \in Thread : On(wait'[l], x) <=> On(wait[l], x) /\ x \notin T
       /\ \A l \in Lists : wait'[l] \in Seq(Thread)
  BY <1>1, <1>10, WakeLists
<1>28. ASSUME flag = "PRIO", "nested" \notin hist, NEW k \in Mutex
       PROVE  InOrderOf(wait'[k], prio', mutex'[k])
  <2>1. Single /\ InOrderOf(wait[k], prio, mutex[k])  BY <1>28 DEF MutexInv
  <2>2. SortedBy(wait[k], prio) /\ \A x \in Thread : On(wait[k], x) => prio[mutex[k].owner] <= prio[x]
    BY <2>1 DEF InOrderOf
  <2>3. k \in Lists /\ wait[k] \in Seq(Thread)  BY <1>1 DEF ListInv, Shapes, Lists
  <2>4. \A x \in Thread : On(wait[k], x) => x # t  BY <2>3, <1>1, <1>2, WaitsForMutex
  <2>5. SortedBy(wait'[k], prio')
    <3>1. wait'[k] = Without(wait[k], T)  BY <2>3, <1>10 DEF Wake
    <3>2. SortedBy(wait'[k], prio)  BY <3>1, <2>2, <2>3, SortedWithout
    <3>3. \A x : On(wait'[k], x) => x \in Thread  BY <2>3, <1>27, ElementOfSeq DEF On
    <3>4. \A x : On(wait'[k], x) => prio'[x] = prio[x]  BY <3>3, <2>3, <2>4, <1>12, <1>27
    <3> QED  BY <3>2, <3>4, SortedSame
  <2>6. ASSUME NEW x \in Thread, On(wait'[k], x) PROVE prio'[mutex'[k].owner] <= prio'[x]
    <3>1. On(wait[k], x) /\ x # t /\ prio'[x] = prio[x]  BY <2>3, <2>4, <2>6, <1>12, <1>27
    <3>2. wait[k] # <<>>  BY <3>1, <2>3, EmptyList
    <3>3. CASE k = m
      <4>1. PICK h \in Thread : T = {h} /\ h = Head(wait[m]) /\ x1.owner = h /\ h # t
        BY <3>2, <3>3, <1>9 DEF HandedOver
      <4>2. prio[h] <= prio[x]  BY <4>1, <3>1, <3>3, <2>2, <2>3, <1>1, SortedHead DEF MutexTypes
      <4> QED  BY <4>1, <4>2, <3>1, <3>3, <1>11, <1>12
    <3>4. CASE k # m
      <4>1. PICK u \in Thread : mutex[k].owner = u
        <5>1. mutex[k].owner # Null  BY <3>2 DEF MutexInv
        <5>2. mutex[k].owner \in Thread \cup {Null}  BY <1>1 DEF MutexTypes, MutexRecord
        <5> QED  BY <5>1, <5>2
      <4>2. u # t
        <5>1. SUFFICES ASSUME u = t PROVE FALSE
          OBVIOUS
        <5>2. On(held[t], k)  BY <5>1, <4>1, <1>1, OwnerHas
        <5>3. k = m  BY <5>2, <2>1, <1>5 DEF On, Single
        <5> QED  BY <5>3, <3>4
      <4> QED  BY <4>1, <4>2, <3>1, <3>4, <2>2, <1>11, <1>12
    <3> QED  BY <3>3, <3>4
  <2> QED  BY <2>5, <2>6 DEF InOrderOf
<1>29. ASSUME NEW k \in Mutex, wait'[k] # <<>> PROVE mutex'[k].owner # Null
  <2>1. wait[k] # <<>>  BY <1>27, <1>29 DEF Lists
  <2>2. CASE k = m  BY <2>1, <2>2, <1>8, <1>9, <1>11 DEF HandedOver
  <2>3. CASE k # m  BY <2>1, <2>3, <1>11 DEF MutexInv
  <2> QED  BY <2>2, <2>3
<1>30. \A h1 \in {"overheld", "nested"} : h1 \in hist' <=> h1 \in hist  BY <1>7
<1>31. "crossed" \notin hist' => "crossed" \notin hist  BY <1>7
<1> QED  BY <1>4, <1>13, <1>20, <1>24, <1>25, <1>26, <1>28, <1>29, <1>30, <1>31 DEF MutexInv

LEMMA MutexReleaseKeeps ==
    ASSUME Core, MutexInv, kind = "mutex", UNCHANGED <<kind, flag, mailVars>>, NEW t \in Thread,
           NEW m \in Mutex, MutexRelease(t, m)
    PROVE  Core' /\ MutexInv'
<1>1. call[t].op = "none" /\ "overheld" \notin hist /\ UNCHANGED <<call, value, owed, events>>
  BY DEF MutexRelease, Idle
<1>2. CASE /\ error' = [error EXCEPT ![t] = "ERROR"]
           /\ UNCHANGED <<stat, timer, prio, wait, mutex, held, hist>>
  <2>1. HistGrows  BY <1>2 DEF HistGrows
  <2> QED  BY <2>1, <1>1, <1>2, MutexFails
<1>3. CASE /\ mutex[m].owner = t /\ mutex[m].hold # 1
           /\ mutex' = [mutex EXCEPT ![m].hold = (@ - 1) % HoldMod]
           /\ Drops(t, m) /\ UNCHANGED <<stat, error, timer, prio, wait>>
  BY <1>1, <1>3, ReleaseOne
<1>4. CASE /\ mutex[m].owner = t /\ mutex[m].hold = 1
           /\ HandOver(t, m) /\ Drops(t, m) /\ UNCHANGED error
  BY <1>1, <1>4, ReleaseLast
<1> QED  BY <1>2, <1>3, <1>4 DEF MutexRelease

\* A thread whose timer expires had not been handed a mutex.
LEMMA MutexTimeout ==
    ASSUME Core, MutexInv, NEW t \in Thread, Timeout(t), UNCHANGED <<syncVars, mailVars>>
    PROVE  MutexInv'
<1>1. /\ stat[t] = "SUSPEND" /\ error'[t] = "ERROR" /\ Wake({t})
      /\ \A x \in Thread : x # t => error'[x] = error[x] /\ stat'[x] = stat[x]
  BY TimeoutKeeps
<1>2. UNCHANGED <<mutex, held, prio, call, kind, flag, hist>>  BY DEF Timeout, syncVars
<1>3. SUFFICES ASSUME kind = "mutex" PROVE MutexInv'
  BY <1>2 DEF MutexInv
<1>4. ListInv /\ MutexTypes  BY <1>3 DEF Core, MutexInv
<1>5. /\ \A l \in Lists : wait'[l] # <<>> => wait[l] # <<>>
      /\ \A l \in Lists : \A x \in Thread : On(wait'[l], x) <=> On(wait[l], x) /\ x # t
  <2>1. /\ \A l \in Lists : wait'[l] # <<>> => wait[l] # <<>>
        /\ \A l \in Lists : \A x \in Thread : On(wait'[l], x) <=> On(wait[l], x) /\ x \notin {t}
    BY <1>1, <1>4, WakeLists
  <2> QED  BY <2>1
<1>6. ASSUME NEW x \in Thread, NEW k \in Mutex
      PROVE  HandedThen(x, k) <=> HandedTo(stat[x], call[x], error[x], k)
  <2>1. CASE x = t  BY <2>1, <1>1 DEF HandedThen, HandedTo
  <2>2. CASE x # t  BY <2>2, <1>1, <1>2 DEF HandedThen
  <2> QED  BY <2>1, <2>2
<1>7. HoldsStrong => HoldsStrong'
  <2>1. \A x \in Thread, k \in Mutex : TakesThen(x, k) = Takes(x, k)  BY <1>2, <1>6, TakesSame
  <2> QED  BY <2>1, <1>2, HoldsThen DEF HoldsStrong
<1>8. Bottoms => Bottoms'
  <2>1. \A x \in Thread, k \in Mutex : FirstOf(held'[x], stat'[x], call'[x], error'[x], k)
                                        => FirstOf(held[x], stat[x], call[x], error[x], k)
    BY <1>2, <1>6 DEF FirstOf, HandedThen
  <2> QED  BY <2>1, <1>2 DEF Bottoms
<1>9. Single => Single'  BY <1>2 DEF Single
<1>10. ASSUME NEW k \in Mutex, InOrderOf(wait[k], prio, mutex[k])
       PROVE  InOrderOf(wait'[k], prio', mutex'[k])
  <2>1. k \in Lists /\ wait[k] \in Seq(Thread)  BY <1>4 DEF ListInv, Shapes, Lists
  <2>2. wait'[k] = Without(wait[k], {t})  BY <2>1, <1>1 DEF Wake
  <2>3. SortedBy(wait'[k], prio)  BY <2>1, <2>2, <1>10, SortedWithout DEF InOrderOf
  <2> QED  BY <2>1, <2>3, <1>2, <1>5, <1>10 DEF InOrderOf
<1>11. \A k \in Mutex : wait'[k] # <<>> => mutex'[k].owner # Null
  <2>1. \A k \in Mutex : wait[k] # <<>> => mutex[k].owner # Null  BY <1>3 DEF MutexInv
  <2> QED  BY <2>1, <1>2, <1>5 DEF Lists
<1>12. PriorityRestored'  BY <1>2, <1>3 DEF MutexInv, PriorityRestored, Owns
<1>13. MutexTypes'  BY <1>2, <1>4 DEF MutexTypes
<1> QED  BY <1>2, <1>3, <1>7, <1>8, <1>9, <1>10, <1>11, <1>12, <1>13 DEF MutexInv

-----------------------------------------------------------------------------
(* The event.                                                              *)

\* What Deliver does with the n-th thread of the list w, of which c are the calls.
BitsFor(q, set) == IF q.all THEN q.set ELSE q.set \cap set
DeliverNext(w, c, n, a) ==
    IF ~Satisfied(c[w[n]].set, c[w[n]].all, a.set) THEN a
    ELSE [set |-> IF c[w[n]].clear THEN a.set \ BitsFor(c[w[n]], a.set) ELSE a.set,
          woken |-> [t \in DOMAIN a.woken \cup {w[n]} |->
                        IF t = w[n] THEN BitsFor(c[w[n]], a.set) ELSE a.woken[t]]]
DeliverFirst(set) == [set |-> set, woken |-> <<>>]
IsDelivered(k, set, w, c, N) ==
    k = [n \in 0..N |-> IF n = 0 THEN DeliverFirst(set) ELSE DeliverNext(w, c, n, k[n - 1])]

LEMMA DeliveredExists ==
    ASSUME NEW set, NEW w, NEW c, NEW N \in Nat
    PROVE  \E k : IsDelivered(k, set, w, c, N)
<1> DEFINE Bad == {n \in Nat : ~ \E k : IsDelivered(k, set, w, c, n)}
<1>1. SUFFICES ASSUME Bad # {} PROVE FALSE
  OBVIOUS
<1>2. PICK n \in Bad : \A i \in Bad : n <= i  BY <1>1, LeastNatural
<1>3. n \in Nat /\ ~ \E k : IsDelivered(k, set, w, c, n)  BY <1>2
<1>4. CASE n = 0
  <2>1. PICK g : g = [i \in 0..0 |-> DeliverFirst(set)]  OBVIOUS
  <2>2. IsDelivered(g, set, w, c, 0)
    <3>1. \A i \in 0..0 : i = 0  OBVIOUS
    <3> QED  BY <3>1, <2>1 DEF IsDelivered
  <2> QED  BY <2>2, <1>3, <1>4
<1>5. CASE n # 0
  <2>1. n - 1 \in Nat /\ ~(n <= n - 1)  BY <1>3, <1>5
  <2>2. n - 1 \notin Bad  BY <2>1, <1>2
  <2>3. PICK k : IsDelivered(k, set, w, c, n - 1)  BY <2>1, <2>2
  <2>4. \A i \in 0..(n - 1) :
           k[i] = IF i = 0 THEN DeliverFirst(set) ELSE DeliverNext(w, c, i, k[i - 1])
    BY <2>3 DEF IsDelivered
  <2>5. PICK g : g = [i \in 0..n |-> IF i = n THEN DeliverNext(w, c, n, k[n - 1]) ELSE k[i]]  OBVIOUS
  <2>6. \A i \in 0..(n - 1) : g[i] = k[i] /\ i \in 0..n
    <3>1. \A i \in 0..(n - 1) : i \in 0..n /\ i # n  BY <1>3
    <3> QED  BY <3>1, <2>5
  <2>7. ASSUME NEW i \in 0..n
        PROVE  g[i] = IF i = 0 THEN DeliverFirst(set) ELSE DeliverNext(w, c, i, g[i - 1])
    <3>1. CASE i = n
      <4>1. n - 1 \in 0..(n - 1)  BY <1>3, <1>5
      <4>2. g[n - 1] = k[n - 1] /\ g[n] = DeliverNext(w, c, n, k[n - 1])
        BY <4>1, <3>1, <2>5, <2>6
      <4> QED  BY <4>2, <3>1, <1>5
    <3>2. CASE i # n /\ i = 0
      <4>1. i \in 0..(n - 1)  BY <3>2, <1>3, <1>5
      <4> QED  BY <4>1, <3>2, <2>4, <2>6
    <3>3. CASE i # n /\ i # 0
      <4>1. i \in 0..(n - 1) /\ i - 1 \in 0..(n - 1)  BY <3>3, <1>3
      <4> QED  BY <4>1, <3>3, <2>4, <2>6
    <3> QED  BY <3>1, <3>2, <3>3
  <2>8. g = [i \in 0..n |-> g[i]]  BY <2>5
  <2>9. IsDelivered(g, set, w, c, n)  BY <2>7, <2>8 DEF IsDelivered
  <2> QED  BY <2>9, <1>3
<1> QED  BY <1>4, <1>5

\* Behind the n-th thread of the list: those resumed are on the list and have bits they
\* asked for, and the condition of those left is not satisfied by the bits left.
DeliveredTo(a, set, w, c, n) ==
    /\ a.set \subseteq set
    /\ \A x \in DOMAIN a.woken : (\E i \in 1..n : w[i] = x) /\ a.woken[x] \subseteq c[x].set
    /\ \A i \in 1..n : w[i] \in DOMAIN a.woken \/ ~Satisfied(c[w[i]].set, c[w[i]].all, a.set)

LEMMA LessSatisfies ==
    ASSUME NEW s, NEW all, NEW set, NEW less \in SUBSET set, Satisfied(s, all, less)
    PROVE  Satisfied(s, all, set)
  BY DEF Satisfied

LEMMA DeliverIs ==
    ASSUME NEW set, NEW w \in Seq(Thread), w = wait["event"], NEW d, d = Deliver(set)
    PROVE  DeliveredTo(d, set, w, call, Len(w))
<1>0. Len(w) \in Nat  BY LenProperties
<1> DEFINE after == CHOOSE k : IsDelivered(k, set, w, call, Len(w))
<1>1. IsDelivered(after, set, w, call, Len(w))  BY <1>0, DeliveredExists
<1>2. d = after[Len(w)]  BY SMTT(40) DEF Deliver, IsDelivered, DeliverNext, DeliverFirst, BitsFor
<1>3. PICK k : k = after  OBVIOUS
<1>4. \A n \in 0..Len(w) : k[n] = IF n = 0 THEN DeliverFirst(set) ELSE DeliverNext(w, call, n, k[n - 1])
  BY <1>1, <1>3 DEF IsDelivered
<1> HIDE DEF after
<1> DEFINE Bad == {n \in 0..Len(w) : ~DeliveredTo(k[n], set, w, call, n)}
<1>5. Bad = {}
  <2> SUFFICES ASSUME Bad # {} PROVE FALSE
    OBVIOUS
  <2>1. Bad \in SUBSET Nat  BY <1>0
  <2>2. PICK n \in Bad : \A i \in Bad : n <= i  BY <2>1, LeastNatural
  <2>3. n \in 0..Len(w) /\ n \in Nat /\ ~DeliveredTo(k[n], set, w, call, n)  BY <2>2, <1>0
  <2>4. CASE n = 0
    <3>1. k[0] = DeliverFirst(set)  BY <2>3, <2>4, <1>4
    <3>2. ~ \E i \in 1..0 : TRUE  OBVIOUS
    <3>3. DOMAIN <<>> = {}  OBVIOUS
    <3>4. DeliveredTo(k[0], set, w, call, 0)  BY <3>1, <3>2, <3>3 DEF DeliveredTo, DeliverFirst
    <3> QED  BY <3>4, <2>3, <2>4
  <2>5. CASE n # 0
    <3>1. n - 1 \in 0..Len(w) /\ ~(n <= n - 1) /\ n \in 1..Len(w)  BY <2>3, <2>5, <1>0
    <3>2. n - 1 \notin Bad  BY <3>1, <2>2
    <3>3. PICK a, b, q, h : a = k[n - 1] /\ b = k[n] /\ h = w[n] /\ q = call[h]  OBVIOUS
    <3>4. DeliveredTo(a, set, w, call, n - 1)  BY <3>1, <3>2, <3>3
    <3>5. b = DeliverNext(w, call, n, a)  BY <3>1, <3>3, <2>3, <2>5, <1>4
    <3>6. \A j \in 1..n : j \in 1..(n - 1) \/ j = n  BY <2>3
    <3>7. (\A j \in 1..(n - 1) : j \in 1..n) /\ n \in 1..n  BY <2>3, <2>5
    <3>8. CASE ~Satisfied(q.set, q.all, a.set)
      <4>1. b = a  BY <3>3, <3>5, <3>8 DEF DeliverNext
      <4>2. DeliveredTo(b, set, w, call, n)  BY <4>1, <3>3, <3>4, <3>6, <3>7, <3>8 DEF DeliveredTo
      <4> QED  BY <4>2, <3>3, <2>3
    <3>9. CASE Satisfied(q.set, q.all, a.set)
      <4>1. PICK bits, s, o : /\ bits = BitsFor(q, a.set) /\ bits \subseteq q.set
                              /\ s = (IF q.clear THEN a.set \ bits ELSE a.set) /\ s \subseteq a.set
                              /\ o = [t \in DOMAIN a.woken \cup {h} |-> IF t = h THEN bits ELSE a.woken[t]]
        <5>1. PICK bits : bits = BitsFor(q, a.set)  OBVIOUS
        <5>2. bits \subseteq q.set  BY <5>1 DEF BitsFor
        <5>3. PICK s : s = IF q.clear THEN a.set \ bits ELSE a.set  OBVIOUS
        <5>4. s \subseteq a.set  BY <5>3
        <5>5. PICK o : o = [t \in DOMAIN a.woken \cup {h} |-> IF t = h THEN bits ELSE a.woken[t]]
          OBVIOUS
        <5> QED  BY <5>1, <5>2, <5>3, <5>4, <5>5
      <4>2. b = [set |-> s, woken |-> o]  BY <4>1, <3>3, <3>5, <3>9 DEF DeliverNext
      <4>3. b.set = s /\ b.woken = o  BY <4>2
      <4>4. DOMAIN o = DOMAIN a.woken \cup {h}  BY <4>1
      <4>5. \A x \in DOMAIN o : (\E i \in 1..n : w[i] = x) /\ o[x] \subseteq call[x].set
        <5>1. ASSUME NEW x \in DOMAIN o PROVE (\E i \in 1..n : w[i] = x) /\ o[x] \subseteq call[x].set
          <6>1. CASE x = h  BY <6>1, <4>1, <3>3, <3>7
          <6>2. CASE x # h
            <7>1. x \in DOMAIN a.woken /\ o[x] = a.woken[x]  BY <6>2, <4>1, <4>4
            <7> QED  BY <7>1, <3>4, <3>7 DEF DeliveredTo
          <6> QED  BY <6>1, <6>2
        <5> QED  BY <5>1
      <4>6. ASSUME NEW i \in 1..n
            PROVE  w[i] \in DOMAIN o \/ ~Satisfied(call[w[i]].set, call[w[i]].all, s)
        <5>1. CASE i = n  BY <5>1, <4>4, <3>3
        <5>2. CASE i # n
          <6>1. w[i] \in DOMAIN a.woken \/ ~Satisfied(call[w[i]].set, call[w[i]].all, a.set)
            BY <5>2, <3>4, <3>6 DEF DeliveredTo
          <6>2. s \in SUBSET a.set  BY <4>1
          <6> QED  BY <6>1, <6>2, <4>4, LessSatisfies
        <5> QED  BY <5>1, <5>2
      <4>7. s \subseteq set  BY <4>1, <3>4 DEF DeliveredTo
      <4>8. DeliveredTo(b, set, w, call, n)  BY <4>3, <4>5, <4>6, <4>7 DEF DeliveredTo
      <4> QED  BY <4>8, <3>3, <2>3
    <3> QED  BY <3>8, <3>9
  <2> QED  BY <2>4, <2>5
<1>6. Len(w) \in 0..Len(w)  BY <1>0
<1> QED  BY <1>2, <1>3, <1>5, <1>6

\* No thread waits for bits that are there.
EventInv ==
    kind = "event" =>
        /\ events \subseteq Bits
        /\ \A t \in Thread : On(wait["event"], t) => ~Satisfied(call[t].set, call[t].all, events)

LEMMA EventCore ==
    ASSUME Core, kind = "event", UNCHANGED <<kind, prio, value, owed, mutex, held, mailVars>>, ListInv',
           \A c \in Callers : call'[c] = call[c] \/ call'[c].op = "none" \/ call'[c] \in EventCalls
    PROVE  Core'
<1>1. Others'  BY DEF Core, Others, InitSem, InitMutex, InitMb, InitMq, mailVars
<1>2. \A c \in Callers : Fits(call[c])'  BY DEF Core, Fits
<1> QED  BY <1>1, <1>2 DEF Core

LEMMA EventWaits ==
    ASSUME Core, NEW x \in Thread, On(wait["event"], x)
    PROVE  stat[x] = "SUSPEND" /\ call[x] \in EventCalls /\ kind = "event"
<1>1. stat[x] = "SUSPEND" /\ WaitsOn(call[x], "event")  BY DEF Core, ListInv, Lists, ObjectLists
<1>2. call[x].op = "event_recv"
  BY <1>1, CallsFit, ThreadsAssumption DEF WaitsOn, ObjectLists, Callers
<1> QED  BY <1>1, <1>2, CallsFit DEF Callers

LEMMA EventRecvKeeps ==
    ASSUME Core, EventInv, kind = "event", UNCHANGED <<kind, flag, mailVars>>, NEW t \in Thread,
           NEW s \in SUBSET Bits, NEW all \in BOOLEAN, NEW clear \in BOOLEAN, NEW time \in Times,
           EventRecv(t, s, all, clear, time)
    PROVE  Core' /\ EventInv'
<1>1. call[t].op = "none" /\ UNCHANGED <<value, owed, mutex, held>>  BY DEF EventRecv, Idle
<1>2. ListInv /\ stat[t] = "READY"  BY <1>1, CallerReady DEF Core
<1>3. ASSUME NEW e \in {"EOK", "ERROR"}, error' = [error EXCEPT ![t] = e],
             UNCHANGED <<stat, timer, prio, call, wait>>, events' \in SUBSET events
      PROVE  Core' /\ EventInv'
  <2>1. ListInv'  BY <1>2, <1>3, OwnError, SameKeeps
  <2>2. Core'  BY <2>1, <1>1, <1>3, EventCore
  <2> QED  BY <2>2, <1>3, LessSatisfies DEF EventInv
<1>4. CASE /\ Satisfied(s, all, events)
           /\ events' = IF clear THEN events \ s ELSE events
           /\ error' = [error EXCEPT ![t] = "EOK"]
           /\ UNCHANGED <<stat, timer, prio, call, wait>>
  <2>1. events' \in SUBSET events  BY <1>4
  <2> QED  BY <2>1, <1>3, <1>4
<1>5. CASE /\ error' = [error EXCEPT ![t] = "ERROR"]
           /\ UNCHANGED <<stat, timer, prio, call, wait, events>>
  <2>1. events' \in SUBSET events  BY <1>5
  <2> QED  BY <2>1, <1>3, <1>5
<1>6. CASE /\ ~Satisfied(s, all, events)
           /\ Suspend(t, "event", [op |-> "event_recv", set |-> s, all |-> all, clear |-> clear], time)
           /\ UNCHANGED <<prio, events>>
  <2>1. PICK q \in EventCalls : /\ q = [op |-> "event_recv", set |-> s, all |-> all, clear |-> clear]
                                /\ q.op = "event_recv" /\ q.set = s /\ q.all = all
    <3>1. PICK q : q = [op |-> "event_recv", set |-> s, all |-> all, clear |-> clear]  OBVIOUS
    <3>2. q.op = "event_recv" /\ q.set = s /\ q.all = all /\ q \in EventCalls  BY <3>1 DEF EventCalls
    <3> QED  BY <3>1, <3>2
  <2>2. "event" \in Lists /\ WaitsOn(q, "event") /\ Suspend(t, "event", q, time)
    BY <2>1, <1>6 DEF Lists, ObjectLists, WaitsOn
  <2>3. ListInv'  BY <2>2, <1>2, SuspendKeeps
  <2>4. call'[t] = q /\ \A c \in Callers : c # t => call'[c] = call[c]
    <3>1. call' = [call EXCEPT ![t] = q]  BY <2>2 DEF Suspend
    <3> QED  BY <3>1, <1>2 DEF ListInv, Shapes, Callers
  <2>5. Core'  BY <2>1, <2>3, <2>4, <1>1, <1>6, EventCore
  <2>6. ASSUME NEW x \in Thread, On(wait'["event"], x)
        PROVE  ~Satisfied(call'[x].set, call'[x].all, events')
    <3>1. CASE x = t  BY <3>1, <2>1, <2>4, <1>6
    <3>2. CASE x # t
      <4>1. wait["event"] \in Seq(Thread) /\ Once(wait["event"]) /\ ~On(wait["event"], t)
        BY <2>2, <1>2 DEF ListInv, Shapes
      <4>2. PICK r : r = Inserted(wait["event"], t)  OBVIOUS
      <4>3. wait'["event"] = r  BY <4>2, <2>2, <1>2 DEF Suspend, ListInv, Shapes
      <4>4. On(wait["event"], x)  BY <4>1, <4>2, <4>3, <3>2, <2>6, InsertedSeq
      <4>5. call'[x] = call[x]  BY <3>2, <2>4 DEF Callers
      <4> QED  BY <4>4, <4>5, <1>6 DEF EventInv
    <3> QED  BY <3>1, <3>2
  <2> QED  BY <2>5, <2>6, <1>6 DEF EventInv
<1> QED  BY <1>4, <1>5, <1>6 DEF EventRecv

LEMMA EventReceivedKeeps ==
    ASSUME Core, EventInv, kind = "event", UNCHANGED <<kind, flag, mailVars>>, NEW t \in Thread,
           EventReceived(t)
    PROVE  Core' /\ EventInv'
<1>1. /\ stat[t] = "READY" /\ call' = [call EXCEPT ![t] = NoCall]
      /\ UNCHANGED <<stat, error, timer, prio, wait, value, owed, mutex, held, events>>
  BY DEF EventReceived, Resumed, Return, syncVars
<1>2. ListInv /\ t \in Callers  BY DEF Core, Callers
<1>3. Spares({}) /\ call'[t] = NoCall /\ \A x \in Callers : x # t => call'[x] = call[x]
  BY <1>1, <1>2, OwnCall
<1>4. ListInv'  BY <1>1, <1>2, <1>3, SameKeeps
<1>5. Core'  BY <1>1, <1>3, <1>4, EventCore DEF NoCall
<1>6. \A x \in Thread : On(wait["event"], x) => call'[x] = call[x]
  BY <1>1, <1>3, EventWaits DEF Callers
<1> QED  BY <1>1, <1>5, <1>6 DEF EventInv

LEMMA EventSendKeeps ==
    ASSUME Core, EventInv, kind = "event", UNCHANGED <<kind, flag, mailVars>>,
           NEW c \in Callers, NEW s \in SUBSET Bits, EventSend(c, s)
    PROVE  Core' /\ EventInv'
<1>1. PICK d : d = Deliver(events \cup s)  OBVIOUS
<1>2. /\ events' = d.set /\ Wake(DOMAIN d.woken)
      /\ call' = [t \in Callers |-> IF t \in DOMAIN d.woken
                                      THEN [call[t] EXCEPT !.set = d.woken[t]] ELSE call[t]]
      /\ UNCHANGED <<error, prio, value, owed, mutex, held>>
  BY <1>1 DEF EventSend
<1>3. ListInv /\ "event" \in Lists  BY DEF Core, Lists, ObjectLists
<1>4. PICK w \in Seq(Thread) : w = wait["event"]  BY <1>3 DEF ListInv, Shapes
<1>5. DeliveredTo(d, events \cup s, w, call, Len(w))  BY <1>1, <1>4, DeliverIs
<1>6. PICK T : T = DOMAIN d.woken  OBVIOUS
<1>7. ASSUME NEW x \in T PROVE x \in Thread /\ On(w, x) /\ d.woken[x] \subseteq call[x].set
  <2>1. (\E i \in 1..Len(w) : w[i] = x) /\ d.woken[x] \subseteq call[x].set
    BY <1>5, <1>6 DEF DeliveredTo
  <2> QED  BY <2>1, ElementOfSeq DEF On
<1>8. \A x \in Callers : x \notin T => call'[x] = call[x]  BY <1>2, <1>6
<1>9. ASSUME NEW x \in T PROVE call'[x] \in EventCalls
  <2>1. x \in Thread /\ x \in Callers /\ d.woken[x] \subseteq call[x].set  BY <1>7 DEF Callers
  <2>2. call[x] \in EventCalls  BY <1>4, <1>7, EventWaits
  <2>3. PICK q \in EventCalls : q = call[x]  BY <2>2
  <2>6. PICK b : b = d.woken[x] /\ b \subseteq q.set  BY <2>1, <2>3
  <2>4. call'[x] = [q EXCEPT !.set = b]  BY <2>1, <2>3, <2>6, <1>2, <1>6
  <2>5. [q EXCEPT !.set = b] \in EventCalls  BY <2>6 DEF EventCalls
  <2> QED  BY <2>4, <2>5
<1>10. Spares(T)
  <2>1. call' = [y \in Callers |-> call'[y]]  BY <1>2
  <2>2. error' \in [Thread -> {"EOK", "ERROR"}]  BY <1>2, <1>3 DEF ListInv, Shapes
  <2> QED  BY <2>1, <2>2, <1>2, <1>8 DEF Spares, Callers
<1>11. Wake(T)  BY <1>2, <1>6
<1>12. ListInv'  BY <1>3, <1>10, <1>11, WakeKeeps
<1>13. Core'  BY <1>2, <1>8, <1>9, <1>12, EventCore
<1>14. ASSUME NEW x \in Thread, On(wait'["event"], x)
       PROVE  ~Satisfied(call'[x].set, call'[x].all, events')
  <2>1. On(w, x) /\ x \notin T  BY <1>3, <1>4, <1>11, <1>14, WakeLists
  <2>2. ~Satisfied(call[x].set, call[x].all, d.set)  BY <2>1, <1>5, <1>6 DEF DeliveredTo, On
  <2>3. call'[x] = call[x]  BY <2>1, <1>8 DEF Callers
  <2> QED  BY <2>2, <2>3, <1>2
<1>15. events' \subseteq Bits  BY <1>2, <1>5 DEF DeliveredTo, EventInv
<1> QED  BY <1>13, <1>14, <1>15 DEF EventInv

LEMMA EventResetKeeps ==
    ASSUME Core, EventInv, kind = "event", UNCHANGED <<kind, flag, mailVars>>,
           NEW c \in Callers, EventReset(c)
    PROVE  Core' /\ EventInv'
<1>1. WakeAll({"event"}) /\ events' = {} /\ UNCHANGED <<prio, call, value, owed, mutex, held>>
  BY DEF EventReset
<1>2. ListInv /\ {"event"} \in SUBSET Lists  BY DEF Core, Lists, ObjectLists
<1>3. ListInv'  BY <1>1, <1>2, WakeAllKeeps
<1>4. Core'  BY <1>1, <1>3, EventCore
<1>5. wait'["event"] = <<>>  BY <1>1, <1>2, WakeAllIs
<1>6. \A x \in Thread : ~On(wait'["event"], x)
  <2>1. PICK w \in Seq(Thread) : w = wait'["event"]  BY <1>2, <1>3 DEF ListInv, Shapes
  <2> QED  BY <2>1, <1>5, EmptyList
<1> QED  BY <1>1, <1>4, <1>6 DEF EventInv

LEMMA EventTimeout ==
    ASSUME Core, EventInv, NEW t \in Thread, Timeout(t), UNCHANGED <<syncVars, mailVars>>
    PROVE  EventInv'
<1>1. Wake({t}) /\ UNCHANGED <<call, kind, events>>  BY TimeoutKeeps DEF Timeout, syncVars
<1>2. ListInv /\ "event" \in Lists  BY DEF Core, Lists, ObjectLists
<1>3. \A x \in Thread : On(wait'["event"], x) => On(wait["event"], x)  BY <1>1, <1>2, WakeLists
<1> QED  BY <1>1, <1>3 DEF EventInv

-----------------------------------------------------------------------------
(* The mailbox: its ring.                                                  *)

\* The place of the k-th mail from the place o on.
Slot(o, k) == IF o + k <= MbSize THEN o + k - 1 ELSE o + k - 1 - MbSize

LEMMA SlotIs ==
    ASSUME NEW o \in 0..(MbSize - 1), NEW k \in 1..MbSize
    PROVE  Slot(o, k) = (o + k - 1) % MbSize /\ Slot(o, k) \in 0..(MbSize - 1)
<1>1. MbSize \in Nat \ {0}  BY MailAssumption
<1>2. CASE o + k <= MbSize
  <2>1. PICK x \in 0..(MbSize - 1) : x = o + k - 1  BY <1>1, <1>2
  <2>2. x % MbSize = x  BY <2>1, <1>1, ModSmall
  <2> QED  BY <2>1, <2>2, <1>2 DEF Slot
<1>3. CASE ~(o + k <= MbSize)
  <2>1. PICK x \in 0..(MbSize - 1) : x = o + k - 1 - MbSize  BY <1>1, <1>3
  <2>2. x % MbSize = x  BY <2>1, <1>1, ModSmall
  <2>3. o + k - 1 = x + MbSize /\ x \in Int  BY <2>1, <1>1
  <2>4. (x + MbSize) % MbSize = x % MbSize  BY <2>3, <1>1
  <2> QED  BY <2>1, <2>2, <2>3, <2>4, <1>3 DEF Slot
<1> QED  BY <1>2, <1>3

\* The next place, and that no two of MbSize places are the same.
LEMMA SlotNext ==
    ASSUME NEW o \in 0..(MbSize - 1), NEW k \in 1..MbSize
    PROVE  /\ NextOffset(Slot(o, k)) = Slot(o, k + 1)
           /\ Slot(NextOffset(o), k) = Slot(o, k + 1)
           /\ NextOffset(o) \in 0..(MbSize - 1)
<1>1. MbSize \in Nat \ {0} /\ o \in Int /\ k \in Int  BY MailAssumption
<1>2. NextOffset(o) \in 0..(MbSize - 1)  BY <1>1 DEF NextOffset
<1>3. NextOffset(Slot(o, k)) = Slot(o, k + 1)
  <2>1. CASE o + k < MbSize
    <3>1. Slot(o, k) = o + k - 1 /\ Slot(o, k + 1) = o + k  BY <2>1, <1>1 DEF Slot
    <3> QED  BY <3>1, <2>1, <1>1 DEF NextOffset
  <2>2. CASE o + k = MbSize
    <3>1. Slot(o, k) = o + k - 1 /\ Slot(o, k + 1) = 0  BY <2>2, <1>1 DEF Slot
    <3> QED  BY <3>1, <2>2, <1>1 DEF NextOffset
  <2>3. CASE o + k > MbSize
    <3>1. Slot(o, k) = o + k - 1 - MbSize /\ Slot(o, k + 1) = o + k - MbSize  BY <2>3, <1>1 DEF Slot
    <3> QED  BY <3>1, <2>3, <1>1 DEF NextOffset
  <2> QED  BY <2>1, <2>2, <2>3, <1>1
<1>4. Slot(NextOffset(o), k) = Slot(o, k + 1)
  <2>1. CASE o + 1 < MbSize
    <3>1. PICK n \in Int : n = o + 1 /\ n = NextOffset(o)  BY <2>1, <1>1 DEF NextOffset
    <3>2. n + k = o + (k + 1)  BY <3>1, <1>1
    <3>3. PICK a \in Int : a = n + k /\ a = o + (k + 1)  BY <3>2, <1>1
    <3>4. Slot(n, k) = Slot(o, k + 1)  BY <3>1, <3>3, <1>1 DEF Slot
    <3> QED  BY <3>1, <3>4
  <2>2. CASE o + 1 >= MbSize
    <3>1. PICK n \in Int : n = 0 /\ n = NextOffset(o)  BY <2>2, <1>1 DEF NextOffset
    <3>2. n + k <= MbSize /\ n + k - 1 = k - 1  BY <3>1, <1>1
    <3>3. ~(o + (k + 1) <= MbSize) /\ o + (k + 1) - 1 - MbSize = k - 1  BY <2>2, <1>1
    <3> QED  BY <3>1, <3>2, <3>3 DEF Slot
  <2> QED  BY <2>1, <2>2, <1>1
<1> QED  BY <1>2, <1>3, <1>4

LEMMA SlotsDiffer ==
    ASSUME NEW o \in 0..(MbSize - 1), NEW k \in 1..MbSize, NEW j \in 1..MbSize, j < k
    PROVE  Slot(o, j) # Slot(o, k)
<1>1. MbSize \in Nat \ {0} /\ o \in Int /\ k \in Int /\ j \in Int  BY MailAssumption
<1>2. CASE o + k <= MbSize
  <2>1. Slot(o, j) = o + j - 1 /\ Slot(o, k) = o + k - 1  BY <1>1, <1>2 DEF Slot
  <2> QED  BY <2>1, <1>1
<1>3. CASE ~(o + k <= MbSize) /\ o + j <= MbSize
  <2>1. Slot(o, j) = o + j - 1 /\ Slot(o, k) = o + k - 1 - MbSize  BY <1>1, <1>3 DEF Slot
  <2> QED  BY <2>1, <1>1
<1>4. CASE ~(o + k <= MbSize) /\ ~(o + j <= MbSize)
  <2>1. Slot(o, j) = o + j - 1 - MbSize /\ Slot(o, k) = o + k - 1 - MbSize  BY <1>1, <1>4 DEF Slot
  <2> QED  BY <2>1, <1>1
<1> QED  BY <1>2, <1>3, <1>4

MbRecord == [msg_pool : [0..(MbSize - 1) -> Nat], in_offset : 0..(MbSize - 1),
             out_offset : 0..(MbSize - 1), entry : 0..MbSize]

IsMb(r, p, i, o, e) == r = [msg_pool |-> p, in_offset |-> i, out_offset |-> o, entry |-> e]

LEMMA MbFields ==
    ASSUME NEW p, NEW i, NEW o, NEW e, NEW r, IsMb(r, p, i, o, e)
    PROVE  r.msg_pool = p /\ r.in_offset = i /\ r.out_offset = o /\ r.entry = e
  BY DEF IsMb

\* The mails in the ring are those after the l-th up to the s-th.
Ring(b, l, s) ==
    /\ b \in MbRecord /\ l \in Nat /\ s \in Nat
    /\ b.in_offset = Slot(b.out_offset, b.entry + 1)
    /\ l + b.entry = s
    /\ \A k \in 1..b.entry : b.msg_pool[Slot(b.out_offset, k)] = l + k

\* A mail is put, is taken, and a reset.
Put(r, b, s) ==
    r = [b EXCEPT !.msg_pool[b.in_offset] = s + 1, !.in_offset = NextOffset(@), !.entry = @ + 1]
Taken(r, b) == r = [b EXCEPT !.out_offset = NextOffset(@), !.entry = @ - 1]
Cleared(r, b) == r = [b EXCEPT !.in_offset = 0, !.out_offset = 0, !.entry = 0]

LEMMA RingPut ==
    ASSUME NEW b, NEW l, NEW s, Ring(b, l, s), b.entry < MbSize, NEW r, Put(r, b, s)
    PROVE  Ring(r, l, s + 1) /\ r.entry = b.entry + 1
<1>1. MbSize \in Nat \ {0}  BY MailAssumption
<1>2. l \in Nat /\ s \in Nat  BY DEF Ring
<1>3. PICK p \in [0..(MbSize - 1) -> Nat], i \in 0..(MbSize - 1), o \in 0..(MbSize - 1), e \in 0..MbSize :
         b = [msg_pool |-> p, in_offset |-> i, out_offset |-> o, entry |-> e]
  BY DEF Ring, MbRecord
<1>4. b.msg_pool = p /\ b.in_offset = i /\ b.out_offset = o /\ b.entry = e  BY <1>3
<1>5. /\ i = Slot(o, e + 1) /\ l + e = s /\ e < MbSize
      /\ \A k \in 1..e : p[Slot(o, k)] = l + k
  BY <1>4 DEF Ring
<1>6. PICK n \in 0..(MbSize - 1) : n = NextOffset(i) /\ n = Slot(o, e + 1 + 1)
  <2>1. PICK k \in 1..MbSize : k = e + 1  BY <1>1, <1>5
  <2>2. NextOffset(i) = Slot(o, k + 1)  BY <2>1, <1>5, SlotNext
  <2>3. NextOffset(i) \in 0..(MbSize - 1)  BY SlotNext
  <2> QED  BY <2>1, <2>2, <2>3
<1>7. PICK e1 \in 0..MbSize : e1 = e + 1  BY <1>1, <1>5
<1>8. PICK p1 \in [0..(MbSize - 1) -> Nat] : p1 = [p EXCEPT ![i] = s + 1]
  <2>1. PICK v \in Nat : v = s + 1  BY <1>2
  <2>2. [p EXCEPT ![i] = v] \in [0..(MbSize - 1) -> Nat]  OBVIOUS
  <2> QED  BY <2>1, <2>2
<1>9. IsMb(r, p1, n, o, e1)  BY <1>3, <1>4, <1>6, <1>7, <1>8 DEF IsMb, Put
<1>10. r.msg_pool = p1 /\ r.in_offset = n /\ r.out_offset = o /\ r.entry = e1  BY <1>9, MbFields
<1>11. r \in MbRecord  BY <1>9 DEF MbRecord, IsMb
<1>12. ASSUME NEW k \in 1..e1 PROVE p1[Slot(o, k)] = l + k
  <2>1. CASE k = e1  BY <2>1, <1>2, <1>5, <1>7, <1>8
  <2>2. CASE k # e1
    <3>1. k \in 1..e /\ k \in 1..MbSize  BY <2>2, <1>1, <1>5, <1>7
    <3>2. Slot(o, k) \in 0..(MbSize - 1) /\ Slot(o, k) # i
      <4>1. PICK j \in 1..MbSize : j = e + 1 /\ k < j  BY <3>1, <1>1, <1>5
      <4> QED  BY <4>1, <3>1, <1>5, SlotIs, SlotsDiffer
    <3> QED  BY <3>1, <3>2, <1>5, <1>8
  <2> QED  BY <2>1, <2>2
<1>13. s + 1 \in Nat /\ l + e1 = s + 1
  <2>1. PICK a \in Nat : a = e  BY <1>1
  <2>2. l + a = s /\ e1 = a + 1  BY <2>1, <1>5, <1>7
  <2>3. l + (a + 1) = s + 1 /\ s + 1 \in Nat  BY <2>1, <2>2, <1>2
  <2> QED  BY <2>2, <2>3
<1>14. n = Slot(o, e1 + 1)  BY <1>6, <1>7
<1>15. Ring(r, l, s + 1)  BY <1>2, <1>10, <1>11, <1>12, <1>13, <1>14 DEF Ring
<1> QED  BY <1>4, <1>7, <1>10, <1>15

LEMMA RingTake ==
    ASSUME NEW b, NEW l, NEW s, Ring(b, l, s), b.entry > 0, NEW r, Taken(r, b)
    PROVE  Ring(r, b.msg_pool[b.out_offset], s) /\ r.entry = b.entry - 1
<1>1. MbSize \in Nat \ {0}  BY MailAssumption
<1>2. l \in Nat /\ s \in Nat  BY DEF Ring
<1>3. PICK p \in [0..(MbSize - 1) -> Nat], i \in 0..(MbSize - 1), o \in 0..(MbSize - 1), e \in 0..MbSize :
         b = [msg_pool |-> p, in_offset |-> i, out_offset |-> o, entry |-> e]
  BY DEF Ring, MbRecord
<1>4. b.msg_pool = p /\ b.in_offset = i /\ b.out_offset = o /\ b.entry = e  BY <1>3
<1>5. /\ i = Slot(o, e + 1) /\ l + e = s /\ e > 0
      /\ \A k \in 1..e : p[Slot(o, k)] = l + k
  BY <1>4 DEF Ring
<1>6. PICK n \in 0..(MbSize - 1) : n = NextOffset(o)
  <2>1. e \in 1..MbSize  BY <1>1, <1>5
  <2> QED  BY <2>1, SlotNext
<1>7. PICK e1 \in 0..MbSize : e1 = e - 1  BY <1>1, <1>5
<1>8. \A k \in 1..(e1 + 1) : Slot(n, k) = Slot(o, k + 1)
  <2>1. \A k \in 1..(e1 + 1) : k \in 1..MbSize  BY <1>1, <1>7
  <2> QED  BY <2>1, <1>6, SlotNext
<1>9. IsMb(r, p, i, n, e1)  BY <1>3, <1>4, <1>6, <1>7 DEF IsMb, Taken
<1>10. r.msg_pool = p /\ r.in_offset = i /\ r.out_offset = n /\ r.entry = e1  BY <1>9, MbFields
<1>11. r \in MbRecord  BY <1>9 DEF MbRecord, IsMb
<1>12. p[o] = l + 1
  <2>1. PICK one \in 1..e : one = 1  BY <1>5
  <2>2. Slot(o, one) = o  BY <2>1, <1>1 DEF Slot
  <2>3. p[Slot(o, one)] = l + one  BY <2>1, <1>5
  <2> QED  BY <2>1, <2>2, <2>3
<1>13. PICK f \in Nat : f = p[o] /\ f = l + 1  BY <1>2, <1>12
<1>14. ASSUME NEW k \in 1..e1 PROVE p[Slot(n, k)] = f + k
  <2>1. k + 1 \in 1..e /\ k \in 1..(e1 + 1)  BY <1>7
  <2>2. p[Slot(o, k + 1)] = l + (k + 1)  BY <2>1, <1>5
  <2>3. k \in Int /\ l + (k + 1) = f + k  BY <1>2, <1>13
  <2> QED  BY <2>1, <2>2, <2>3, <1>8
<1>15. i = Slot(n, e1 + 1)
  <2>1. e1 + 1 \in 1..(e1 + 1) /\ e1 + 1 + 1 = e + 1  BY <1>7
  <2> QED  BY <2>1, <1>5, <1>8
<1>16. f + e1 = s  BY <1>2, <1>5, <1>7, <1>13
<1>17. Ring(r, f, s)  BY <1>2, <1>10, <1>11, <1>13, <1>14, <1>15, <1>16 DEF Ring
<1> QED  BY <1>4, <1>7, <1>10, <1>13, <1>17

LEMMA RingReset ==
    ASSUME NEW b, NEW l, NEW s, Ring(b, l, s), NEW r, Cleared(r, b)
    PROVE  Ring(r, s, s) /\ r.entry = 0
<1>1. MbSize \in Nat \ {0}  BY MailAssumption
<1>2. s \in Nat  BY DEF Ring
<1>3. PICK p \in [0..(MbSize - 1) -> Nat], i \in 0..(MbSize - 1), o \in 0..(MbSize - 1), e \in 0..MbSize :
         b = [msg_pool |-> p, in_offset |-> i, out_offset |-> o, entry |-> e]
  BY DEF Ring, MbRecord
<1>4. PICK z \in 0..(MbSize - 1) : z = 0  BY <1>1
<1>5. z \in 0..MbSize /\ z = Slot(z, z + 1) /\ s + z = s  BY <1>1, <1>2, <1>4 DEF Slot
<1>6. IsMb(r, p, z, z, z)  BY <1>3, <1>4 DEF IsMb, Cleared
<1>7. r.msg_pool = p /\ r.in_offset = z /\ r.out_offset = z /\ r.entry = z  BY <1>6, MbFields
<1>8. r \in MbRecord  BY <1>5, <1>6 DEF MbRecord, IsMb
<1>9. ~ \E k \in 1..z : TRUE  BY <1>4
<1>10. Ring(r, s, s)  BY <1>2, <1>5, <1>7, <1>8, <1>9 DEF Ring
<1> QED  BY <1>4, <1>7, <1>10

-----------------------------------------------------------------------------
(* Steps of a caller of a mailbox or a message queue.                      *)

\* The other ready threads go on as they were.
Stays(c) ==
    \A x \in Thread : x # c /\ stat[x] = "READY"
        => stat'[x] = "READY" /\ call'[x] = call[x] /\ error'[x] = error[x]

\* A waiting thread is resumed with what it asked for.
Wakes(op) == \E h \in Thread : stat[h] = "SUSPEND" /\ WellThen(h, op)

LEMMA WellStays ==
    ASSUME NEW c, Stays(c), NEW op
    PROVE  \E u \in Nat, v \in Nat :
              /\ u = Cardinality(ResumedWell(op)) /\ v = Cardinality(ResumedWell(op))'
              /\ u <= v + 1 /\ (c \notin ResumedWell(op) => u <= v)
              /\ (c \notin ResumedWell(op) /\ Wakes(op) => u + 1 <= v)
<1>1. PICK S : S = ResumedWell(op)  OBVIOUS
<1>2. PICK R : R = ResumedWell(op)'  OBVIOUS
<1>3. \A x \in Thread : x \in R <=> WellThen(x, op)  BY <1>2 DEF ResumedWell, Resumed, WellThen
<1>4. \A x \in S : x # c => x \in R
  <2>1. \A x \in S : x \in Thread /\ stat[x] = "READY" /\ call[x].op = op /\ error[x] = "EOK"
    BY <1>1 DEF ResumedWell, Resumed
  <2> QED  BY <2>1, <1>3 DEF Stays, WellThen
<1>5. IsFiniteSet(S) /\ Cardinality(S) \in Nat  BY <1>1, WellFinite
<1>6. IsFiniteSet(R) /\ Cardinality(R) \in Nat
  <2>1. R \in SUBSET Thread  BY <1>2 DEF ResumedWell
  <2>2. IsFiniteSet(R)  BY <2>1, ThreadsAssumption, FS_Subset
  <2> QED  BY <2>2, FS_CardinalityType
<1>7. PICK u \in Nat, v \in Nat : u = Cardinality(S) /\ v = Cardinality(R)  BY <1>5, <1>6
<1>8. c \notin S => u <= v
  <2>1. SUFFICES ASSUME c \notin S PROVE u <= v
    OBVIOUS
  <2>2. S \in SUBSET R  BY <2>1, <1>4
  <2> QED  BY <2>2, <1>6, <1>7, FS_Subset
<1>9. u <= v + 1
  <2>1. CASE c \notin S  BY <2>1, <1>7, <1>8
  <2>2. CASE c \in S
    <3>1. IsFiniteSet(S \ {c}) /\ Cardinality(S \ {c}) = u - 1
      BY <2>2, <1>5, <1>7, FS_RemoveElement
    <3>2. S \ {c} \in SUBSET R  BY <1>4
    <3>3. Cardinality(S \ {c}) <= Cardinality(R)  BY <3>2, <1>6, FS_Subset
    <3> QED  BY <3>1, <3>3, <1>7
  <2> QED  BY <2>1, <2>2
<1>10. c \notin S /\ Wakes(op) => u + 1 <= v
  <2>1. SUFFICES ASSUME c \notin S, Wakes(op) PROVE u + 1 <= v
    OBVIOUS
  <2>2. PICK h \in Thread : stat[h] = "SUSPEND" /\ WellThen(h, op)  BY <2>1 DEF Wakes
  <2>3. h \notin S /\ h \in R  BY <2>2, <1>1, <1>3 DEF ResumedWell, Resumed
  <2>4. Cardinality(S \cup {h}) = u + 1  BY <2>3, <1>5, <1>7, FS_AddElement
  <2>5. S \cup {h} \in SUBSET R  BY <2>1, <2>3, <1>4
  <2>6. Cardinality(S \cup {h}) <= Cardinality(R)  BY <2>5, <1>6, FS_Subset
  <2> QED  BY <2>4, <2>6, <1>7
<1> QED  BY <1>1, <1>2, <1>7, <1>8, <1>9, <1>10

\* Who waits on a list of a mailbox or a message queue.
LEMMA WaitsForMail ==
    ASSUME Core, NEW x \in Thread
    PROVE  /\ WaitsOn(call[x], "mb") => call[x].op = "mb_recv"
           /\ WaitsOn(call[x], "mb_senders") => call[x].op = "mb_send"
           /\ WaitsOn(call[x], "mq") => call[x].op = "mq_recv"
<1>1. call[x].op = "mutex_take" => call[x].m \notin ObjectLists
  BY CallsFit, ThreadsAssumption DEF Callers
<1> QED  BY <1>1 DEF WaitsOn, ObjectLists

\* The caller is done, and resumes the first thread of a list.
LEMMA DoneStep ==
    ASSUME Core, NEW c \in Callers, c \in Thread => stat[c] = "READY", NEW l \in Lists, WakeFirst(l), Return(c),
           UNCHANGED error
    PROVE  /\ ListInv' /\ Stays(c)
           /\ call'[c] = NoCall /\ \A x \in Callers : x # c => call'[x] = call[x]
           /\ \A k \in Lists : wait'[k] # <<>> => wait[k] # <<>>
           /\ wait[l] # <<>> => \E h \in Thread :
                 stat[h] = "SUSPEND" /\ WaitsOn(call[h], l) /\ WellThen(h, call[h].op)
<1>1. ListInv  BY DEF Core
<1>2. Spares({}) /\ call'[c] = NoCall /\ \A x \in Callers : x # c => call'[x] = call[x]
  BY <1>1, OwnCall DEF Return
<1>3. ListInv'  BY <1>1, <1>2, WakeFirstKeeps
<1>4. CASE wait[l] = <<>> /\ Wake({}) /\ \A x \in Thread : stat'[x] = stat[x]
  <2>1. \A k \in Lists : wait'[k] # <<>> => wait[k] # <<>>  BY <1>1, <1>4, WakeLists
  <2>2. Stays(c)  BY <1>2, <1>4 DEF Stays, Callers
  <2> QED  BY <2>1, <2>2, <1>2, <1>3, <1>4
<1>5. ASSUME NEW h \in Thread, stat[h] = "SUSPEND", WaitsOn(call[h], l), error[h] = "EOK", Wake({h}),
             \A x \in Thread : stat'[x] = IF x = h THEN "READY" ELSE stat[x]
      PROVE  /\ Stays(c) /\ \A k \in Lists : wait'[k] # <<>> => wait[k] # <<>>
             /\ \E g \in Thread : stat[g] = "SUSPEND" /\ WaitsOn(call[g], l) /\ WellThen(g, call[g].op)
  <2>1. \A k \in Lists : wait'[k] # <<>> => wait[k] # <<>>  BY <1>1, <1>5, WakeLists
  <2>2. Stays(c)  BY <1>2, <1>5 DEF Stays, Callers
  <2>3. h # c /\ h \in Callers  BY <1>5 DEF Callers
  <2>4. WellThen(h, call[h].op)  BY <2>3, <1>2, <1>5 DEF WellThen
  <2> QED  BY <2>1, <2>2, <2>4, <1>5
<1> QED  BY <1>1, <1>2, <1>3, <1>4, <1>5, WakeFirstIs

\* The caller waits.
LEMMA WaitStep ==
    ASSUME Core, NEW t \in Thread, stat[t] = "READY", NEW l \in Lists, NEW q, NEW time,
           WaitsOn(q, l), Suspend(t, l, q, time)
    PROVE  /\ ListInv' /\ Stays(t)
           /\ call'[t] = q /\ \A x \in Callers : x # t => call'[x] = call[x]
           /\ \A k \in Lists : k # l => wait'[k] = wait[k]
<1>1. ListInv  BY DEF Core
<1>2. ListInv'  BY <1>1, SuspendKeeps
<1>3. /\ stat' = [stat EXCEPT ![t] = "SUSPEND"] /\ call' = [call EXCEPT ![t] = q]
      /\ error' = [error EXCEPT ![t] = "EOK"]
  BY DEF Suspend
<1>4. call'[t] = q /\ \A x \in Callers : x # t => call'[x] = call[x]
  BY <1>1, <1>3 DEF ListInv, Shapes, Callers
<1>5. Stays(t)  BY <1>1, <1>3, <1>4 DEF Stays, ListInv, Shapes, Callers
<1>6. \A k \in Lists : k # l => wait'[k] = wait[k]
  <2>1. PICK r : r = Inserted(wait[l], t)  OBVIOUS
  <2>2. wait' = [wait EXCEPT ![l] = r]  BY <2>1 DEF Suspend
  <2> QED  BY <2>2, <1>1 DEF ListInv, Shapes
<1> QED  BY <1>2, <1>4, <1>5, <1>6

\* The caller returns or goes on to its next step; its error may change.
LEMMA OwnStep ==
    ASSUME Core, NEW c \in Callers, c \in Thread => stat[c] = "READY", NEW q, call' = [call EXCEPT ![c] = q],
           UNCHANGED <<stat, timer, wait>>, UNCHANGED error \/ error' = [error EXCEPT ![c] = "ERROR"]
    PROVE  /\ ListInv' /\ Stays(c)
           /\ call'[c] = q /\ \A x \in Callers : x # c => call'[x] = call[x]
<1>1. ListInv  BY DEF Core
<1>2. call'[c] = q /\ \A x \in Callers : x # c => call'[x] = call[x]
  BY <1>1 DEF ListInv, Shapes
<1>3. error' \in [Thread -> {"EOK", "ERROR"}] /\ \A x \in Thread : x # c => error'[x] = error[x]
  BY <1>1 DEF ListInv, Shapes
<1>4. call' = [x \in Callers |-> call'[x]]  BY <1>1 DEF ListInv, Shapes
<1>5. Spares({})  BY <1>2, <1>3, <1>4 DEF Spares, Callers
<1>6. ListInv'  BY <1>1, <1>5, SameKeeps
<1>7. Stays(c)  BY <1>2, <1>3 DEF Stays, Callers
<1> QED  BY <1>2, <1>6, <1>7

\* Everybody who waits on some lists is resumed with an error.
LEMMA ResetStep ==
    ASSUME Core, NEW L \in SUBSET Lists, WakeAll(L), UNCHANGED call
    PROVE  ListInv' /\ \A l \in L : wait'[l] = <<>>
<1>1. ListInv  BY DEF Core
<1> QED  BY <1>1, WakeAllKeeps, WakeAllIs

-----------------------------------------------------------------------------
(* The mailbox: its calls.                                                 *)

\* If threads wait on list l for what there are n of, w others are on their way to it.
Awaited(l, n, w) == l # <<>> => n <= w

MbAwake ==
    /\ Awaited(wait["mb"], mb.entry, Cardinality(ResumedWell("mb_recv")))
    /\ Awaited(wait["mb_senders"], MbSize - mb.entry, Cardinality(ResumedWell("mb_send")))

MbInv == kind = "mb" => Ring(mb, last, sent) /\ MbAwake

LEMMA InitMbInv == Init => MbInv
<1>1. SUFFICES ASSUME Init PROVE Ring(mb, last, sent) /\ MbAwake
  BY DEF MbInv
<1>2. MbSize \in Nat \ {0}  BY MailAssumption
<1>3. last = 0 /\ sent = 0  BY <1>1 DEF Init, InitMail
<1>4. PICK z \in 0..(MbSize - 1) : z = 0  BY <1>2
<1>5. PICK p \in [0..(MbSize - 1) -> Nat] : p = [k \in 0..(MbSize - 1) |-> 0]  OBVIOUS
<1>6. IsMb(mb, p, z, z, z)  BY <1>1, <1>4, <1>5 DEF Init, InitMail, InitMb, IsMb
<1>7. mb.msg_pool = p /\ mb.in_offset = z /\ mb.out_offset = z /\ mb.entry = z  BY <1>6, MbFields
<1>8. z \in 0..MbSize /\ z = Slot(z, z + 1) /\ z + z = z /\ z \in Nat  BY <1>2, <1>4 DEF Slot
<1>9. mb \in MbRecord  BY <1>6, <1>8 DEF MbRecord, IsMb
<1>10. ~ \E k \in 1..z : TRUE  BY <1>4
<1>11. Ring(mb, last, sent)  BY <1>3, <1>4, <1>7, <1>8, <1>9, <1>10 DEF Ring
<1>12. wait["mb"] = <<>> /\ wait["mb_senders"] = <<>>
  BY <1>1 DEF Init, InitThreads, Lists, ObjectLists
<1> QED  BY <1>11, <1>12 DEF MbAwake, Awaited

LEMMA MbCore ==
    ASSUME Core, kind = "mb", UNCHANGED <<kind, prio, syncVars, mq, queue>>, ListInv',
           \A c \in Callers : call'[c] = call[c] \/ call'[c].op \in {"none", "mb_send", "mb_recv"}
    PROVE  Core'
<1>1. Others'  BY DEF Core, Others, InitSem, InitMutex, InitEvent, InitMq, syncVars
<1>2. \A c \in Callers : Fits(call[c])'  BY DEF Core, Fits
<1> QED  BY <1>1, <1>2 DEF Core

LEMMA MbSendLoopKeeps ==
    ASSUME Core, MbInv, kind = "mb", UNCHANGED <<kind, flag, syncVars, prio, mq, last, queue>>,
           NEW c \in Callers, c \in Thread => stat[c] = "READY", call[c].op \in {"none", "mb_send"},
           NEW time, c = Isr => time = "none", MbSendLoop(c, time)
    PROVE  Core' /\ MbInv'
<1>1. Ring(mb, last, sent) /\ MbAwake  BY DEF MbInv
<1>2. /\ "mb" \in Lists /\ "mb_senders" \in Lists /\ "mb" # "mb_senders" /\ MbSize \in Nat \ {0}
  BY MailAssumption DEF Lists, ObjectLists
<1>3. PICK e \in 0..MbSize : e = mb.entry  BY <1>1 DEF Ring, MbRecord
<1>4. /\ Awaited(wait["mb"], e, Cardinality(ResumedWell("mb_recv")))
      /\ Awaited(wait["mb_senders"], MbSize - e, Cardinality(ResumedWell("mb_send")))
  BY <1>1, <1>3 DEF MbAwake
<1>5. c \notin ResumedWell("mb_recv")  BY DEF ResumedWell, Resumed
<1>6. CASE /\ mb.entry < MbSize
           /\ mb' = [mb EXCEPT !.msg_pool[mb.in_offset] = sent + 1,
                               !.in_offset = NextOffset(@), !.entry = @ + 1]
           /\ sent' = sent + 1 /\ WakeFirst("mb") /\ Return(c) /\ UNCHANGED error
  <2>1. /\ ListInv' /\ Stays(c)
        /\ call'[c] = NoCall /\ \A x \in Callers : x # c => call'[x] = call[x]
        /\ \A k \in Lists : wait'[k] # <<>> => wait[k] # <<>>
        /\ wait["mb"] # <<>> => \E h \in Thread :
              stat[h] = "SUSPEND" /\ WaitsOn(call[h], "mb") /\ WellThen(h, call[h].op)
    BY <1>2, <1>6, DoneStep
  <2>2. Core'  BY <2>1, MbCore DEF NoCall
  <2>3. PICK b : b = mb'  OBVIOUS
  <2>4. Put(b, mb, sent)  BY <2>3, <1>6 DEF Put
  <2>5. Ring(b, last, sent + 1) /\ b.entry = mb.entry + 1  BY <2>4, <1>1, <1>6, RingPut
  <2>6. mb'.entry = e + 1  BY <2>3, <2>5, <1>3
  <2>7. wait["mb"] # <<>> => Wakes("mb_recv")  BY <2>1, WaitsForMail DEF Wakes
  <2>8. Awaited(wait'["mb"], e + 1, Cardinality(ResumedWell("mb_recv"))')
    <3>1. PICK u \in Nat, v \in Nat :
             /\ u = Cardinality(ResumedWell("mb_recv")) /\ v = Cardinality(ResumedWell("mb_recv"))'
             /\ (c \notin ResumedWell("mb_recv") /\ Wakes("mb_recv") => u + 1 <= v)
      BY <2>1, WellStays
    <3>2. wait["mb"] # <<>> => e <= u /\ u + 1 <= v  BY <3>1, <2>7, <1>4, <1>5 DEF Awaited
    <3>3. wait["mb"] # <<>> => e + 1 <= v  BY <3>1, <3>2, <1>2
    <3> QED  BY <3>1, <3>3, <2>1, <1>2 DEF Awaited
  <2>9. Awaited(wait'["mb_senders"], MbSize - (e + 1), Cardinality(ResumedWell("mb_send"))')
    <3>1. PICK u \in Nat, v \in Nat :
             /\ u = Cardinality(ResumedWell("mb_send")) /\ v = Cardinality(ResumedWell("mb_send"))'
             /\ u <= v + 1
      BY <2>1, WellStays
    <3>2. wait["mb_senders"] # <<>> => MbSize - e <= u  BY <3>1, <1>4 DEF Awaited
    <3>3. wait["mb_senders"] # <<>> => MbSize - (e + 1) <= v  BY <3>1, <3>2, <1>2
    <3> QED  BY <3>1, <3>3, <2>1, <1>2 DEF Awaited
  <2>10. MbAwake'  BY <2>6, <2>8, <2>9 DEF MbAwake
  <2>11. Ring(mb, last, sent)'  BY <2>3, <2>5, <1>6
  <2> QED  BY <2>2, <2>10, <2>11 DEF MbInv
<1>7. ASSUME mb.entry = MbSize, UNCHANGED <<mb, sent>>, ListInv', Stays(c), wait'["mb"] = wait["mb"],
             call'[c].op \in {"none", "mb_send"}, \A x \in Callers : x # c => call'[x] = call[x]
      PROVE  Core' /\ MbInv'
  <2>1. Core'  BY <1>7, MbCore
  <2>2. PICK u \in Nat, v \in Nat :
           /\ u = Cardinality(ResumedWell("mb_recv")) /\ v = Cardinality(ResumedWell("mb_recv"))'
           /\ (c \notin ResumedWell("mb_recv") => u <= v)
    BY <1>7, WellStays
  <2>3. Awaited(wait'["mb"], e, v)
    <3>1. wait["mb"] # <<>> => e <= u /\ u <= v  BY <2>2, <1>4, <1>5 DEF Awaited
    <3>2. wait["mb"] # <<>> => e <= v  BY <3>1, <2>2, <1>2
    <3> QED  BY <3>2, <1>7 DEF Awaited
  <2>4. PICK w \in Nat : w = Cardinality(ResumedWell("mb_send"))'  BY <1>7, WellStays
  <2>5. Awaited(wait'["mb_senders"], MbSize - e, w)
    <3>1. MbSize - e <= w  BY <2>4, <1>2, <1>3, <1>7
    <3> QED  BY <3>1 DEF Awaited
  <2>6. MbAwake'  BY <2>2, <2>3, <2>4, <2>5, <1>3, <1>7 DEF MbAwake
  <2> QED  BY <2>1, <2>6, <1>1, <1>7 DEF MbInv
<1>8. CASE /\ mb.entry = MbSize /\ time # "none"
           /\ Suspend(c, "mb_senders", [op |-> "mb_send", time |-> time], time)
           /\ UNCHANGED <<mb, sent>>
  <2>1. c \in Thread  BY <1>8 DEF Callers
  <2>2. PICK q : q = [op |-> "mb_send", time |-> time]  OBVIOUS
  <2>3. q.op = "mb_send" /\ WaitsOn(q, "mb_senders")  BY <2>2 DEF WaitsOn
  <2>4. Suspend(c, "mb_senders", q, time)  BY <2>2, <1>8
  <2>5. /\ ListInv' /\ Stays(c)
        /\ call'[c] = q /\ \A x \in Callers : x # c => call'[x] = call[x]
        /\ \A k \in Lists : k # "mb_senders" => wait'[k] = wait[k]
    BY <2>1, <2>3, <2>4, <1>2, WaitStep
  <2> QED  BY <2>3, <2>5, <1>2, <1>7, <1>8
<1>9. CASE mb.entry = MbSize /\ Return(c) /\ UNCHANGED <<stat, error, timer, wait, mb, sent>>
  <2>1. ListInv' /\ Stays(c) /\ call'[c] = NoCall /\ \A x \in Callers : x # c => call'[x] = call[x]
    BY <1>9, OwnStep DEF Return
  <2> QED  BY <2>1, <1>7, <1>9 DEF NoCall
<1> QED  BY <1>6, <1>8, <1>9 DEF MbSendLoop

LEMMA MbRecvLoopKeeps ==
    ASSUME Core, MbInv, kind = "mb", UNCHANGED <<kind, flag, syncVars, prio, mq, sent, queue>>,
           NEW c \in Callers, c \in Thread => stat[c] = "READY", call[c].op \in {"none", "mb_recv"},
           NEW time, c = Isr => time = "none",
           \/ MbRecvLoop(c, time)
           \/ /\ mb.entry = 0 /\ error' = [error EXCEPT ![c] = "ERROR"]
              /\ Return(c) /\ UNCHANGED <<stat, timer, wait, mb, last>>
    PROVE  Core' /\ MbInv'
<1>1. Ring(mb, last, sent) /\ MbAwake  BY DEF MbInv
<1>2. /\ "mb" \in Lists /\ "mb_senders" \in Lists /\ "mb" # "mb_senders" /\ MbSize \in Nat \ {0}
  BY MailAssumption DEF Lists, ObjectLists
<1>3. PICK e \in 0..MbSize : e = mb.entry  BY <1>1 DEF Ring, MbRecord
<1>4. /\ Awaited(wait["mb"], e, Cardinality(ResumedWell("mb_recv")))
      /\ Awaited(wait["mb_senders"], MbSize - e, Cardinality(ResumedWell("mb_send")))
  BY <1>1, <1>3 DEF MbAwake
<1>5. c \notin ResumedWell("mb_send")  BY DEF ResumedWell, Resumed
<1>6. CASE mb.entry > 0 /\ MbTake(c) /\ UNCHANGED error
  <2>0. /\ mb' = [mb EXCEPT !.out_offset = NextOffset(@), !.entry = @ - 1]
        /\ last' = mb.msg_pool[mb.out_offset] /\ WakeFirst("mb_senders") /\ Return(c)
    BY <1>6 DEF MbTake
  <2>1. /\ ListInv' /\ Stays(c)
        /\ call'[c] = NoCall /\ \A x \in Callers : x # c => call'[x] = call[x]
        /\ \A k \in Lists : wait'[k] # <<>> => wait[k] # <<>>
        /\ wait["mb_senders"] # <<>> => \E h \in Thread :
              stat[h] = "SUSPEND" /\ WaitsOn(call[h], "mb_senders") /\ WellThen(h, call[h].op)
    BY <2>0, <1>2, <1>6, DoneStep
  <2>2. Core'  BY <2>1, MbCore DEF NoCall
  <2>3. PICK b : b = mb'  OBVIOUS
  <2>4. Taken(b, mb)  BY <2>0, <2>3 DEF Taken
  <2>5. Ring(b, mb.msg_pool[mb.out_offset], sent) /\ b.entry = mb.entry - 1
    BY <2>4, <1>1, <1>6, RingTake
  <2>6. mb'.entry = e - 1  BY <2>3, <2>5, <1>3
  <2>7. wait["mb_senders"] # <<>> => Wakes("mb_send")  BY <2>1, WaitsForMail DEF Wakes
  <2>8. Awaited(wait'["mb_senders"], MbSize - (e - 1), Cardinality(ResumedWell("mb_send"))')
    <3>1. PICK u \in Nat, v \in Nat :
             /\ u = Cardinality(ResumedWell("mb_send")) /\ v = Cardinality(ResumedWell("mb_send"))'
             /\ (c \notin ResumedWell("mb_send") /\ Wakes("mb_send") => u + 1 <= v)
      BY <2>1, WellStays
    <3>2. wait["mb_senders"] # <<>> => MbSize - e <= u /\ u + 1 <= v
      BY <3>1, <2>7, <1>4, <1>5 DEF Awaited
    <3>3. wait["mb_senders"] # <<>> => MbSize - (e - 1) <= v  BY <3>1, <3>2, <1>2
    <3> QED  BY <3>1, <3>3, <2>1, <1>2 DEF Awaited
  <2>9. Awaited(wait'["mb"], e - 1, Cardinality(ResumedWell("mb_recv"))')
    <3>1. PICK u \in Nat, v \in Nat :
             /\ u = Cardinality(ResumedWell("mb_recv")) /\ v = Cardinality(ResumedWell("mb_recv"))'
             /\ u <= v + 1
      BY <2>1, WellStays
    <3>2. wait["mb"] # <<>> => e <= u  BY <3>1, <1>4 DEF Awaited
    <3>3. wait["mb"] # <<>> => e - 1 <= v  BY <3>1, <3>2, <1>2
    <3> QED  BY <3>1, <3>3, <2>1, <1>2 DEF Awaited
  <2>10. MbAwake'  BY <2>6, <2>8, <2>9 DEF MbAwake
  <2>11. Ring(mb, last, sent)'  BY <2>0, <2>3, <2>5
  <2> QED  BY <2>2, <2>10, <2>11 DEF MbInv
<1>7. ASSUME mb.entry = 0, UNCHANGED <<mb, last>>, ListInv', Stays(c), wait'["mb_senders"] = wait["mb_senders"],
             call'[c].op \in {"none", "mb_recv"}, \A x \in Callers : x # c => call'[x] = call[x]
      PROVE  Core' /\ MbInv'
  <2>1. Core'  BY <1>7, MbCore
  <2>2. PICK u \in Nat, v \in Nat :
           /\ u = Cardinality(ResumedWell("mb_send")) /\ v = Cardinality(ResumedWell("mb_send"))'
           /\ (c \notin ResumedWell("mb_send") => u <= v)
    BY <1>7, WellStays
  <2>3. Awaited(wait'["mb_senders"], MbSize - e, v)
    <3>1. wait["mb_senders"] # <<>> => MbSize - e <= u /\ u <= v  BY <2>2, <1>4, <1>5 DEF Awaited
    <3>2. wait["mb_senders"] # <<>> => MbSize - e <= v  BY <3>1, <2>2, <1>2
    <3> QED  BY <3>2, <1>7 DEF Awaited
  <2>4. PICK w \in Nat : w = Cardinality(ResumedWell("mb_recv"))'  BY <1>7, WellStays
  <2>5. Awaited(wait'["mb"], e, w)
    <3>1. e <= w  BY <2>4, <1>2, <1>3, <1>7
    <3> QED  BY <3>1 DEF Awaited
  <2>6. MbAwake'  BY <2>2, <2>3, <2>4, <2>5, <1>3, <1>7 DEF MbAwake
  <2> QED  BY <2>1, <2>6, <1>1, <1>7 DEF MbInv
<1>8. CASE /\ mb.entry = 0 /\ time # "none"
           /\ Suspend(c, "mb", [op |-> "mb_recv", time |-> time], time)
           /\ UNCHANGED <<mb, last>>
  <2>1. c \in Thread  BY <1>8 DEF Callers
  <2>2. PICK q : q = [op |-> "mb_recv", time |-> time]  OBVIOUS
  <2>3. q.op = "mb_recv" /\ WaitsOn(q, "mb")  BY <2>2 DEF WaitsOn
  <2>4. Suspend(c, "mb", q, time)  BY <2>2, <1>8
  <2>5. /\ ListInv' /\ Stays(c)
        /\ call'[c] = q /\ \A x \in Callers : x # c => call'[x] = call[x]
        /\ \A k \in Lists : k # "mb" => wait'[k] = wait[k]
    BY <2>1, <2>3, <2>4, <1>2, WaitStep
  <2> QED  BY <2>3, <2>5, <1>2, <1>7, <1>8
<1>9. CASE /\ mb.entry = 0 /\ error' = [error EXCEPT ![c] = "ERROR"]
           /\ Return(c) /\ UNCHANGED <<stat, timer, wait, mb, last>>
  <2>1. ListInv' /\ Stays(c) /\ call'[c] = NoCall /\ \A x \in Callers : x # c => call'[x] = call[x]
    BY <1>9, OwnStep DEF Return
  <2> QED  BY <2>1, <1>7, <1>9 DEF NoCall
<1> QED  BY <1>6, <1>8, <1>9 DEF MbRecvLoop

\* Nothing of a mailbox changes but what a caller does whose wait failed, or a timer.
LEMMA MbLeft ==
    ASSUME Core', MbInv, kind = "mb", UNCHANGED <<kind, mb, last, sent>>, NEW c, Stays(c),
           c \notin ResumedWell("mb_recv"), c \notin ResumedWell("mb_send"),
           wait'["mb"] # <<>> => wait["mb"] # <<>>, wait'["mb_senders"] # <<>> => wait["mb_senders"] # <<>>
    PROVE  MbInv'
<1>1. Ring(mb, last, sent) /\ MbAwake  BY DEF MbInv
<1>2. MbSize \in Nat \ {0}  BY MailAssumption
<1>3. PICK e \in 0..MbSize : e = mb.entry  BY <1>1 DEF Ring, MbRecord
<1>4. Awaited(wait'["mb"], e, Cardinality(ResumedWell("mb_recv"))')
  <2>1. PICK u \in Nat, v \in Nat :
           /\ u = Cardinality(ResumedWell("mb_recv")) /\ v = Cardinality(ResumedWell("mb_recv"))'
           /\ (c \notin ResumedWell("mb_recv") => u <= v)
    BY WellStays
  <2>2. wait["mb"] # <<>> => e <= u /\ u <= v  BY <2>1, <1>1, <1>3 DEF MbAwake, Awaited
  <2>3. wait["mb"] # <<>> => e <= v  BY <2>1, <2>2, <1>2
  <2> QED  BY <2>1, <2>3 DEF Awaited
<1>5. Awaited(wait'["mb_senders"], MbSize - e, Cardinality(ResumedWell("mb_send"))')
  <2>1. PICK u \in Nat, v \in Nat :
           /\ u = Cardinality(ResumedWell("mb_send")) /\ v = Cardinality(ResumedWell("mb_send"))'
           /\ (c \notin ResumedWell("mb_send") => u <= v)
    BY WellStays
  <2>2. wait["mb_senders"] # <<>> => MbSize - e <= u /\ u <= v  BY <2>1, <1>1, <1>3 DEF MbAwake, Awaited
  <2>3. wait["mb_senders"] # <<>> => MbSize - e <= v  BY <2>1, <2>2, <1>2
  <2> QED  BY <2>1, <2>3 DEF Awaited
<1>6. MbAwake'  BY <1>3, <1>4, <1>5 DEF MbAwake
<1> QED  BY <1>1, <1>6 DEF MbInv

LEMMA MbSendKeeps ==
    ASSUME Core, MbInv, kind = "mb", UNCHANGED <<kind, flag, syncVars>>,
           NEW c \in Callers, NEW time \in Times, MbSend(c, time)
    PROVE  Core' /\ MbInv'
<1>1. /\ call[c].op = "none" /\ (c = Isr => time = "none") /\ MbSendLoop(c, time)
      /\ UNCHANGED <<prio, mq, last, queue>>
  BY DEF MbSend, Idle, Allowed
<1>2. c \in Thread => stat[c] = "READY"  BY <1>1, CallerReady DEF Core
<1> QED  BY <1>1, <1>2, MbSendLoopKeeps

LEMMA MbSendResumedKeeps ==
    ASSUME Core, MbInv, kind = "mb", UNCHANGED <<kind, flag, syncVars>>,
           NEW t \in Thread, MbSendResumed(t)
    PROVE  Core' /\ MbInv'
<1>1. /\ stat[t] = "READY" /\ call[t].op = "mb_send" /\ UNCHANGED <<prio, mq, last, queue>>
      /\ t \in Callers /\ t # Isr
  BY ThreadsAssumption DEF MbSendResumed, Resumed, Callers
<1>2. CASE error[t] # "EOK" /\ Return(t) /\ UNCHANGED <<stat, error, timer, wait, mb, sent>>
  <2>1. ListInv' /\ Stays(t) /\ call'[t] = NoCall /\ \A x \in Callers : x # t => call'[x] = call[x]
    BY <1>1, <1>2, OwnStep DEF Return
  <2>2. Core'  BY <2>1, <1>1, MbCore DEF NoCall
  <2>3. t \notin ResumedWell("mb_recv") /\ t \notin ResumedWell("mb_send")  BY <1>2 DEF ResumedWell
  <2>4. MbInv'  BY <2>1, <2>2, <2>3, <1>1, <1>2, MbLeft
  <2> QED  BY <2>2, <2>4
<1>3. CASE \E time \in Remaining(call[t].time) : MbSendLoop(t, time)
  BY <1>1, <1>3, MbSendLoopKeeps
<1> QED  BY <1>2, <1>3 DEF MbSendResumed

LEMMA MbRecvKeeps ==
    ASSUME Core, MbInv, kind = "mb", UNCHANGED <<kind, flag, syncVars>>,
           NEW c \in Callers, NEW time \in Times, MbRecv(c, time)
    PROVE  Core' /\ MbInv'
<1>1. /\ call[c].op = "none" /\ (c = Isr => time = "none") /\ MbRecvLoop(c, time)
      /\ UNCHANGED <<prio, mq, sent, queue>>
  BY DEF MbRecv, Idle, Allowed
<1>2. c \in Thread => stat[c] = "READY"  BY <1>1, CallerReady DEF Core
<1> QED  BY <1>1, <1>2, MbRecvLoopKeeps

LEMMA MbRecvResumedKeeps ==
    ASSUME Core, MbInv, kind = "mb", UNCHANGED <<kind, flag, syncVars>>,
           NEW t \in Thread, MbRecvResumed(t)
    PROVE  Core' /\ MbInv'
<1>1. /\ stat[t] = "READY" /\ call[t].op = "mb_recv" /\ UNCHANGED <<prio, mq, sent, queue>>
      /\ t \in Callers /\ t # Isr
  BY ThreadsAssumption DEF MbRecvResumed, Resumed, Callers
<1>2. CASE error[t] # "EOK" /\ Return(t) /\ UNCHANGED <<stat, error, timer, wait, mb, last>>
  <2>1. ListInv' /\ Stays(t) /\ call'[t] = NoCall /\ \A x \in Callers : x # t => call'[x] = call[x]
    BY <1>1, <1>2, OwnStep DEF Return
  <2>2. Core'  BY <2>1, <1>1, MbCore DEF NoCall
  <2>3. t \notin ResumedWell("mb_recv") /\ t \notin ResumedWell("mb_send")  BY <1>2 DEF ResumedWell
  <2>4. MbInv'  BY <2>1, <2>2, <2>3, <1>1, <1>2, MbLeft
  <2> QED  BY <2>2, <2>4
<1>3. ASSUME NEW time,
             \/ MbRecvLoop(t, time)
             \/ /\ mb.entry = 0 /\ error' = [error EXCEPT ![t] = "ERROR"]
                /\ Return(t) /\ UNCHANGED <<stat, timer, wait, mb, last>>
      PROVE  Core' /\ MbInv'
  BY <1>1, <1>3, MbRecvLoopKeeps
<1> QED  BY <1>2, <1>3 DEF MbRecvResumed

LEMMA MbResetKeeps ==
    ASSUME Core, MbInv, kind = "mb", UNCHANGED <<kind, flag, syncVars>>, NEW c \in Callers, MbReset(c)
    PROVE  Core' /\ MbInv'
<1>1. /\ WakeAll({"mb", "mb_senders"}) /\ last' = sent
      /\ mb' = [mb EXCEPT !.in_offset = 0, !.out_offset = 0, !.entry = 0]
      /\ UNCHANGED <<prio, call, mq, sent, queue>>
  BY DEF MbReset
<1>2. {"mb", "mb_senders"} \in SUBSET Lists  BY DEF Lists, ObjectLists
<1>3. ListInv' /\ wait'["mb"] = <<>> /\ wait'["mb_senders"] = <<>>
  <2>1. ListInv' /\ \A l \in {"mb", "mb_senders"} : wait'[l] = <<>>  BY <1>1, <1>2, ResetStep
  <2> QED  BY <2>1
<1>4. Core'  BY <1>1, <1>3, MbCore
<1>5. PICK b : b = mb'  OBVIOUS
<1>6. Cleared(b, mb)  BY <1>1, <1>5 DEF Cleared
<1>7. Ring(b, sent, sent)  BY <1>6, RingReset DEF MbInv
<1>8. Ring(mb, last, sent)'  BY <1>1, <1>5, <1>7
<1>9. MbAwake'  BY <1>3 DEF MbAwake, Awaited
<1> QED  BY <1>4, <1>8, <1>9 DEF MbInv

\* A timer that expires is that of a waiting thread.
LEMMA TimeoutStays ==
    ASSUME Core, NEW t \in Thread, Timeout(t), UNCHANGED <<syncVars, mailVars>>
    PROVE  /\ Core' /\ Stays(t) /\ UNCHANGED kind /\ \A op : t \notin ResumedWell(op)
           /\ \A l \in Lists : wait'[l] # <<>> => wait[l] # <<>>
<1>1. /\ Core' /\ stat[t] = "SUSPEND" /\ Wake({t})
      /\ \A x \in Thread : x # t => error'[x] = error[x] /\ stat'[x] = stat[x]
  BY TimeoutKeeps
<1>2. UNCHANGED <<call, kind>>  BY DEF Timeout
<1>3. Stays(t)  BY <1>1, <1>2 DEF Stays
<1>4. \A l \in Lists : wait'[l] # <<>> => wait[l] # <<>>  BY <1>1, WakeLists DEF Core
<1> QED  BY <1>1, <1>2, <1>3, <1>4 DEF ResumedWell, Resumed

LEMMA MbTimeout ==
    ASSUME Core, MbInv, NEW t \in Thread, Timeout(t), UNCHANGED <<syncVars, mailVars>>
    PROVE  MbInv'
<1>1. /\ Core' /\ Stays(t) /\ UNCHANGED kind /\ \A op : t \notin ResumedWell(op)
      /\ \A l \in Lists : wait'[l] # <<>> => wait[l] # <<>>
  BY TimeoutStays
<1>2. UNCHANGED <<mb, last, sent>>  BY DEF mailVars
<1>3. "mb" \in Lists /\ "mb_senders" \in Lists  BY DEF Lists, ObjectLists
<1>4. CASE kind = "mb"  BY <1>1, <1>2, <1>3, <1>4, MbLeft
<1>5. CASE kind # "mb"  BY <1>1, <1>5 DEF MbInv
<1> QED  BY <1>4, <1>5

-----------------------------------------------------------------------------
(* The message queue.                                                      *)

IsMq(q, head, tail, free, entry, next, data) ==
    q = [head |-> head, tail |-> tail, free |-> free, entry |-> entry, next |-> next, data |-> data]

MqShape(q) == \E entry \in Nat : \E head, tail, free, next, data :
    IsMq(q, head, tail, free, entry, next, data)

MqInv ==
    kind = "mq" => /\ MqShape(mq)
                   /\ Awaited(wait["mq"], mq.entry, Cardinality(ResumedWell("mq_recv")))

LEMMA InitMqInv == Init => MqInv
<1>1. SUFFICES ASSUME Init
               PROVE  MqShape(mq) /\ Awaited(wait["mq"], mq.entry, Cardinality(ResumedWell("mq_recv")))
  BY DEF MqInv
<1>2. MqShape(mq)
  <2>1. PICK next, data : /\ next = [c \in Cells |-> IF c = 1 THEN Null ELSE c - 1]
                          /\ data = [c \in Cells |-> 0]
    OBVIOUS
  <2>2. mq = [head |-> Null, tail |-> Null, free |-> MqMax, entry |-> 0, next |-> next, data |-> data]
    BY <2>1, <1>1 DEF Init, InitMail, InitMq
  <2>3. 0 \in Nat  OBVIOUS
  <2>4. IsMq(mq, Null, Null, MqMax, 0, next, data)  BY <2>2 DEF IsMq
  <2> QED  BY <2>3, <2>4 DEF MqShape
<1>3. wait["mq"] = <<>>  BY <1>1 DEF Init, InitThreads, Lists, ObjectLists
<1> QED  BY <1>2, <1>3 DEF Awaited

LEMMA MqCore ==
    ASSUME Core, kind = "mq", UNCHANGED <<kind, prio, syncVars, mb, last>>, ListInv',
           \A c \in Callers : call'[c] = call[c] \/ call'[c].op \in {"none", "mq_recv", "mq_link", "mq_free"}
    PROVE  Core'
<1>1. Others'  BY DEF Core, Others, InitSem, InitMutex, InitEvent, InitMb, syncVars
<1>2. \A c \in Callers : Fits(call[c])'  BY DEF Core, Fits
<1> QED  BY <1>1, <1>2 DEF Core

LEMMA MqEntry ==
    ASSUME NEW q, MqShape(q)
    PROVE  q.entry \in Nat
  BY DEF MqShape, IsMq

LEMMA MqFields ==
    ASSUME NEW q, NEW head, NEW tail, NEW free, NEW entry \in Nat, NEW next, NEW data,
           IsMq(q, head, tail, free, entry, next, data)
    PROVE  MqShape(q) /\ q.entry = entry
  BY DEF IsMq, MqShape

\* What the steps do with the number of messages.
LEMMA MqSteps ==
    ASSUME MqShape(mq), NEW r
    PROVE  /\ r = [mq EXCEPT !.free = mq.next[@]] => MqShape(r) /\ r.entry = mq.entry
           /\ \A m : r = LinkLast(m) => MqShape(r) /\ r.entry = mq.entry + 1
           /\ \A m : r = LinkFirst(m) => MqShape(r) /\ r.entry = mq.entry + 1
           /\ mq.entry > 0 /\ r = [mq EXCEPT !.head = mq.next[@], !.entry = @ - 1,
                                             !.tail = IF @ = mq.head THEN Null ELSE @]
                => MqShape(r) /\ r.entry + 1 = mq.entry
           /\ \A m : r = [mq EXCEPT !.next[m] = mq.free, !.free = m] => MqShape(r) /\ r.entry = mq.entry
           /\ \A tail, free, next :
                 r = [mq EXCEPT !.head = Null, !.entry = 0, !.tail = tail, !.free = free, !.next = next]
                   => MqShape(r) /\ r.entry = 0
           /\ mq.entry \in Nat
<1>0. PICK e \in Nat : \E h, t, f, n, d : IsMq(mq, h, t, f, e, n, d)  BY DEF MqShape
<1>1. PICK h, t, f, n, d : IsMq(mq, h, t, f, e, n, d)  BY <1>0
<1>2. /\ mq.head = h /\ mq.tail = t /\ mq.free = f /\ mq.entry = e /\ mq.next = n /\ mq.data = d
  BY <1>1 DEF IsMq
<1>3. ASSUME r = [mq EXCEPT !.free = mq.next[@]] PROVE MqShape(r) /\ r.entry = mq.entry
  <2>1. PICK g : g = n[f]  OBVIOUS
  <2>2. IsMq(r, h, t, g, e, n, d)  BY <2>1, <1>1, <1>2, <1>3 DEF IsMq
  <2> QED  BY <2>2, <1>2, MqFields
<1>4. ASSUME NEW m, r = LinkLast(m) PROVE MqShape(r) /\ r.entry = mq.entry + 1
  <2>0. PICK e1 \in Nat : e1 = e + 1  OBVIOUS
  <2>1. PICK d1 : d1 = [d EXCEPT ![m] = sent + 1]  OBVIOUS
  <2>2. PICK n1, h1 : /\ n1 = [c \in Cells |-> IF c = m THEN Null ELSE IF c = t THEN m ELSE n[c]]
                      /\ h1 = IF h = Null THEN m ELSE h
    OBVIOUS
  <2>3. IsMq(r, h1, m, f, e1, n1, d1)  BY <2>0, <2>1, <2>2, <1>1, <1>2, <1>4 DEF IsMq, LinkLast
  <2> QED  BY <2>0, <2>3, <1>2, MqFields
<1>5. ASSUME NEW m, r = LinkFirst(m) PROVE MqShape(r) /\ r.entry = mq.entry + 1
  <2>0. PICK e1 \in Nat : e1 = e + 1  OBVIOUS
  <2>1. PICK d1 : d1 = [d EXCEPT ![m] = sent + 1]  OBVIOUS
  <2>2. PICK n1, t1 : n1 = [n EXCEPT ![m] = h] /\ t1 = IF t = Null THEN m ELSE t  OBVIOUS
  <2>3. IsMq(r, m, t1, f, e1, n1, d1)  BY <2>0, <2>1, <2>2, <1>1, <1>2, <1>5 DEF IsMq, LinkFirst
  <2> QED  BY <2>0, <2>3, <1>2, MqFields
<1>6. ASSUME mq.entry > 0,
             r = [mq EXCEPT !.head = mq.next[@], !.entry = @ - 1, !.tail = IF @ = mq.head THEN Null ELSE @]
      PROVE  MqShape(r) /\ r.entry + 1 = mq.entry
  <2>1. PICK e1 \in Nat : e1 = e - 1  BY <1>2, <1>6
  <2>2. PICK h1, t1 : h1 = n[h] /\ t1 = IF t = h THEN Null ELSE t  OBVIOUS
  <2>3. IsMq(r, h1, t1, f, e1, n, d)  BY <2>1, <2>2, <1>1, <1>2, <1>6 DEF IsMq
  <2>4. MqShape(r) /\ r.entry = e1  BY <2>3, MqFields
  <2>5. e1 + 1 = e  BY <2>1
  <2> QED  BY <2>4, <2>5, <1>2
<1>7. ASSUME NEW m, r = [mq EXCEPT !.next[m] = mq.free, !.free = m]
      PROVE  MqShape(r) /\ r.entry = mq.entry
  <2>1. PICK n1 : n1 = [n EXCEPT ![m] = f]  OBVIOUS
  <2>2. IsMq(r, h, t, m, e, n1, d)  BY <2>1, <1>1, <1>2, <1>7 DEF IsMq
  <2> QED  BY <2>2, <1>2, MqFields
<1>8. ASSUME NEW tail, NEW free, NEW next,
             r = [mq EXCEPT !.head = Null, !.entry = 0, !.tail = tail, !.free = free, !.next = next]
      PROVE  MqShape(r) /\ r.entry = 0
  <2>1. PICK z \in Nat : z = 0  OBVIOUS
  <2>2. IsMq(r, Null, tail, free, z, next, d)  BY <2>1, <1>1, <1>8 DEF IsMq
  <2> QED  BY <2>1, <2>2, MqFields
<1> QED  BY <1>2, <1>3, <1>4, <1>5, <1>6, <1>7, <1>8

LEMMA MqStays ==
    ASSUME MqInv, kind = "mq", UNCHANGED kind, NEW r, r = mq', MqShape(r), NEW c, Stays(c),
           mq.entry \in Nat, r.entry \in Nat,
           \/ /\ wait'["mq"] # <<>> => wait["mq"] # <<>>
              /\ \/ r.entry = mq.entry /\ c \notin ResumedWell("mq_recv")
                 \/ r.entry + 1 = mq.entry
                 \/ /\ r.entry = mq.entry + 1 /\ c \notin ResumedWell("mq_recv")
                    /\ wait["mq"] # <<>> => Wakes("mq_recv")
           \/ r.entry = 0
    PROVE  MqInv'
<1>1. PICK e \in Nat, n \in Nat : e = mq.entry /\ n = r.entry  OBVIOUS
<1>2. PICK u \in Nat, v \in Nat :
         /\ u = Cardinality(ResumedWell("mq_recv")) /\ v = Cardinality(ResumedWell("mq_recv"))'
         /\ u <= v + 1 /\ (c \notin ResumedWell("mq_recv") => u <= v)
         /\ (c \notin ResumedWell("mq_recv") /\ Wakes("mq_recv") => u + 1 <= v)
  BY WellStays
<1>3. wait["mq"] # <<>> => e <= u  BY <1>1, <1>2 DEF MqInv, Awaited
<1>4. Awaited(wait'["mq"], n, v)
  <2>1. CASE n = 0
    <3>1. n <= v  BY <2>1, <1>2
    <3> QED  BY <3>1 DEF Awaited
  <2>2. CASE (wait'["mq"] # <<>> => wait["mq"] # <<>>) /\ n = e /\ c \notin ResumedWell("mq_recv")
    <3>1. wait["mq"] # <<>> => n <= v  BY <2>2, <1>1, <1>2, <1>3
    <3> QED  BY <3>1, <2>2 DEF Awaited
  <2>3. CASE (wait'["mq"] # <<>> => wait["mq"] # <<>>) /\ n + 1 = e
    <3>1. wait["mq"] # <<>> => n <= v  BY <2>3, <1>1, <1>2, <1>3
    <3> QED  BY <3>1, <2>3 DEF Awaited
  <2>4. CASE /\ wait'["mq"] # <<>> => wait["mq"] # <<>>
             /\ n = e + 1 /\ c \notin ResumedWell("mq_recv") /\ (wait["mq"] # <<>> => Wakes("mq_recv"))
    <3>1. wait["mq"] # <<>> => u + 1 <= v  BY <2>4, <1>2
    <3>2. wait["mq"] # <<>> => n <= v  BY <3>1, <2>4, <1>1, <1>2, <1>3
    <3> QED  BY <3>2, <2>4 DEF Awaited
  <2> QED  BY <2>1, <2>2, <2>3, <2>4, <1>1
<1>5. mq'.entry = n  BY <1>1
<1>6. Awaited(wait["mq"], mq.entry, Cardinality(ResumedWell("mq_recv")))'  BY <1>2, <1>4, <1>5
<1> QED  BY <1>6 DEF MqInv

LEMMA MqSendKeeps ==
    ASSUME Core, MqInv, kind = "mq", UNCHANGED <<kind, flag, syncVars>>,
           NEW c \in Callers, NEW urgent \in BOOLEAN, MqSend(c, urgent)
    PROVE  Core' /\ MqInv'
<1>1. PICK q : q = [op |-> "mq_link", cell |-> mq.free, urgent |-> urgent]  OBVIOUS
<1>2. /\ call[c].op = "none" /\ mq' = [mq EXCEPT !.free = mq.next[@]] /\ call' = [call EXCEPT ![c] = q]
      /\ UNCHANGED <<stat, error, timer, prio, wait, mb, last>>
  BY <1>1 DEF MqSend, Idle
<1>3. c \in Thread => stat[c] = "READY"  BY <1>2, CallerReady DEF Core
<1>4. ListInv' /\ Stays(c) /\ call'[c] = q /\ \A x \in Callers : x # c => call'[x] = call[x]
  BY <1>2, <1>3, OwnStep
<1>5. q.op = "mq_link"  BY <1>1
<1>6. Core'  BY <1>2, <1>4, <1>5, MqCore
<1>7. PICK r : r = mq'  OBVIOUS
<1>8. MqShape(mq)  BY DEF MqInv
<1>9. MqShape(r) /\ r.entry = mq.entry /\ mq.entry \in Nat  BY <1>2, <1>7, <1>8, MqSteps
<1>10. c \notin ResumedWell("mq_recv")  BY <1>2 DEF ResumedWell, Resumed
<1>11. MqInv'  BY <1>2, <1>4, <1>7, <1>9, <1>10, MqStays
<1> QED  BY <1>6, <1>11

LEMMA MqLinkKeeps ==
    ASSUME Core, MqInv, kind = "mq", UNCHANGED <<kind, flag, syncVars>>, NEW c \in Callers, MqLink(c)
    PROVE  Core' /\ MqInv'
<1>1. /\ call[c].op = "mq_link" /\ WakeFirst("mq") /\ Return(c) /\ UNCHANGED <<error, prio, mb, last>>
      /\ \E m : mq' = LinkFirst(m) \/ mq' = LinkLast(m)
  BY DEF MqLink
<1>2. c \in Thread => stat[c] = "READY"  BY <1>1, CallerReady DEF Core
<1>3. "mq" \in Lists  BY DEF Lists, ObjectLists
<1>4. /\ ListInv' /\ Stays(c)
      /\ call'[c] = NoCall /\ \A x \in Callers : x # c => call'[x] = call[x]
      /\ \A k \in Lists : wait'[k] # <<>> => wait[k] # <<>>
      /\ wait["mq"] # <<>> => \E h \in Thread :
            stat[h] = "SUSPEND" /\ WaitsOn(call[h], "mq") /\ WellThen(h, call[h].op)
  BY <1>1, <1>2, <1>3, DoneStep
<1>5. Core'  BY <1>1, <1>4, MqCore DEF NoCall
<1>6. PICK r : r = mq'  OBVIOUS
<1>7. MqShape(mq)  BY DEF MqInv
<1>8. MqShape(r) /\ r.entry = mq.entry + 1 /\ mq.entry \in Nat  BY <1>1, <1>6, <1>7, MqSteps
<1>9. r.entry \in Nat
  <2>1. PICK e \in Nat : e = mq.entry  BY <1>8
  <2>2. e + 1 \in Nat  OBVIOUS
  <2> QED  BY <2>1, <2>2, <1>8
<1>10. c \notin ResumedWell("mq_recv")  BY <1>1 DEF ResumedWell, Resumed
<1>11. wait["mq"] # <<>> => Wakes("mq_recv")  BY <1>4, WaitsForMail DEF Wakes
<1>12. MqInv'  BY <1>3, <1>4, <1>6, <1>8, <1>9, <1>10, <1>11, MqStays
<1> QED  BY <1>5, <1>12

LEMMA MqFreeKeeps ==
    ASSUME Core, MqInv, kind = "mq", UNCHANGED <<kind, flag, syncVars>>, NEW c \in Callers, MqFree(c)
    PROVE  Core' /\ MqInv'
<1>1. /\ call[c].op = "mq_free" /\ Return(c)
      /\ UNCHANGED <<stat, error, timer, prio, wait, mb, last>>
      /\ mq' = [mq EXCEPT !.next[call[c].cell] = mq.free, !.free = call[c].cell]
  BY DEF MqFree
<1>2. c \in Thread => stat[c] = "READY"  BY <1>1, CallerReady DEF Core
<1>3. ListInv' /\ Stays(c) /\ call'[c] = NoCall /\ \A x \in Callers : x # c => call'[x] = call[x]
  BY <1>1, <1>2, OwnStep DEF Return
<1>4. Core'  BY <1>1, <1>3, MqCore DEF NoCall
<1>5. PICK r, m : r = mq' /\ m = call[c].cell  OBVIOUS
<1>6. r = [mq EXCEPT !.next[m] = mq.free, !.free = m]  BY <1>1, <1>5
<1>7. MqShape(mq)  BY DEF MqInv
<1>8. MqShape(r) /\ r.entry = mq.entry /\ mq.entry \in Nat  BY <1>6, <1>7, MqSteps
<1>9. c \notin ResumedWell("mq_recv")  BY <1>1 DEF ResumedWell, Resumed
<1>10. MqInv'  BY <1>1, <1>3, <1>5, <1>8, <1>9, MqStays
<1> QED  BY <1>4, <1>10

LEMMA MqRecvLoopKeeps ==
    ASSUME Core, MqInv, kind = "mq", UNCHANGED <<kind, flag, syncVars, prio, mb, last>>,
           NEW c \in Callers, c \in Thread => stat[c] = "READY", NEW time, c = Isr => time = "none",
           \/ MqRecvLoop(c, time)
           \/ /\ mq.entry = 0 /\ error' = [error EXCEPT ![c] = "ERROR"]
              /\ Return(c) /\ UNCHANGED <<stat, timer, wait, mq>>
    PROVE  Core' /\ MqInv'
<1>1. MqShape(mq) /\ "mq" \in Lists  BY DEF MqInv, Lists, ObjectLists
<1>2. PICK r : r = mq'  OBVIOUS
<1>3. CASE mq.entry > 0 /\ Unlink(c) /\ UNCHANGED <<stat, error, timer, wait>>
  <2>1. PICK q : q = [op |-> "mq_free", cell |-> mq.head, msg |-> Head(queue)]  OBVIOUS
  <2>2. /\ r = [mq EXCEPT !.head = mq.next[@], !.entry = @ - 1, !.tail = IF @ = mq.head THEN Null ELSE @]
        /\ call' = [call EXCEPT ![c] = q]
    BY <2>1, <1>2, <1>3 DEF Unlink
  <2>3. ListInv' /\ Stays(c) /\ call'[c] = q /\ \A x \in Callers : x # c => call'[x] = call[x]
    BY <2>2, <1>3, OwnStep
  <2>4. q.op = "mq_free"  BY <2>1
  <2>5. Core'  BY <2>3, <2>4, MqCore
  <2>6. MqShape(r) /\ r.entry + 1 = mq.entry /\ mq.entry \in Nat  BY <2>2, <1>1, <1>3, MqSteps
  <2>7. r.entry \in Nat  BY <2>6, MqEntry
  <2>8. MqInv'  BY <2>3, <2>6, <2>7, <1>2, <1>3, MqStays
  <2> QED  BY <2>5, <2>8
<1>4. ASSUME mq.entry = 0, UNCHANGED mq, ListInv', Stays(c), call'[c].op \in {"none", "mq_recv"},
             \A x \in Callers : x # c => call'[x] = call[x]
      PROVE  Core' /\ MqInv'
  <2>1. Core'  BY <1>4, MqCore
  <2>2. MqShape(r) /\ r.entry = 0 /\ r.entry \in Nat /\ mq.entry \in Nat  BY <1>1, <1>2, <1>4
  <2>3. MqInv'  BY <2>2, <1>2, <1>4, MqStays
  <2> QED  BY <2>1, <2>3
<1>5. CASE /\ mq.entry = 0 /\ time # "none"
           /\ Suspend(c, "mq", [op |-> "mq_recv", time |-> time], time) /\ UNCHANGED mq
  <2>1. c \in Thread  BY <1>5 DEF Callers
  <2>2. PICK q : q = [op |-> "mq_recv", time |-> time]  OBVIOUS
  <2>3. q.op = "mq_recv" /\ WaitsOn(q, "mq")  BY <2>2 DEF WaitsOn
  <2>4. Suspend(c, "mq", q, time)  BY <2>2, <1>5
  <2>5. ListInv' /\ Stays(c) /\ call'[c] = q /\ \A x \in Callers : x # c => call'[x] = call[x]
    BY <2>1, <2>3, <2>4, <1>1, WaitStep
  <2> QED  BY <2>3, <2>5, <1>4, <1>5
<1>6. CASE /\ mq.entry = 0 /\ error' = [error EXCEPT ![c] = "ERROR"]
           /\ Return(c) /\ UNCHANGED <<stat, timer, wait, mq>>
  <2>1. ListInv' /\ Stays(c) /\ call'[c] = NoCall /\ \A x \in Callers : x # c => call'[x] = call[x]
    BY <1>6, OwnStep DEF Return
  <2> QED  BY <2>1, <1>4, <1>6 DEF NoCall
<1> QED  BY <1>3, <1>5, <1>6 DEF MqRecvLoop

LEMMA MqRecvKeeps ==
    ASSUME Core, MqInv, kind = "mq", UNCHANGED <<kind, flag, syncVars>>,
           NEW c \in Callers, NEW time \in Times, MqRecv(c, time)
    PROVE  Core' /\ MqInv'
<1>1. /\ call[c].op = "none" /\ (c = Isr => time = "none") /\ MqRecvLoop(c, time)
      /\ UNCHANGED <<prio, mb, last>>
  BY DEF MqRecv, Idle, Allowed
<1>2. c \in Thread => stat[c] = "READY"  BY <1>1, CallerReady DEF Core
<1> QED  BY <1>1, <1>2, MqRecvLoopKeeps

LEMMA MqRecvResumedKeeps ==
    ASSUME Core, MqInv, kind = "mq", UNCHANGED <<kind, flag, syncVars>>,
           NEW t \in Thread, MqRecvResumed(t)
    PROVE  Core' /\ MqInv'
<1>1. /\ stat[t] = "READY" /\ call[t].op = "mq_recv" /\ UNCHANGED <<prio, mb, last>>
      /\ t \in Callers /\ t # Isr
  BY ThreadsAssumption DEF MqRecvResumed, Resumed, Callers
<1>2. CASE error[t] # "EOK" /\ Return(t) /\ UNCHANGED <<stat, error, timer, wait, mq>>
  <2>1. ListInv' /\ Stays(t) /\ call'[t] = NoCall /\ \A x \in Callers : x # t => call'[x] = call[x]
    BY <1>1, <1>2, OwnStep DEF Return
  <2>2. Core'  BY <2>1, <1>1, MqCore DEF NoCall
  <2>3. t \notin ResumedWell("mq_recv")  BY <1>2 DEF ResumedWell
  <2>4. MqShape(mq)  BY DEF MqInv
  <2>5. mq.entry \in Nat  BY <2>4, MqSteps
  <2>6. MqInv'  BY <2>1, <2>3, <2>4, <2>5, <1>2, MqStays
  <2> QED  BY <2>2, <2>6
<1>3. ASSUME NEW time,
             \/ MqRecvLoop(t, time)
             \/ /\ mq.entry = 0 /\ error' = [error EXCEPT ![t] = "ERROR"]
                /\ Return(t) /\ UNCHANGED <<stat, timer, wait, mq>>
      PROVE  Core' /\ MqInv'
  BY <1>1, <1>3, MqRecvLoopKeeps
<1> QED  BY <1>2, <1>3 DEF MqRecvResumed

LEMMA MqResetKeeps ==
    ASSUME Core, MqInv, kind = "mq", UNCHANGED <<kind, flag, syncVars>>, NEW c \in Callers, MqReset(c)
    PROVE  Core' /\ MqInv'
<1>1. /\ WakeAll({"mq"}) /\ UNCHANGED <<prio, call, mb, last>>
      /\ \E tail, free, next :
            mq' = [mq EXCEPT !.head = Null, !.entry = 0, !.tail = tail, !.free = free, !.next = next]
  BY DEF MqReset
<1>2. {"mq"} \in SUBSET Lists  BY DEF Lists, ObjectLists
<1>3. ListInv' /\ wait'["mq"] = <<>>
  <2>1. ListInv' /\ \A l \in {"mq"} : wait'[l] = <<>>  BY <1>1, <1>2, ResetStep
  <2> QED  BY <2>1
<1>4. Core'  BY <1>1, <1>3, MqCore
<1>5. PICK r : r = mq'  OBVIOUS
<1>6. MqShape(mq)  BY DEF MqInv
<1>7. MqShape(r)  BY <1>1, <1>5, <1>6, MqSteps
<1> QED  BY <1>3, <1>4, <1>5, <1>7 DEF MqInv, Awaited

LEMMA MqTimeout ==
    ASSUME Core, MqInv, NEW t \in Thread, Timeout(t), UNCHANGED <<syncVars, mailVars>>
    PROVE  MqInv'
<1>1. /\ Core' /\ Stays(t) /\ UNCHANGED kind /\ \A op : t \notin ResumedWell(op)
      /\ \A l \in Lists : wait'[l] # <<>> => wait[l] # <<>>
  BY TimeoutStays
<1>2. mq' = mq /\ "mq" \in Lists  BY DEF mailVars, Lists, ObjectLists
<1>3. CASE kind = "mq"
  <2>1. MqShape(mq)  BY <1>3 DEF MqInv
  <2>2. mq.entry \in Nat  BY <2>1, MqSteps
  <2> QED  BY <2>1, <2>2, <1>1, <1>2, <1>3, MqStays
<1>4. CASE kind # "mq"  BY <1>1, <1>4 DEF MqInv
<1> QED  BY <1>3, <1>4

-----------------------------------------------------------------------------
(* The theorems.                                                           *)

\* What holds of each kind of object, with the lists of suspended threads.
IpcInv == Core /\ SemInv /\ MutexInv /\ EventInv /\ MbInv /\ MqInv

LEMMA InitIpcInv == Init => IpcInv
<1>1. SUFFICES ASSUME Init PROVE IpcInv
  OBVIOUS
<1>2. Core /\ MutexInv /\ MbInv /\ MqInv  BY <1>1, InitCore, InitMutexInv, InitMbInv, InitMqInv
<1>3. wait["sem"] = <<>> /\ wait["event"] = <<>>
  BY <1>1 DEF Init, InitThreads, Lists, ObjectLists
<1>4. SemInv
  <2>1. value = 0 /\ owed = 0 /\ SemMod \in Nat \ {0, 1}
    BY <1>1, SyncAssumption DEF Init, InitSync, InitSem
  <2>2. ResumedWell("sem_take") = {}
    <3>1. \A t \in Thread : call[t].op = "none"
      BY <1>1 DEF Init, InitThreads, NoCall, Callers
    <3> QED  BY <3>1 DEF ResumedWell, Resumed
  <2>3. Cardinality({}) = 0  BY FS_EmptySet
  <2>4. UnitsConserved
    <3>1. Cardinality(ResumedWell("sem_take")) = 0  BY <2>2, <2>3
    <3>2. 0 = 0 + 0  OBVIOUS
    <3> QED  BY <3>1, <3>2, <2>1 DEF UnitsConserved
  <2> QED  BY <2>1, <2>4, <1>3 DEF SemInv
<1>5. EventInv
  <2>1. events = {}  BY <1>1 DEF Init, InitSync, InitEvent
  <2>2. \A t \in Thread : ~On(wait["event"], t)
    <3>1. <<>> \in Seq(Thread)  OBVIOUS
    <3> QED  BY <3>1, <1>3, EmptyList
  <2> QED  BY <2>1, <2>2 DEF EventInv
<1> QED  BY <1>2, <1>4, <1>5 DEF IpcInv

LEMMA NextIpcInv == IpcInv /\ [Next]_vars => IpcInv'
<1>1. SUFFICES ASSUME IpcInv, [Next]_vars PROVE IpcInv'
  OBVIOUS
<1>2. Core /\ SemInv /\ MutexInv /\ EventInv /\ MbInv /\ MqInv  BY <1>1 DEF IpcInv
<1>3. CASE kind = "sem" /\ SemNext /\ UNCHANGED <<kind, flag, mailVars>>
  <2>1. Core' /\ SemInv'
    BY <1>2, <1>3, SemTakeKeeps, SemTakenKeeps, SemReleaseKeeps, SemResetKeeps DEF SemNext
  <2> QED  BY <2>1, <1>3 DEF IpcInv, MutexInv, EventInv, MbInv, MqInv
<1>4. CASE kind = "mutex" /\ MutexNext /\ UNCHANGED <<kind, flag, mailVars>>
  <2>1. Core' /\ MutexInv'
    BY <1>2, <1>4, MutexTakeKeeps, MutexTakenKeeps, MutexReleaseKeeps DEF MutexNext
  <2> QED  BY <2>1, <1>4 DEF IpcInv, SemInv, EventInv, MbInv, MqInv
<1>5. CASE kind = "event" /\ EventNext /\ UNCHANGED <<kind, flag, mailVars>>
  <2>1. Core' /\ EventInv'
    BY <1>2, <1>5, EventRecvKeeps, EventReceivedKeeps, EventSendKeeps, EventResetKeeps DEF EventNext
  <2> QED  BY <2>1, <1>5 DEF IpcInv, SemInv, MutexInv, MbInv, MqInv
<1>6. CASE kind = "mb" /\ MbNext /\ UNCHANGED <<kind, flag, syncVars>>
  <2>1. Core' /\ MbInv'
    BY <1>2, <1>6, MbSendKeeps, MbSendResumedKeeps, MbRecvKeeps, MbRecvResumedKeeps, MbResetKeeps
       DEF MbNext
  <2> QED  BY <2>1, <1>6 DEF IpcInv, SemInv, MutexInv, EventInv, MqInv
<1>7. CASE kind = "mq" /\ MqNext /\ UNCHANGED <<kind, flag, syncVars>>
  <2>1. Core' /\ MqInv'
    BY <1>2, <1>7, MqSendKeeps, MqLinkKeeps, MqRecvKeeps, MqRecvResumedKeeps, MqFreeKeeps, MqResetKeeps
       DEF MqNext
  <2> QED  BY <2>1, <1>7 DEF IpcInv, SemInv, MutexInv, EventInv, MbInv
<1>8. ASSUME NEW t \in Thread, Timeout(t), UNCHANGED <<syncVars, mailVars>> PROVE IpcInv'
  <2>1. Core'  BY <1>2, <1>8, TimeoutKeeps
  <2>2. SemInv' /\ MutexInv' /\ EventInv'  BY <1>2, <1>8, SemTimeout, MutexTimeout, EventTimeout
  <2>3. MbInv' /\ MqInv'  BY <1>2, <1>8, MbTimeout, MqTimeout
  <2> QED  BY <2>1, <2>2, <2>3 DEF IpcInv
<1>9. CASE UNCHANGED vars
  <2>1. /\ UNCHANGED <<kind, flag, hist, stat, error, timer, prio, call, wait>>
        /\ UNCHANGED <<value, owed, mutex, held, events, mb, mq, sent, last, queue>>
    BY <1>9 DEF vars, threadVars, syncVars, mailVars
  <2>2. Core'
    <3>1. ListInv'  BY <2>1, <1>2 DEF Core, ListInv, Shapes
    <3>2. Others'
      BY <2>1, <1>2 DEF Core, Others, InitSem, InitMutex, InitEvent, InitMb, InitMq
    <3>3. \A c \in Callers : Fits(call[c])'  BY <2>1, <1>2 DEF Core, Fits
    <3> QED  BY <3>1, <3>2, <3>3, <2>1, <1>2 DEF Core
  <2>3. \A op : Cardinality(ResumedWell(op))' = Cardinality(ResumedWell(op))
    BY <2>1 DEF ResumedWell, Resumed
  <2>4. SemInv'  BY <2>1, <2>3, <1>2 DEF SemInv, UnitsConserved
  <2>5. MutexInv'
    <3>1. \A x \in Thread, k \in Mutex : TakesThen(x, k) = Takes(x, k)  BY <2>1 DEF TakesThen, Takes
    <3>2. HoldsStrong => HoldsStrong'  BY <3>1, <2>1, HoldsThen DEF HoldsStrong
    <3>3. (Bottoms => Bottoms') /\ (Single => Single')  BY <2>1 DEF Bottoms, Single
    <3>4. (MutexTypes => MutexTypes') /\ (PriorityRestored => PriorityRestored')
      BY <2>1 DEF MutexTypes, PriorityRestored, Owns
    <3>5. \A k \in Mutex : InOrderOf(wait[k], prio, mutex[k]) => InOrderOf(wait'[k], prio', mutex'[k])
      BY <2>1
    <3> QED  BY <3>2, <3>3, <3>4, <3>5, <2>1, <1>2 DEF MutexInv
  <2>6. EventInv'  BY <2>1, <1>2 DEF EventInv
  <2>7. MbInv'  BY <2>1, <2>3, <1>2 DEF MbInv, MbAwake
  <2>8. MqInv'  BY <2>1, <2>3, <1>2 DEF MqInv
  <2> QED  BY <2>2, <2>4, <2>5, <2>6, <2>7, <2>8 DEF IpcInv
<1>10. CASE Next  BY <1>2, <1>3, <1>4, <1>5, <1>6, <1>7, <1>8, <1>10, NextByKind
<1> QED  BY <1>1, <1>9, <1>10

LEMMA IpcInvariant == Spec => []IpcInv
  BY InitIpcInv, NextIpcInv, PTL DEF Spec

\* Nobody waits on the lists of the other kinds, or was resumed from one.
LEMMA OtherLists ==
    ASSUME Core
    PROVE  /\ kind # "sem" => wait["sem"] = <<>> /\ ResumedWell("sem_take") = {}
           /\ kind # "mutex" => ResumedWell("mutex_take") = {} /\ \A m \in Mutex : wait[m] = <<>>
           /\ kind # "event" => wait["event"] = <<>>
           /\ kind # "mb" => wait["mb"] = <<>> /\ wait["mb_senders"] = <<>>
           /\ kind # "mq" => wait["mq"] = <<>>
<1>1. ListInv /\ Thread \subseteq Callers  BY DEF Core, Callers
<1>2. ASSUME NEW l \in Lists, wait[l] # <<>> PROVE \E x \in Thread : WaitsOn(call[x], l)
  <2>1. wait[l] \in Seq(Thread)  BY <1>1 DEF ListInv, Shapes
  <2>2. PICK x \in Thread : On(wait[l], x)  BY <2>1, <1>2, EmptyList
  <2> QED  BY <2>2, <1>1 DEF ListInv
<1>3. \A x \in Thread : /\ call[x].op = "sem_take" => kind = "sem"
                        /\ call[x].op = "mutex_take" => kind = "mutex" /\ call[x].m \in Mutex
                        /\ call[x].op = "event_recv" => kind = "event"
                        /\ call[x].op \in {"mb_send", "mb_recv"} => kind = "mb"
                        /\ call[x].op = "mq_recv" => kind = "mq"
  BY <1>1, CallsFit
<1>4. /\ kind # "sem" => ResumedWell("sem_take") = {}
      /\ kind # "mutex" => ResumedWell("mutex_take") = {}
  BY <1>3 DEF ResumedWell, Resumed
<1>5. Mutex \cap ObjectLists = {} /\ ObjectLists \subseteq Lists /\ Mutex \subseteq Lists
  BY ThreadsAssumption DEF Lists
<1>6. ASSUME NEW x \in Thread
      PROVE  /\ WaitsOn(call[x], "sem") => kind = "sem"
             /\ WaitsOn(call[x], "event") => kind = "event"
             /\ WaitsOn(call[x], "mb") => kind = "mb"
             /\ WaitsOn(call[x], "mb_senders") => kind = "mb"
             /\ WaitsOn(call[x], "mq") => kind = "mq"
             /\ \A m \in Mutex : WaitsOn(call[x], m) => kind = "mutex"
  <2>1. call[x].op = "mutex_take" => call[x].m \notin ObjectLists  BY <1>3, <1>5
  <2>2. \A m \in Mutex : m \notin ObjectLists  BY <1>5
  <2>3. \A m \in Mutex : WaitsOn(call[x], m) => kind = "mutex"
    BY <2>2, <1>3 DEF WaitsOn, ObjectLists
  <2> QED  BY <2>1, <2>3, <1>3 DEF WaitsOn, ObjectLists
<1>7. kind # "sem" => wait["sem"] = <<>>  BY <1>2, <1>5, <1>6 DEF ObjectLists
<1>8. kind # "event" => wait["event"] = <<>>  BY <1>2, <1>5, <1>6 DEF ObjectLists
<1>9. kind # "mb" => wait["mb"] = <<>> /\ wait["mb_senders"] = <<>>  BY <1>2, <1>5, <1>6 DEF ObjectLists
<1>10. kind # "mq" => wait["mq"] = <<>>  BY <1>2, <1>5, <1>6 DEF ObjectLists
<1>11. kind # "mutex" => \A m \in Mutex : wait[m] = <<>>  BY <1>2, <1>5, <1>6
<1> QED  BY <1>4, <1>7, <1>8, <1>9, <1>10, <1>11

\* No list is longer than there are threads.
LEMMA ListLength ==
    ASSUME ListInv, NEW l \in Lists
    PROVE  Len(wait[l]) <= Cardinality(Thread) /\ Len(wait[l]) \in Nat /\ Cardinality(Thread) \in Nat
<1>1. PICK w \in Seq(Thread) : w = wait[l]  BY DEF ListInv, Shapes
<1>2. Once(w)  BY <1>1 DEF ListInv
<1>3. PICK n \in Nat : n = Len(w)  BY LenProperties
<1>4. w \in [1..n -> Thread]  BY <1>3, LenProperties
<1>5. w \in Injection(1..n, Thread)  BY <1>2, <1>3, <1>4 DEF Once, Injection, IsInjective
<1>6. IsFiniteSet(Thread)  BY ThreadsAssumption
<1>7. Cardinality(1..n) <= Cardinality(Thread)  BY <1>5, <1>6, FS_Injection
<1>8. Cardinality(1..n) = n
  <2>1. Cardinality(1..n) = IF 1 > n THEN 0 ELSE n - 1 + 1  BY FS_Interval
  <2> QED  BY <2>1
<1>9. Cardinality(Thread) \in Nat  BY <1>6, FS_CardinalityType
<1> QED  BY <1>1, <1>3, <1>7, <1>8, <1>9

LEMMA OneList == ListInv => OnOneList
<1>1. SUFFICES ASSUME ListInv, NEW t \in Thread
               PROVE  /\ Cardinality({p \in Lists \X (1..Cardinality(Thread)) :
                                        p[2] <= Len(wait[p[1]]) /\ wait[p[1]][p[2]] = t})
                           = IF stat[t] = "SUSPEND" THEN 1 ELSE 0
                      /\ timer[t] => stat[t] = "SUSPEND"
  BY DEF OnOneList
<1>2. timer[t] => stat[t] = "SUSPEND"  BY <1>1 DEF ListInv
<1>3. PICK P : P = {p \in Lists \X (1..Cardinality(Thread)) :
                      p[2] <= Len(wait[p[1]]) /\ wait[p[1]][p[2]] = t}
  OBVIOUS
<1>4. ASSUME NEW p \in P
      PROVE  \E l \in Lists : \E k \in 1..Len(wait[l]) :
                p = <<l, k>> /\ wait[l][k] = t /\ stat[t] = "SUSPEND" /\ WaitsOn(call[t], l)
  <2>1. PICK l \in Lists, k \in 1..Cardinality(Thread) :
           p = <<l, k>> /\ k <= Len(wait[l]) /\ wait[l][k] = t
    BY <1>3
  <2>2. Len(wait[l]) \in Nat /\ Cardinality(Thread) \in Nat  BY <1>1, ListLength
  <2>3. k \in 1..Len(wait[l])  BY <2>1, <2>2
  <2>4. On(wait[l], t)  BY <2>1, <2>3 DEF On
  <2> QED  BY <2>1, <2>3, <2>4, <1>1 DEF ListInv
<1>5. CASE stat[t] # "SUSPEND"
  <2>1. P = {}  BY <1>4, <1>5
  <2>2. Cardinality({}) = 0  BY FS_EmptySet
  <2> QED  BY <2>1, <2>2, <1>2, <1>3, <1>5
<1>6. CASE stat[t] = "SUSPEND"
  <2>1. PICK l \in Lists : WaitsOn(call[t], l)  BY <1>1, <1>6 DEF ListInv
  <2>2. On(wait[l], t)  BY <2>1, <1>1, <1>6 DEF ListInv
  <2>3. PICK k \in 1..Len(wait[l]) : wait[l][k] = t  BY <2>2 DEF On
  <2>4. Len(wait[l]) <= Cardinality(Thread) /\ Len(wait[l]) \in Nat /\ Cardinality(Thread) \in Nat
    BY <1>1, ListLength
  <2>5. k \in 1..Cardinality(Thread) /\ k <= Len(wait[l])  BY <2>3, <2>4
  <2>6. PICK q : q = <<l, k>>  OBVIOUS
  <2>7. q \in P
    <3>1. q \in Lists \X (1..Cardinality(Thread)) /\ q[1] = l /\ q[2] = k  BY <2>5, <2>6
    <3> QED  BY <3>1, <2>3, <2>5, <1>3
  <2>8. ASSUME NEW p \in P PROVE p = q
    <3>0. PICK j \in Lists : \E i \in 1..Len(wait[j]) :
             p = <<j, i>> /\ wait[j][i] = t /\ WaitsOn(call[t], j)
      BY <1>4
    <3>1. PICK i \in 1..Len(wait[j]) : p = <<j, i>> /\ wait[j][i] = t /\ WaitsOn(call[t], j)
      BY <3>0
    <3>2. j = l  BY <3>1, <2>1 DEF WaitsOn
    <3>3. i = k  BY <3>1, <3>2, <2>3, <1>1 DEF ListInv, Once
    <3> QED  BY <3>1, <3>2, <3>3, <2>6
  <2>9. P = {q}  BY <2>7, <2>8
  <2>10. Cardinality({q}) = 1  BY FS_Singleton
  <2> QED  BY <2>9, <2>10, <1>2, <1>3, <1>6
<1> QED  BY <1>5, <1>6

\* A thread is suspended if and only if it is on one suspend list, once, and only the timer
\* of a suspended thread runs: rt_ipc_list_suspend, rt_ipc_list_resume and
\* rt_thread_timeout never leave a thread on two lists or on none.
THEOREM ThreadsOnOneList == Spec => []OnOneList
<1>1. IpcInv => OnOneList  BY OneList DEF IpcInv, Core
<1> QED  BY <1>1, IpcInvariant, PTL

\* Every unit released by rt_sem_release is in the value or with one thread resumed to
\* take it, whatever timeouts and resets come between, until the value wraps.
THEOREM UnitsAreConserved == Spec => []UnitsConserved
<1>1. ASSUME IpcInv PROVE UnitsConserved
  <2>1. CASE kind = "sem"  BY <2>1, <1>1 DEF IpcInv, SemInv
  <2>2. CASE kind # "sem"
    <3>1. Cardinality(ResumedWell("sem_take")) = 0
      BY <2>2, <1>1, OtherLists, FS_EmptySet DEF IpcInv
    <3>2. value = 0 /\ owed = 0  BY <2>2, <1>1 DEF IpcInv, Core, Others, InitSem
    <3>3. 0 = 0 + 0  OBVIOUS
    <3> QED  BY <3>1, <3>2, <3>3 DEF UnitsConserved
  <2> QED  BY <2>1, <2>2
<1>2. IpcInv => UnitsConserved  BY <1>1
<1> QED  BY <1>2, IpcInvariant, PTL

\* rt_mutex_take and rt_mutex_release keep owner, value and hold count of a mutex those of
\* the takes that have succeeded and were not released.
THEOREM HoldsAreCounted == Spec => []HoldsMatch
<1>1. ASSUME IpcInv, "overheld" \notin hist, NEW m \in Mutex
      PROVE  /\ mutex[m].value = 1 <=> mutex[m].owner = Null
             /\ \A t \in Thread :
                   LET handed == t \in ResumedWell("mutex_take") /\ call[t].m = m
                       takes == Count(m, held[t]) + IF handed THEN 1 ELSE 0
                   IN IF mutex[m].owner = t THEN takes > 0 /\ mutex[m].hold = takes % HoldMod
                                            ELSE takes = 0
  <2>1. CASE kind = "mutex"
    <3>1. HoldsStrong  BY <2>1, <1>1 DEF IpcInv, MutexInv
    <3>2. mutex[m].value = 1 <=> mutex[m].owner = Null  BY <3>1 DEF HoldsStrong, FreeOrNot
    <3>3. ASSUME NEW t \in Thread
          PROVE  LET handed == t \in ResumedWell("mutex_take") /\ call[t].m = m
                     takes == Count(m, held[t]) + IF handed THEN 1 ELSE 0
                 IN IF mutex[m].owner = t THEN takes > 0 /\ mutex[m].hold = takes % HoldMod
                                          ELSE takes = 0
      <4> DEFINE handed == t \in ResumedWell("mutex_take") /\ call[t].m = m
                 takes == Count(m, held[t]) + IF handed THEN 1 ELSE 0
      <4>1. handed <=> HandedTo(stat[t], call[t], error[t], m)
        BY DEF ResumedWell, Resumed, HandedTo
      <4>2. takes = Takes(t, m)  BY <4>1 DEF Takes, TakesOf
      <4>3. Holds(mutex[m], t, Takes(t, m))  BY <3>1 DEF HoldsStrong
      <4>4. \A n \in 1..HoldMod : n > 0  BY SyncAssumption
      <4> HIDE DEF takes
      <4>5. IF mutex[m].owner = t THEN takes > 0 /\ mutex[m].hold = takes % HoldMod ELSE takes = 0
        BY <4>2, <4>3, <4>4 DEF Holds
      <4> USE DEF takes
      <4> QED  BY <4>5
    <3> QED  BY <3>2, <3>3
  <2>2. CASE kind # "mutex"
    <3>1. InitMutex /\ ResumedWell("mutex_take") = {}  BY <2>2, <1>1, OtherLists DEF IpcInv, Core, Others
    <3>2. /\ mutex[m].value = 1 /\ mutex[m].owner = Null /\ \A t \in Thread : held[t] = <<>>
      BY <3>1 DEF InitMutex
    <3>3. Count(m, <<>>) = 0
      <4>1. <<>> \in Seq(Mutex)  OBVIOUS
      <4>2. ~On(<<>>, m)  BY <4>1, EmptyList
      <4> QED  BY <4>1, <4>2, CountType
    <3>4. 0 + 0 = 0 /\ Null \notin Thread  BY ThreadsAssumption
    <3> QED  BY <3>1, <3>2, <3>3, <3>4
  <2> QED  BY <2>1, <2>2
<1>2. IpcInv => HoldsMatch  BY <1>1 DEF HoldsMatch
<1> QED  BY <1>2, IpcInvariant, PTL

\* If mutexes are released in the reverse order of their takes, a thread that has none has
\* its own priority: rt_mutex_release gives back what rt_mutex_take of others has lent.
THEOREM PriorityIsRestored == Spec => []PriorityRestored
<1>1. ASSUME IpcInv PROVE PriorityRestored
  <2>1. CASE kind = "mutex"  BY <2>1, <1>1 DEF IpcInv, MutexInv
  <2>2. CASE kind # "mutex"  BY <2>2, <1>1 DEF IpcInv, Core, Others, PriorityRestored
  <2> QED  BY <2>1, <2>2
<1>2. IpcInv => PriorityRestored  BY <1>1
<1> QED  BY <1>2, IpcInvariant, PTL

\* The owner of a mutex made with RT_IPC_FLAG_PRIO goes before or with every thread that
\* waits for it in rt_mutex_take, as long as nobody who has a mutex asks for another.
THEOREM OwnersInherit == Spec => []Inherited
<1>1. ASSUME IpcInv, flag = "PRIO", "nested" \notin hist, NEW m \in Mutex, NEW n \in 1..Len(wait[m])
      PROVE  prio[mutex[m].owner] <= prio[wait[m][n]]
  <2>1. m \in Lists /\ wait[m] \in Seq(Thread)  BY <1>1 DEF IpcInv, Core, ListInv, Shapes, Lists
  <2>2. PICK x \in Thread : x = wait[m][n] /\ On(wait[m], x)  BY <2>1, <1>1, ElementOfSeq DEF On
  <2>3. kind = "mutex"
    <3>1. wait[m] # <<>>  BY <2>1, <2>2, EmptyList
    <3> QED  BY <3>1, <1>1, OtherLists DEF IpcInv
  <2>4. InOrderOf(wait[m], prio, mutex[m])  BY <2>3, <1>1 DEF IpcInv, MutexInv
  <2> QED  BY <2>2, <2>4 DEF InOrderOf
<1>2. IpcInv => Inherited  BY <1>1 DEF Inherited
<1> QED  BY <1>2, IpcInvariant, PTL

\* No thread sleeps over a unit, a free mutex, bits, a mail, a message or a place that is
\* there for it: no wake-up of rt_ipc_list_resume is lost between the steps of ipc.c.
THEOREM NobodyOversleeps == Spec => []NobodySleepsOverIt
<1>1. ASSUME IpcInv PROVE NobodySleepsOverIt
  <2>1. Core /\ ListInv  BY <1>1 DEF IpcInv, Core
  <2>2. wait["sem"] # <<>> => value = 0
    <3>1. CASE kind = "sem"  BY <3>1, <1>1 DEF IpcInv, SemInv
    <3>2. CASE kind # "sem"  BY <3>2, <2>1, OtherLists
    <3> QED  BY <3>1, <3>2
  <2>3. \A m \in Mutex : wait[m] # <<>> => mutex[m].owner # Null
    <3>1. CASE kind = "mutex"  BY <3>1, <1>1 DEF IpcInv, MutexInv
    <3>2. CASE kind # "mutex"  BY <3>2, <2>1, OtherLists
    <3> QED  BY <3>1, <3>2
  <2>4. ASSUME NEW n \in 1..Len(wait["event"])
        PROVE  ~Satisfied(call[wait["event"][n]].set, call[wait["event"][n]].all, events)
    <3>1. "event" \in Lists  BY DEF Lists, ObjectLists
    <3>2. wait["event"] \in Seq(Thread)  BY <3>1, <2>1 DEF ListInv, Shapes
    <3>3. PICK x \in Thread : x = wait["event"][n] /\ On(wait["event"], x)
      BY <3>2, <2>4, ElementOfSeq DEF On
    <3>4. kind = "event"  BY <3>3, <2>1, EventWaits
    <3> QED  BY <3>3, <3>4, <1>1 DEF IpcInv, EventInv
  <2>5. /\ wait["mb"] # <<>> => mb.entry <= Cardinality(ResumedWell("mb_recv"))
        /\ wait["mb_senders"] # <<>> => MbSize - mb.entry <= Cardinality(ResumedWell("mb_send"))
    <3>1. CASE kind = "mb"  BY <3>1, <1>1 DEF IpcInv, MbInv, MbAwake, Awaited
    <3>2. CASE kind # "mb"  BY <3>2, <2>1, OtherLists
    <3> QED  BY <3>1, <3>2
  <2>6. wait["mq"] # <<>> => mq.entry <= Cardinality(ResumedWell("mq_recv"))
    <3>1. CASE kind = "mq"  BY <3>1, <1>1 DEF IpcInv, MqInv, Awaited
    <3>2. CASE kind # "mq"  BY <3>2, <2>1, OtherLists
    <3> QED  BY <3>1, <3>2
  <2> QED  BY <2>2, <2>3, <2>4, <2>5, <2>6 DEF NobodySleepsOverIt
<1>2. IpcInv => NobodySleepsOverIt  BY <1>1
<1> QED  BY <1>2, IpcInvariant, PTL

\* The ring of rt_mb_send_wait and rt_mb_recv holds the mails sent after the last one
\* received, in order, also when the offsets wrap and behind a reset.
THEOREM MailsAreInOrder == Spec => []MailsInOrder
<1>1. ASSUME IpcInv PROVE MailsInOrder
  <2>1. CASE kind = "mb"
    <3>1. Ring(mb, last, sent)  BY <2>1, <1>1 DEF IpcInv, MbInv
    <3>2. MbSize \in Nat \ {0}  BY MailAssumption
    <3>3. PICK e \in 0..MbSize, o \in 0..(MbSize - 1) : e = mb.entry /\ o = mb.out_offset
      BY <3>1 DEF Ring, MbRecord
    <3>4. ASSUME NEW k \in 1..e PROVE mb.msg_pool[(o + k - 1) % MbSize] = last + k
      <4>1. k \in 1..MbSize  BY <3>2
      <4>2. Slot(o, k) = (o + k - 1) % MbSize  BY <4>1, SlotIs
      <4>3. mb.msg_pool[Slot(o, k)] = last + k  BY <3>1, <3>3 DEF Ring
      <4> QED  BY <4>2, <4>3
    <3>5. last + mb.entry = sent  BY <3>1 DEF Ring
    <3> QED  BY <3>3, <3>4, <3>5 DEF MailsInOrder
  <2>2. CASE kind # "mb"
    <3>1. InitMb  BY <2>2, <1>1 DEF IpcInv, Core, Others
    <3>2. mb.entry = 0  BY <3>1 DEF InitMb
    <3>3. ~ \E k \in 1..0 : TRUE  OBVIOUS
    <3> QED  BY <3>2, <3>3, <2>2 DEF MailsInOrder
  <2> QED  BY <2>1, <2>2
<1>2. IpcInv => MailsInOrder  BY <1>1
<1> QED  BY <1>2, IpcInvariant, PTL

-----------------------------------------------------------------------------
(* Linked cells.                                                           *)

\* The cell at place i of a list, RT_NULL behind its end.
CellAt(w, i) == IF i \in 1..Len(w) THEN w[i] ELSE Null

\* From first on, next links the cells of w.
Linked(next, first, w) ==
    /\ w \in Seq(Cells) /\ Once(w)
    /\ first = CellAt(w, 1) /\ \A i \in 1..Len(w) : next[w[i]] = CellAt(w, i + 1)

\* A list of cells given place by place.
LEMMA CellList ==
    ASSUME NEW n \in Nat, NEW w, w = [i \in 1..n |-> w[i]], \A i \in 1..n : w[i] \in Cells
    PROVE  w \in Seq(Cells) /\ Len(w) = n
<1>1. w \in [1..n -> Cells]  OBVIOUS
<1>2. w \in Seq(Cells)  BY <1>1
<1>3. DOMAIN w = 1..n /\ DOMAIN w = 1..Len(w) /\ Len(w) \in Nat  BY <1>1, <1>2, LenProperties
<1>4. Len(w) = n  BY <1>3
<1> QED  BY <1>2, <1>4

LEMMA CellFacts ==
    ASSUME NEW w \in Seq(Cells)
    PROVE  /\ Len(w) \in Nat /\ Null \notin Cells
           /\ \A i \in 1..Len(w) : w[i] \in Cells /\ CellAt(w, i) = w[i]
           /\ CellAt(w, 1) = Null <=> w = <<>>
           /\ CellAt(w, 1) = Null <=> Len(w) = 0
<1>1. Len(w) \in Nat  BY LenProperties
<1>2. Null \notin Cells  BY MailAssumption DEF Cells
<1>3. \A i \in 1..Len(w) : w[i] \in Cells  BY ElementOfSeq
<1>4. w = <<>> <=> Len(w) = 0  BY EmptySeq
<1>5. CellAt(w, 1) = Null <=> Len(w) = 0
  <2>1. CASE Len(w) = 0  BY <2>1 DEF CellAt
  <2>2. CASE Len(w) # 0
    <3>1. 1 \in 1..Len(w)  BY <1>1, <2>2
    <3> QED  BY <3>1, <2>2, <1>2, <1>3 DEF CellAt
  <2> QED  BY <2>1, <2>2
<1> QED  BY <1>1, <1>2, <1>3, <1>4, <1>5 DEF CellAt

\* The links of other cells may change.
LEMMA LinkedStays ==
    ASSUME NEW next, NEW first, NEW w, Linked(next, first, w),
           NEW then, \A x \in Cells : On(w, x) => then[x] = next[x]
    PROVE  Linked(then, first, w)
<1>1. \A i \in 1..Len(w) : w[i] \in Cells /\ On(w, w[i])  BY CellFacts DEF Linked, On
<1> QED  BY <1>1 DEF Linked

\* The first cell is taken off.
LEMMA LinkedRest ==
    ASSUME NEW next, NEW first, NEW w, Linked(next, first, w), first # Null
    PROVE  /\ 1 \in 1..Len(w) /\ first = w[1] /\ first \in Cells /\ On(w, first)
           /\ \E v : /\ Linked(next, next[first], v) /\ Len(v) = Len(w) - 1
                     /\ \A i \in 1..Len(v) : v[i] = w[i + 1] /\ i + 1 \in 1..Len(w)
                     /\ \A x : On(v, x) <=> On(w, x) /\ x # first
<1>1. /\ w \in Seq(Cells) /\ Once(w) /\ first = CellAt(w, 1)
      /\ \A i \in 1..Len(w) : next[w[i]] = CellAt(w, i + 1)
  BY DEF Linked
<1>2. Len(w) \in Nat /\ Len(w) # 0 /\ \A i \in 1..Len(w) : w[i] \in Cells /\ CellAt(w, i) = w[i]
  BY <1>1, CellFacts
<1>3. 1 \in 1..Len(w) /\ first = w[1] /\ first \in Cells /\ On(w, first)
  <2>1. 1 \in 1..Len(w)  BY <1>2
  <2> QED  BY <2>1, <1>1, <1>2 DEF On
<1>4. PICK n \in Nat : n = Len(w) - 1 /\ Len(w) = n + 1  BY <1>2
<1>5. PICK v : v = [i \in 1..n |-> w[i + 1]]  OBVIOUS
<1>6. \A i \in 1..n : i + 1 \in 1..Len(w) /\ v[i] = w[i + 1] /\ v[i] \in Cells  BY <1>2, <1>4, <1>5
<1>7. v \in Seq(Cells) /\ Len(v) = n
  <2>1. v = [i \in 1..n |-> v[i]]  BY <1>5
  <2> QED  BY <2>1, <1>6, CellList
<1>8. Once(v)
  <2>1. SUFFICES ASSUME NEW j \in 1..n, NEW k \in 1..n, v[j] = v[k] PROVE j = k
    BY <1>7 DEF Once
  <2>2. j + 1 = k + 1  BY <2>1, <1>1, <1>6 DEF Once
  <2> QED  BY <2>2
<1>9. \A i \in 1..n : CellAt(v, i) = CellAt(w, i + 1)  BY <1>6, <1>7 DEF CellAt
<1>10. CellAt(v, n + 1) = CellAt(w, n + 2)
  <2>1. n + 1 \notin 1..Len(v) /\ n + 2 \notin 1..Len(w)  BY <1>4, <1>7
  <2> QED  BY <2>1 DEF CellAt
<1>11. next[first] = CellAt(v, 1)
  <2>1. next[first] = CellAt(w, 2)
    <3>1. 1 + 1 = 2  OBVIOUS
    <3> QED  BY <3>1, <1>1, <1>3
  <2>2. CASE n = 0  BY <2>1, <2>2, <1>10
  <2>3. CASE n # 0
    <3>1. 1 \in 1..n /\ 1 + 1 = 2  BY <2>3
    <3> QED  BY <3>1, <2>1, <1>9
  <2> QED  BY <2>2, <2>3
<1>12. ASSUME NEW i \in 1..n PROVE next[v[i]] = CellAt(v, i + 1)
  <2>1. next[v[i]] = CellAt(w, i + 2)
    <3>1. (i + 1) + 1 = i + 2  OBVIOUS
    <3> QED  BY <3>1, <1>1, <1>6
  <2>2. CASE i = n  BY <2>1, <2>2, <1>10
  <2>3. CASE i # n
    <3>1. i + 1 \in 1..n /\ (i + 1) + 1 = i + 2  BY <2>3
    <3> QED  BY <3>1, <2>1, <1>9
  <2> QED  BY <2>2, <2>3
<1>13. ASSUME NEW x PROVE On(v, x) <=> On(w, x) /\ x # first
  <2>1. ASSUME On(v, x) PROVE On(w, x) /\ x # first
    <3>1. PICK i \in 1..n : v[i] = x  BY <2>1, <1>7 DEF On
    <3>2. i + 1 \in 1..Len(w) /\ w[i + 1] = x /\ i + 1 # 1  BY <3>1, <1>6
    <3> QED  BY <3>2, <1>1, <1>3 DEF On, Once
  <2>2. ASSUME On(w, x), x # first PROVE On(v, x)
    <3>1. PICK k \in 1..Len(w) : w[k] = x  BY <2>2 DEF On
    <3>2. k # 1  BY <3>1, <2>2, <1>3
    <3>3. PICK i \in 1..n : k = i + 1
      <4>1. k - 1 \in 1..n /\ k = (k - 1) + 1  BY <3>2, <1>4
      <4> QED  BY <4>1
    <3> QED  BY <3>1, <3>3, <1>6, <1>7 DEF On
  <2> QED  BY <2>1, <2>2
<1>14. Linked(next, next[first], v)  BY <1>7, <1>8, <1>11, <1>12 DEF Linked
<1> QED  BY <1>3, <1>4, <1>6, <1>7, <1>13, <1>14

\* One cell's value is another.
Changed(then, next, m, x) == then[m] = x /\ \A y \in Cells : y # m => then[y] = next[y]

\* The list v is w with m before it.
Before(v, m, w) ==
    /\ Len(v) = Len(w) + 1 /\ v[1] = m
    /\ \A i \in 1..Len(w) : v[i + 1] = w[i]
    /\ \A x : On(v, x) <=> On(w, x) \/ x = m

\* A cell is put before the first.
LEMMA LinkedBefore ==
    ASSUME NEW next, NEW first, NEW w, Linked(next, first, w),
           NEW m \in Cells, ~On(w, m), NEW then, Changed(then, next, m, first)
    PROVE  \E v : Linked(then, m, v) /\ Before(v, m, w)
<1>0. then[m] = first /\ \A x \in Cells : x # m => then[x] = next[x]  BY DEF Changed
<1>1. /\ w \in Seq(Cells) /\ Once(w) /\ first = CellAt(w, 1)
      /\ \A i \in 1..Len(w) : next[w[i]] = CellAt(w, i + 1)
  BY DEF Linked
<1>2. PICK n \in Nat : Len(w) = n /\ \A i \in 1..n : w[i] \in Cells  BY <1>1, CellFacts
<1>3. PICK v : v = [i \in 1..(n + 1) |-> IF i = 1 THEN m ELSE w[i - 1]]  OBVIOUS
<1>4. v[1] = m
  <2>1. 1 \in 1..(n + 1)  BY <1>2
  <2> QED  BY <2>1, <1>3
<1>5. \A i \in 1..n : i + 1 \in 1..(n + 1) /\ v[i + 1] = w[i]
  <2>1. SUFFICES ASSUME NEW i \in 1..n PROVE i + 1 \in 1..(n + 1) /\ v[i + 1] = w[i]
    OBVIOUS
  <2>2. i + 1 \in 1..(n + 1) /\ i + 1 # 1 /\ (i + 1) - 1 = i  BY <1>2
  <2> QED  BY <2>2, <1>3
<1>6. ASSUME NEW k \in 1..(n + 1) PROVE k = 1 \/ \E i \in 1..n : k = i + 1
  <2>1. CASE k = 1  BY <2>1
  <2>2. CASE k # 1
    <3>1. k - 1 \in 1..n /\ k = (k - 1) + 1  BY <2>2, <1>2
    <3> QED  BY <3>1
  <2> QED  BY <2>1, <2>2
<1>7. v \in Seq(Cells) /\ Len(v) = n + 1
  <2>1. v = [i \in 1..(n + 1) |-> v[i]] /\ n + 1 \in Nat  BY <1>3
  <2>2. \A k \in 1..(n + 1) : v[k] \in Cells  BY <1>2, <1>4, <1>5, <1>6
  <2> QED  BY <2>1, <2>2, CellList
<1>8. \A i \in 1..n : w[i] # m  BY <1>2 DEF On
<1>9. Once(v)
  <2>1. SUFFICES ASSUME NEW j \in 1..(n + 1), NEW k \in 1..(n + 1), v[j] = v[k] PROVE j = k
    BY <1>7 DEF Once
  <2>2. CASE j = 1 /\ k = 1  BY <2>2
  <2>3. CASE j # 1 /\ k = 1
    <3>1. PICK i \in 1..n : j = i + 1  BY <2>3, <1>6
    <3> QED  BY <3>1, <2>1, <2>3, <1>4, <1>5, <1>8
  <2>4. CASE j = 1 /\ k # 1
    <3>1. PICK i \in 1..n : k = i + 1  BY <2>4, <1>6
    <3> QED  BY <3>1, <2>1, <2>4, <1>4, <1>5, <1>8
  <2>5. CASE j # 1 /\ k # 1
    <3>1. PICK i \in 1..n : j = i + 1  BY <2>5, <1>6
    <3>2. PICK h \in 1..n : k = h + 1  BY <2>5, <1>6
    <3>3. w[i] = w[h]  BY <3>1, <3>2, <2>1, <1>5
    <3>4. i = h  BY <3>3, <1>1, <1>2 DEF Once
    <3> QED  BY <3>1, <3>2, <3>4
  <2> QED  BY <2>2, <2>3, <2>4, <2>5
<1>10. \A i \in 1..(n + 1) : CellAt(v, i + 1) = CellAt(w, i)
  <2>1. SUFFICES ASSUME NEW i \in 1..(n + 1) PROVE CellAt(v, i + 1) = CellAt(w, i)
    OBVIOUS
  <2>2. CASE i \in 1..n  BY <2>2, <1>2, <1>5, <1>7 DEF CellAt
  <2>3. CASE i \notin 1..n
    <3>1. i \notin 1..Len(w) /\ i + 1 \notin 1..Len(v)  BY <2>3, <1>2, <1>7
    <3> QED  BY <3>1 DEF CellAt
  <2> QED  BY <2>2, <2>3
<1>11. m = CellAt(v, 1)
  <2>1. 1 \in 1..(n + 1)  BY <1>2
  <2> QED  BY <2>1, <1>4, <1>7 DEF CellAt
<1>12. ASSUME NEW k \in 1..(n + 1) PROVE then[v[k]] = CellAt(v, k + 1)
  <2>1. CellAt(v, k + 1) = CellAt(w, k)  BY <1>10
  <2>2. CASE k = 1  BY <2>1, <2>2, <1>0, <1>1, <1>4
  <2>3. CASE k # 1
    <3>1. PICK i \in 1..n : k = i + 1  BY <2>3, <1>6
    <3>2. then[w[i]] = next[w[i]]  BY <1>0, <1>2, <1>8
    <3> QED  BY <3>1, <3>2, <2>1, <1>1, <1>2, <1>5
  <2> QED  BY <2>2, <2>3
<1>13. Linked(then, m, v)  BY <1>7, <1>9, <1>11, <1>12 DEF Linked
<1>14. ASSUME NEW x PROVE On(v, x) <=> On(w, x) \/ x = m
  <2>1. ASSUME On(v, x), x # m PROVE On(w, x)
    <3>1. PICK k \in 1..(n + 1) : v[k] = x  BY <2>1, <1>7 DEF On
    <3>2. k # 1  BY <3>1, <2>1, <1>4
    <3>3. PICK i \in 1..n : k = i + 1  BY <3>2, <1>6
    <3>4. w[i] = x  BY <3>1, <3>3, <1>5
    <3> QED  BY <3>4, <1>2 DEF On
  <2>2. ASSUME On(w, x) PROVE On(v, x)  BY <2>2, <1>2, <1>5, <1>7 DEF On
  <2>3. On(v, m)
    <3>1. 1 \in 1..(n + 1)  BY <1>2
    <3> QED  BY <3>1, <1>4, <1>7 DEF On
  <2> QED  BY <2>1, <2>2, <2>3
<1> QED  BY <1>2, <1>4, <1>5, <1>7, <1>13, <1>14 DEF Before

\* The links when m is put behind the tail.
Extended(then, next, tail, m) ==
    /\ then[m] = Null /\ (tail # Null => then[tail] = m)
    /\ \A x \in Cells : x # m /\ x # tail => then[x] = next[x]

\* The list v is w with m behind it.
Behind(v, w, m) ==
    /\ Len(v) = Len(w) + 1 /\ v[Len(v)] = m
    /\ \A i \in 1..Len(w) : v[i] = w[i]
    /\ \A x : On(v, x) <=> On(w, x) \/ x = m

\* A cell is put behind the last.
LEMMA LinkedBehind ==
    ASSUME NEW next, NEW first, NEW w, Linked(next, first, w),
           NEW m \in Cells, ~On(w, m), NEW tail, tail = CellAt(w, Len(w)),
           NEW then, Extended(then, next, tail, m)
    PROVE  \E v : Linked(then, IF first = Null THEN m ELSE first, v) /\ Behind(v, w, m)
<1>0. /\ then[m] = Null /\ (tail # Null => then[tail] = m)
      /\ \A x \in Cells : x # m /\ x # tail => then[x] = next[x]
  BY DEF Extended
<1>1. /\ w \in Seq(Cells) /\ Once(w) /\ first = CellAt(w, 1)
      /\ \A i \in 1..Len(w) : next[w[i]] = CellAt(w, i + 1)
  BY DEF Linked
<1>2. PICK n \in Nat : Len(w) = n /\ \A i \in 1..n : w[i] \in Cells  BY <1>1, CellFacts
<1>3. PICK v : v = [i \in 1..(n + 1) |-> IF i = n + 1 THEN m ELSE w[i]]  OBVIOUS
<1>4. v[n + 1] = m /\ n + 1 \in 1..(n + 1)
  <2>1. n + 1 \in 1..(n + 1)  BY <1>2
  <2> QED  BY <2>1, <1>3
<1>5. \A i \in 1..n : i \in 1..(n + 1) /\ v[i] = w[i]
  <2>1. \A i \in 1..n : i \in 1..(n + 1) /\ i # n + 1  BY <1>2
  <2> QED  BY <2>1, <1>3
<1>6. \A k \in 1..(n + 1) : k = n + 1 \/ k \in 1..n  BY <1>2
<1>7. v \in Seq(Cells) /\ Len(v) = n + 1
  <2>1. v = [i \in 1..(n + 1) |-> v[i]] /\ n + 1 \in Nat  BY <1>3
  <2>2. \A k \in 1..(n + 1) : v[k] \in Cells  BY <1>2, <1>4, <1>5, <1>6
  <2> QED  BY <2>1, <2>2, CellList
<1>8. \A i \in 1..n : w[i] # m  BY <1>2 DEF On
<1>9. Once(v)
  <2>1. SUFFICES ASSUME NEW j \in 1..(n + 1), NEW k \in 1..(n + 1), v[j] = v[k] PROVE j = k
    BY <1>7 DEF Once
  <2>2. CASE j \in 1..n /\ k \in 1..n  BY <2>1, <2>2, <1>1, <1>2, <1>5 DEF Once
  <2>3. CASE j = n + 1 \/ k = n + 1  BY <2>1, <2>3, <1>4, <1>5, <1>6, <1>8
  <2> QED  BY <2>2, <2>3, <1>6
<1>10. CellAt(v, n + 1) = m /\ CellAt(v, (n + 1) + 1) = Null
  <2>1. (n + 1) + 1 \notin 1..(n + 1)  OBVIOUS
  <2> QED  BY <2>1, <1>4, <1>7 DEF CellAt
<1>11. \A i \in 1..n : CellAt(v, i) = CellAt(w, i)  BY <1>2, <1>5, <1>7 DEF CellAt
<1>12. (IF first = Null THEN m ELSE first) = CellAt(v, 1)
  <2>1. CASE n = 0
    <3>1. first = Null  BY <2>1, <1>1, <1>2, CellFacts
    <3>2. n + 1 = 1  BY <2>1
    <3> QED  BY <3>1, <3>2, <1>10
  <2>2. CASE n # 0
    <3>1. first # Null  BY <2>2, <1>1, <1>2, CellFacts
    <3>2. 1 \in 1..n  BY <2>2
    <3> QED  BY <3>1, <3>2, <1>1, <1>11
  <2> QED  BY <2>1, <2>2
<1>13. ASSUME NEW k \in 1..(n + 1) PROVE then[v[k]] = CellAt(v, k + 1)
  <2>1. CASE k = n + 1  BY <2>1, <1>0, <1>4, <1>10
  <2>2. CASE k \in 1..n /\ k = n
    <3>1. tail = w[n] /\ tail \in Cells /\ Null \notin Cells  BY <2>2, <1>1, <1>2, CellFacts DEF CellAt
    <3> QED  BY <3>1, <2>2, <1>0, <1>2, <1>5, <1>10
  <2>3. CASE k \in 1..n /\ k # n
    <3>1. k + 1 \in 1..n /\ n \in 1..n  BY <2>3
    <3>2. tail = w[n]  BY <3>1, <1>2 DEF CellAt
    <3>3. w[k] # tail /\ w[k] # m  BY <3>1, <3>2, <2>3, <1>1, <1>2, <1>8 DEF Once
    <3>4. then[w[k]] = CellAt(w, k + 1)  BY <3>3, <2>3, <1>0, <1>1, <1>2
    <3> QED  BY <3>1, <3>4, <2>3, <1>5, <1>11
  <2> QED  BY <2>1, <2>2, <2>3, <1>6
<1>14. Linked(then, IF first = Null THEN m ELSE first, v)  BY <1>7, <1>9, <1>12, <1>13 DEF Linked
<1>15. ASSUME NEW x PROVE On(v, x) <=> On(w, x) \/ x = m
  BY <1>2, <1>4, <1>5, <1>6, <1>7 DEF On
<1> QED  BY <1>2, <1>4, <1>5, <1>7, <1>14, <1>15 DEF Behind

\* The links when the cells of w are put, one by one, before the first of f.
Reversing(then, next, free, w, f) ==
    /\ \A x : ~(On(w, x) /\ On(f, x))
    /\ \A i \in 1..Len(w) : then[w[i]] = IF i = 1 THEN free ELSE w[i - 1]
    /\ \A x \in Cells : On(f, x) => then[x] = next[x]

Joined(v, w, f) == \A x : On(v, x) <=> On(w, x) \/ On(f, x)

LEMMA LinkedReversed ==
    ASSUME NEW next, NEW head, NEW w, Linked(next, head, w), w # <<>>,
           NEW free, NEW f, Linked(next, free, f), NEW then, Reversing(then, next, free, w, f)
    PROVE  \E v : Linked(then, w[Len(w)], v) /\ Joined(v, w, f)
<1>0. /\ \A x : ~(On(w, x) /\ On(f, x))
      /\ \A i \in 1..Len(w) : then[w[i]] = IF i = 1 THEN free ELSE w[i - 1]
      /\ \A x \in Cells : On(f, x) => then[x] = next[x]
  BY DEF Reversing
<1>1. /\ w \in Seq(Cells) /\ Once(w) /\ f \in Seq(Cells) /\ Once(f) /\ free = CellAt(f, 1)
      /\ \A i \in 1..Len(f) : next[f[i]] = CellAt(f, i + 1)
  BY DEF Linked
<1>2. PICK n \in Nat : Len(w) = n /\ \A i \in 1..n : w[i] \in Cells  BY <1>1, CellFacts
<1>3. PICK k \in Nat : Len(f) = k /\ \A i \in 1..k : f[i] \in Cells  BY <1>1, CellFacts
<1>4. n # 0
  <2>1. CellAt(w, 1) # Null  BY <1>1, CellFacts
  <2> QED  BY <2>1, <1>1, <1>2, CellFacts
<1>5. PICK v : v = [i \in 1..(n + k) |-> IF i <= n THEN w[n + 1 - i] ELSE f[i - n]]  OBVIOUS
<1>6. \A i \in 1..n : i \in 1..(n + k) /\ n + 1 - i \in 1..n /\ v[i] = w[n + 1 - i]
  <2>1. \A i \in 1..n : i \in 1..(n + k) /\ i <= n /\ n + 1 - i \in 1..n  BY <1>2, <1>3
  <2> QED  BY <2>1, <1>5
<1>7. \A i \in 1..k : n + i \in 1..(n + k) /\ v[n + i] = f[i]
  <2>1. SUFFICES ASSUME NEW i \in 1..k PROVE n + i \in 1..(n + k) /\ v[n + i] = f[i]
    OBVIOUS
  <2>2. n + i \in 1..(n + k) /\ ~(n + i <= n) /\ (n + i) - n = i  BY <1>2, <1>3
  <2> QED  BY <2>2, <1>5
<1>8. ASSUME NEW j \in 1..(n + k) PROVE j \in 1..n \/ \E i \in 1..k : j = n + i
  <2>1. CASE j <= n
    <3>1. j \in 1..n  BY <2>1
    <3> QED  BY <3>1
  <2>2. CASE ~(j <= n)
    <3>1. j - n \in 1..k /\ j = n + (j - n)  BY <2>2, <1>2, <1>3
    <3> QED  BY <3>1
  <2> QED  BY <2>1, <2>2
<1>9. v \in Seq(Cells) /\ Len(v) = n + k
  <2>1. v = [i \in 1..(n + k) |-> v[i]] /\ n + k \in Nat  BY <1>5
  <2>2. ASSUME NEW j \in 1..(n + k) PROVE v[j] \in Cells
    <3>1. CASE j \in 1..n
      <4>1. PICK h \in 1..n : h = n + 1 - j /\ v[j] = w[h]  BY <3>1, <1>6
      <4> QED  BY <4>1, <1>2
    <3>2. CASE j \notin 1..n
      <4>1. PICK i \in 1..k : j = n + i  BY <3>2, <1>8
      <4> QED  BY <4>1, <1>3, <1>7
    <3> QED  BY <3>1, <3>2
  <2> QED  BY <2>1, <2>2, CellList
<1>10. \A i \in 1..n, j \in 1..k : w[i] # f[j]  BY <1>0, <1>2, <1>3 DEF On
<1>11. Once(v)
  <2>1. SUFFICES ASSUME NEW i \in 1..(n + k), NEW j \in 1..(n + k), v[i] = v[j] PROVE i = j
    BY <1>9 DEF Once
  <2>2. CASE i \in 1..n /\ j \in 1..n
    <3>1. n + 1 - i = n + 1 - j
      <4>1. w[n + 1 - i] = w[n + 1 - j]  BY <2>1, <2>2, <1>6
      <4> QED  BY <4>1, <2>2, <1>1, <1>2, <1>6 DEF Once
    <3> QED  BY <3>1, <2>2
  <2>3. ASSUME NEW x \in 1..n, NEW y \in 1..k PROVE v[x] # v[n + y]
    <3>1. PICK h \in 1..n : h = n + 1 - x /\ v[x] = w[h]  BY <1>6
    <3> QED  BY <3>1, <1>7, <1>10
  <2>4. CASE i \in 1..n /\ j \notin 1..n
    <3>1. PICK y \in 1..k : j = n + y  BY <2>4, <1>8
    <3> QED  BY <3>1, <2>1, <2>3, <2>4
  <2>5. CASE i \notin 1..n /\ j \in 1..n
    <3>1. PICK y \in 1..k : i = n + y  BY <2>5, <1>8
    <3> QED  BY <3>1, <2>1, <2>3, <2>5
  <2>6. CASE i \notin 1..n /\ j \notin 1..n
    <3>1. PICK x \in 1..k : i = n + x  BY <2>6, <1>8
    <3>2. PICK y \in 1..k : j = n + y  BY <2>6, <1>8
    <3>3. f[x] = f[y]  BY <3>1, <3>2, <2>1, <1>7
    <3>4. x = y  BY <3>3, <1>1, <1>3 DEF Once
    <3> QED  BY <3>1, <3>2, <3>4
  <2> QED  BY <2>2, <2>4, <2>5, <2>6
<1>12. w[n] = CellAt(v, 1)
  <2>1. 1 \in 1..n /\ n + 1 - 1 = n  BY <1>4
  <2> QED  BY <2>1, <1>6, <1>9 DEF CellAt
<1>13. \A i \in 1..(k + 1) : CellAt(v, n + i) = CellAt(f, i)
  <2>1. SUFFICES ASSUME NEW i \in 1..(k + 1) PROVE CellAt(v, n + i) = CellAt(f, i)
    OBVIOUS
  <2>2. CASE i \in 1..k  BY <2>2, <1>3, <1>7, <1>9 DEF CellAt
  <2>3. CASE i \notin 1..k
    <3>1. i \notin 1..Len(f) /\ n + i \notin 1..Len(v)  BY <2>3, <1>3, <1>9
    <3> QED  BY <3>1 DEF CellAt
  <2> QED  BY <2>2, <2>3
<1>14. ASSUME NEW j \in 1..(n + k) PROVE then[v[j]] = CellAt(v, j + 1)
  <2>1. CASE j \in 1..n /\ j = n
    <3>1. v[j] = w[1] /\ 1 \in 1..n
      <4>1. n + 1 - n = 1 /\ 1 \in 1..n  BY <1>4
      <4> QED  BY <4>1, <2>1, <1>6
    <3>2. then[v[j]] = free  BY <3>1, <1>0, <1>2
    <3>3. CellAt(v, n + 1) = CellAt(f, 1)
      <4>1. 1 \in 1..(k + 1)  BY <1>3
      <4> QED  BY <4>1, <1>13
    <3> QED  BY <3>2, <3>3, <2>1, <1>1
  <2>2. CASE j \in 1..n /\ j # n
    <3>1. j + 1 \in 1..n /\ n + 1 - (j + 1) = (n + 1 - j) - 1 /\ n + 1 - j # 1  BY <2>2
    <3>2. PICK h \in 1..n : h = n + 1 - j /\ h # 1 /\ n + 1 - (j + 1) = h - 1
      <4>1. n + 1 - j \in 1..n  BY <2>2, <1>6
      <4> QED  BY <4>1, <3>1
    <3>3. v[j] = w[h] /\ v[j + 1] = w[h - 1]
      <4>1. v[j] = w[n + 1 - j] /\ v[j + 1] = w[n + 1 - (j + 1)]  BY <2>2, <3>1, <1>6
      <4> QED  BY <4>1, <3>2
    <3>4. then[w[h]] = w[h - 1]  BY <3>2, <1>0, <1>2
    <3>5. j + 1 \in 1..Len(v)  BY <3>1, <1>6, <1>9
    <3> QED  BY <3>3, <3>4, <3>5 DEF CellAt
  <2>3. CASE j \notin 1..n
    <3>1. PICK i \in 1..k : j = n + i  BY <2>3, <1>8
    <3>2. On(f, f[i])  BY <1>3 DEF On
    <3>3. then[f[i]] = CellAt(f, i + 1)  BY <3>2, <1>0, <1>1, <1>3
    <3>4. i + 1 \in 1..(k + 1) /\ j + 1 = n + (i + 1)  BY <3>1
    <3>5. CellAt(v, j + 1) = CellAt(f, i + 1)  BY <3>4, <1>13
    <3> QED  BY <3>1, <3>3, <3>5, <1>7
  <2> QED  BY <2>1, <2>2, <2>3
<1>15. Linked(then, w[Len(w)], v)  BY <1>2, <1>9, <1>11, <1>12, <1>14 DEF Linked
<1>16. ASSUME NEW x PROVE On(v, x) <=> On(w, x) \/ On(f, x)
  <2>1. ASSUME On(v, x) PROVE On(w, x) \/ On(f, x)
    <3>1. PICK j \in 1..(n + k) : v[j] = x  BY <2>1, <1>9 DEF On
    <3>2. CASE j \in 1..n
      <4>1. PICK h \in 1..n : h = n + 1 - j /\ v[j] = w[h]  BY <3>2, <1>6
      <4> QED  BY <4>1, <3>1, <1>2 DEF On
    <3>3. CASE j \notin 1..n
      <4>1. PICK i \in 1..k : j = n + i  BY <3>3, <1>8
      <4> QED  BY <4>1, <3>1, <1>3, <1>7 DEF On
    <3> QED  BY <3>2, <3>3
  <2>2. ASSUME On(w, x) PROVE On(v, x)
    <3>1. PICK h \in 1..n : w[h] = x  BY <2>2, <1>2 DEF On
    <3>2. PICK j \in 1..n : j = n + 1 - h /\ n + 1 - j = h
      <4>1. n + 1 - h \in 1..n /\ n + 1 - (n + 1 - h) = h  BY <3>1
      <4> QED  BY <4>1
    <3> QED  BY <3>1, <3>2, <1>6, <1>9 DEF On
  <2>3. ASSUME On(f, x) PROVE On(v, x)
    <3>1. PICK i \in 1..k : f[i] = x  BY <2>3, <1>3 DEF On
    <3> QED  BY <3>1, <1>7, <1>9 DEF On
  <2> QED  BY <2>1, <2>2, <2>3
<1> QED  BY <1>15, <1>16 DEF Joined

\* No list has more cells than there are.
LEMMA LinkedLength ==
    ASSUME NEW w \in Seq(Cells), Once(w)
    PROVE  Len(w) \in 0..MqMax
<1>1. PICK n \in Nat : n = Len(w)  BY LenProperties
<1>2. w \in [1..n -> Cells]  BY <1>1, LenProperties
<1>3. w \in Injection(1..n, Cells)  BY <1>1, <1>2 DEF Once, Injection, IsInjective
<1>4. MqMax \in Nat /\ MqMax > 0  BY MailAssumption
<1>5. IsFiniteSet(Cells) /\ Cardinality(Cells) = MqMax
  <2>1. IsFiniteSet(1..MqMax) /\ Cardinality(1..MqMax) = IF 1 > MqMax THEN 0 ELSE MqMax - 1 + 1
    BY <1>4, FS_Interval
  <2> QED  BY <2>1, <1>4 DEF Cells
<1>6. Cardinality(1..n) <= Cardinality(Cells)  BY <1>3, <1>5, FS_Injection
<1>7. Cardinality(1..n) = n
  <2>1. Cardinality(1..n) = IF 1 > n THEN 0 ELSE n - 1 + 1  BY FS_Interval
  <2> QED  BY <2>1
<1> QED  BY <1>1, <1>4, <1>5, <1>6, <1>7

\* First cell and links determine the list.
LEMMA LinkedOnce ==
    ASSUME NEW next, NEW first, NEW u, Linked(next, first, u), NEW w, Linked(next, first, w)
    PROVE  u = w
<1>1. /\ u \in Seq(Cells) /\ w \in Seq(Cells) /\ first = CellAt(u, 1) /\ first = CellAt(w, 1)
      /\ \A i \in 1..Len(u) : next[u[i]] = CellAt(u, i + 1)
      /\ \A i \in 1..Len(w) : next[w[i]] = CellAt(w, i + 1)
  BY DEF Linked
<1>2. PICK a \in Nat, b \in Nat :
         /\ Len(u) = a /\ Len(w) = b
         /\ (\A i \in 1..a : u[i] \in Cells /\ u[i] # Null) /\ \A i \in 1..b : w[i] \in Cells /\ w[i] # Null
  BY <1>1, CellFacts
<1>3. \A i \in Nat : (i \in 1..a <=> CellAt(u, i) # Null) /\ (i \in 1..b <=> CellAt(w, i) # Null)
  BY <1>2 DEF CellAt
<1> DEFINE Bad == {i \in Nat : i # 0 /\ CellAt(u, i) # CellAt(w, i)}
<1>4. Bad = {}
  <2>1. SUFFICES ASSUME Bad # {} PROVE FALSE
    OBVIOUS
  <2>2. PICK i \in Bad : \A j \in Bad : i <= j  BY <2>1, LeastNatural
  <2>3. i \in Nat /\ i # 0 /\ CellAt(u, i) # CellAt(w, i)  BY <2>2
  <2>4. i # 1  BY <2>3, <1>1
  <2>5. PICK j \in Nat : i = j + 1 /\ j # 0 /\ ~(i <= j)
    <3>1. i - 1 \in Nat /\ i = (i - 1) + 1 /\ i - 1 # 0 /\ ~(i <= i - 1)  BY <2>3, <2>4
    <3> QED  BY <3>1
  <2>6. CellAt(u, j) = CellAt(w, j)  BY <2>2, <2>5
  <2>7. CASE j \in 1..a
    <3>1. j \in 1..b  BY <2>6, <2>7, <1>3
    <3>2. u[j] = w[j]  BY <3>1, <2>6, <2>7, <1>2 DEF CellAt
    <3> QED  BY <3>1, <3>2, <2>3, <2>5, <2>7, <1>1, <1>2
  <2>8. CASE j \notin 1..a
    <3>1. j \notin 1..b  BY <2>6, <2>8, <1>3
    <3>2. i \notin 1..a /\ i \notin 1..b  BY <3>1, <2>5, <2>8
    <3> QED  BY <3>2, <2>3, <1>3
  <2> QED  BY <2>7, <2>8
<1>5. a = b
  <2>1. ASSUME NEW i \in Nat, i # 0 PROVE i \in 1..a <=> i \in 1..b  BY <2>1, <1>3, <1>4
  <2>2. a # 0 => a \in 1..b  BY <2>1
  <2>3. b # 0 => b \in 1..a  BY <2>1
  <2> QED  BY <2>2, <2>3
<1>6. ASSUME NEW i \in 1..a PROVE u[i] = w[i]
  <2>1. CellAt(u, i) = CellAt(w, i)  BY <1>4
  <2> QED  BY <2>1, <1>2, <1>5 DEF CellAt
<1> QED  BY <1>1, <1>2, <1>5, <1>6, SeqEqual

IsWalk(x, next, c) == x = [n \in 0..MqMax |->
    IF n = 0 THEN c ELSE IF x[n - 1] = Null THEN Null ELSE next[x[n - 1]]]

\* Following the links gives the cells they link.
LEMMA ChainIs ==
    ASSUME NEW c, NEW w, Linked(mq.next, c, w)
    PROVE  Chain(c) = w
<1>1. /\ w \in Seq(Cells) /\ Once(w) /\ c = CellAt(w, 1)
      /\ \A i \in 1..Len(w) : mq.next[w[i]] = CellAt(w, i + 1)
  BY DEF Linked
<1>2. PICK n \in 0..MqMax : Len(w) = n /\ \A i \in 1..n : w[i] \in Cells
  BY <1>1, CellFacts, LinkedLength
<1>3. MqMax \in Nat /\ n \in Nat /\ Null \notin Cells  BY <1>2, MailAssumption DEF Cells
<1>4. PICK next : next = mq.next  OBVIOUS
<1>5. ASSUME NEW i \in 0..MqMax, i # 0
      PROVE  CellAt(w, i + 1) = IF CellAt(w, i) = Null THEN Null ELSE next[CellAt(w, i)]
  <2>1. CASE i \in 1..n  BY <2>1, <1>1, <1>2, <1>3, <1>4 DEF CellAt
  <2>2. CASE i \notin 1..n
    <3>1. i + 1 \notin 1..n  BY <2>2, <1>3, <1>5
    <3> QED  BY <3>1, <2>2, <1>2 DEF CellAt
  <2> QED  BY <2>1, <2>2
<1>6. PICK g : g = [i \in 0..MqMax |-> CellAt(w, i + 1)]  OBVIOUS
<1>7. IsWalk(g, next, c)
  <2>1. ASSUME NEW i \in 0..MqMax
        PROVE  g[i] = IF i = 0 THEN c ELSE IF g[i - 1] = Null THEN Null ELSE next[g[i - 1]]
    <3>1. CASE i = 0
      <4>1. 0 + 1 = 1  OBVIOUS
      <4> QED  BY <4>1, <3>1, <1>1, <1>6
    <3>2. CASE i # 0
      <4>1. i - 1 \in 0..MqMax /\ (i - 1) + 1 = i  BY <3>2, <1>3
      <4>2. g[i - 1] = CellAt(w, i) /\ g[i] = CellAt(w, i + 1)  BY <4>1, <1>6
      <4> QED  BY <4>2, <3>2, <1>5
    <3> QED  BY <3>1, <3>2
  <2>2. g = [i \in 0..MqMax |-> g[i]]  BY <1>6
  <2> QED  BY <2>1, <2>2 DEF IsWalk
<1>8. ASSUME NEW x, IsWalk(x, next, c) PROVE \A i \in 0..MqMax : x[i] = g[i]
  <2> DEFINE Bad == {i \in 0..MqMax : x[i] # g[i]}
  <2>1. SUFFICES ASSUME Bad # {} PROVE FALSE
    OBVIOUS
  <2>2. Bad \in SUBSET Nat  BY <1>3
  <2>3. PICK i \in Bad : \A j \in Bad : i <= j  BY <2>1, <2>2, LeastNatural
  <2>4. i \in 0..MqMax /\ x[i] # g[i]  BY <2>3
  <2>5. /\ x[i] = IF i = 0 THEN c ELSE IF x[i - 1] = Null THEN Null ELSE next[x[i - 1]]
        /\ g[i] = IF i = 0 THEN c ELSE IF g[i - 1] = Null THEN Null ELSE next[g[i - 1]]
    BY <2>4, <1>7, <1>8 DEF IsWalk
  <2>6. CASE i = 0  BY <2>4, <2>5, <2>6
  <2>7. CASE i # 0
    <3>1. i - 1 \in 0..MqMax /\ ~(i <= i - 1)  BY <2>4, <2>7, <1>3
    <3>2. x[i - 1] = g[i - 1]  BY <3>1, <2>3
    <3> QED  BY <3>2, <2>4, <2>5
  <2> QED  BY <2>6, <2>7
<1> DEFINE walk == CHOOSE x : IsWalk(x, mq.next, c)
<1>9. IsWalk(walk, next, c)  BY <1>4, <1>7
<1>10. Chain(c) = [i \in 1..Cardinality({k \in 0..MqMax : walk[k] # Null}) |-> walk[i - 1]]
  BY DEF Chain, IsWalk
<1> HIDE DEF walk
<1>11. \A i \in 0..MqMax : walk[i] = CellAt(w, i + 1)  BY <1>6, <1>8, <1>9
<1>12. {k \in 0..MqMax : walk[k] # Null} = 0..(n - 1)
  <2>1. ASSUME NEW k \in 0..MqMax PROVE walk[k] # Null <=> k \in 0..(n - 1)
    <3>1. walk[k] = CellAt(w, k + 1)  BY <1>11
    <3>2. k + 1 \in 1..n <=> k \in 0..(n - 1)  BY <1>3
    <3> QED  BY <3>1, <3>2, <1>2, <1>3 DEF CellAt
  <2>2. \A k \in 0..(n - 1) : k \in 0..MqMax  BY <1>2, <1>3
  <2> QED  BY <2>1, <2>2
<1>13. Cardinality(0..(n - 1)) = n
  <2>1. Cardinality(0..(n - 1)) = IF 0 > n - 1 THEN 0 ELSE (n - 1) - 0 + 1  BY <1>3, FS_Interval
  <2> QED  BY <2>1, <1>3
<1>14. Chain(c) = [i \in 1..n |-> walk[i - 1]]  BY <1>10, <1>12, <1>13
<1>15. \A i \in 1..n : walk[i - 1] = w[i]
  <2>1. SUFFICES ASSUME NEW i \in 1..n PROVE walk[i - 1] = w[i]
    OBVIOUS
  <2>2. i - 1 \in 0..MqMax /\ (i - 1) + 1 = i  BY <1>2, <1>3
  <2> QED  BY <2>2, <1>2, <1>11 DEF CellAt
<1>16. w = [i \in 1..n |-> w[i]]  BY <1>1, <1>2, LenProperties
<1> QED  BY <1>14, <1>15, <1>16

-----------------------------------------------------------------------------
(* The queue's cells.                                                      *)

\* The cells w hold the messages s.
Queued(head, tail, entry, next, data, s, w) ==
    /\ Linked(next, head, w) /\ tail = CellAt(w, Len(w))
    /\ s \in Seq(Nat) /\ Len(s) = Len(w) /\ entry = Len(w)
    /\ \A i \in 1..Len(w) : data[w[i]] = s[i]

\* A caller in call c copies a message.
Copying(c) == c.op \in {"mq_link", "mq_free"}

\* A cell is in one list or with one caller.
Apart(cs, w, f) ==
    /\ \A x : ~(On(w, x) /\ On(f, x))
    /\ \A c \in Callers : Copying(cs[c]) =>
          cs[c].cell \in Cells /\ ~On(w, cs[c].cell) /\ ~On(f, cs[c].cell)
    /\ \A c, d \in Callers : Copying(cs[c]) /\ Copying(cs[d]) /\ cs[c].cell = cs[d].cell => c = d
    /\ \A x \in Cells : On(w, x) \/ On(f, x) \/ \E c \in Callers : Copying(cs[c]) /\ cs[c].cell = x

Intact(cs, data) == \A c \in Callers : cs[c].op = "mq_free" => data[cs[c].cell] = cs[c].msg

Pool(head, tail, free, entry, next, data, s, cs) ==
    /\ next \in [Cells -> Cells \cup {Null}] /\ data \in [Cells -> Nat] /\ Intact(cs, data)
    /\ \E w, f : /\ Queued(head, tail, entry, next, data, s, w) /\ Linked(next, free, f)
                 /\ Apart(cs, w, f)

\* The call of c alone is another.
OtherCall(cs, ds, c) == \A x \in Callers : x # c => ds[x] = cs[x]

\* No caller begins or ends a copy.
SameCopies(cs, ds) == \A d \in Callers : ds[d] = cs[d] \/ (~Copying(cs[d]) /\ ~Copying(ds[d]))

LEMMA ApartTaken ==
    ASSUME NEW cs, NEW w, NEW f, Apart(cs, w, f), NEW c \in Callers, ~Copying(cs[c]),
           NEW ds, OtherCall(cs, ds, c), Copying(ds[c]), ds[c].cell \in Cells,
           NEW v, NEW g, \A x : ~(On(v, x) /\ On(g, x)), On(w, ds[c].cell) \/ On(f, ds[c].cell),
           \A x : On(v, x) \/ On(g, x) <=> (On(w, x) \/ On(f, x)) /\ x # ds[c].cell
    PROVE  Apart(ds, v, g)
<1>1. ASSUME NEW d \in Callers, Copying(ds[d])
      PROVE  ds[d].cell \in Cells /\ ~On(v, ds[d].cell) /\ ~On(g, ds[d].cell)
  BY <1>1 DEF Apart, OtherCall
<1>2. ASSUME NEW d \in Callers, NEW e \in Callers, Copying(ds[d]), Copying(ds[e]), ds[d].cell = ds[e].cell
      PROVE  d = e
  BY <1>2 DEF Apart, OtherCall
<1>3. ASSUME NEW x \in Cells
      PROVE  On(v, x) \/ On(g, x) \/ \E d \in Callers : Copying(ds[d]) /\ ds[d].cell = x
  <2>1. CASE x = ds[c].cell  BY <2>1
  <2>2. CASE x # ds[c].cell /\ (On(w, x) \/ On(f, x))  BY <2>2
  <2>3. CASE \E d \in Callers : Copying(cs[d]) /\ cs[d].cell = x
    <3>1. PICK d \in Callers : Copying(cs[d]) /\ cs[d].cell = x  BY <2>3
    <3>2. ds[d] = cs[d]  BY <3>1 DEF OtherCall
    <3> QED  BY <3>1, <3>2
  <2> QED  BY <2>1, <2>2, <2>3 DEF Apart
<1> QED  BY <1>1, <1>2, <1>3 DEF Apart

LEMMA ApartGiven ==
    ASSUME NEW cs, NEW w, NEW f, Apart(cs, w, f), NEW c \in Callers, Copying(cs[c]),
           NEW ds, OtherCall(cs, ds, c), ~Copying(ds[c]),
           NEW v, NEW g, \A x : ~(On(v, x) /\ On(g, x)),
           \A x : On(v, x) \/ On(g, x) <=> On(w, x) \/ On(f, x) \/ x = cs[c].cell
    PROVE  Apart(ds, v, g)
<1>1. ASSUME NEW d \in Callers, Copying(ds[d])
      PROVE  ds[d].cell \in Cells /\ ~On(v, ds[d].cell) /\ ~On(g, ds[d].cell)
  <2>1. d # c /\ ds[d] = cs[d] /\ Copying(cs[d])  BY <1>1 DEF OtherCall
  <2>2. cs[d].cell # cs[c].cell  BY <2>1 DEF Apart
  <2> QED  BY <2>1, <2>2 DEF Apart
<1>2. ASSUME NEW d \in Callers, NEW e \in Callers, Copying(ds[d]), Copying(ds[e]), ds[d].cell = ds[e].cell
      PROVE  d = e
  <2>1. d # c /\ e # c /\ ds[d] = cs[d] /\ ds[e] = cs[e]  BY <1>2 DEF OtherCall
  <2> QED  BY <2>1, <1>2 DEF Apart
<1>3. ASSUME NEW x \in Cells
      PROVE  On(v, x) \/ On(g, x) \/ \E d \in Callers : Copying(ds[d]) /\ ds[d].cell = x
  <2>1. CASE On(w, x) \/ On(f, x)  BY <2>1
  <2>2. CASE \E d \in Callers : Copying(cs[d]) /\ cs[d].cell = x
    <3>1. PICK d \in Callers : Copying(cs[d]) /\ cs[d].cell = x  BY <2>2
    <3>2. CASE d = c  BY <3>1, <3>2
    <3>3. CASE d # c
      <4>1. ds[d] = cs[d]  BY <3>3 DEF OtherCall
      <4> QED  BY <3>1, <4>1
    <3> QED  BY <3>2, <3>3
  <2> QED  BY <2>1, <2>2 DEF Apart
<1> QED  BY <1>1, <1>2, <1>3 DEF Apart

LEMMA ApartSame ==
    ASSUME NEW cs, NEW w, NEW f, Apart(cs, w, f), NEW ds, SameCopies(cs, ds), NEW v, NEW g, \A x : ~(On(v, x) /\ On(g, x)),
           \A x : On(v, x) \/ On(g, x) <=> On(w, x) \/ On(f, x)
    PROVE  Apart(ds, v, g)
<1>1. \A d \in Callers : ds[d] = cs[d] \/ (~Copying(cs[d]) /\ ~Copying(ds[d]))  BY DEF SameCopies
<1>2. ASSUME NEW d \in Callers, Copying(ds[d]) PROVE ds[d] = cs[d] /\ Copying(cs[d])  BY <1>1, <1>2
<1>3. ASSUME NEW d \in Callers, Copying(cs[d]) PROVE ds[d] = cs[d] /\ Copying(ds[d])  BY <1>1, <1>3
<1>4. \A d \in Callers : Copying(ds[d]) =>
         ds[d].cell \in Cells /\ ~On(v, ds[d].cell) /\ ~On(g, ds[d].cell)
  BY <1>2 DEF Apart
<1>5. \A d, e \in Callers : Copying(ds[d]) /\ Copying(ds[e]) /\ ds[d].cell = ds[e].cell => d = e
  BY <1>2 DEF Apart
<1>6. ASSUME NEW x \in Cells
      PROVE  On(v, x) \/ On(g, x) \/ \E d \in Callers : Copying(ds[d]) /\ ds[d].cell = x
  <2>1. CASE On(w, x) \/ On(f, x)  BY <2>1
  <2>2. CASE \E d \in Callers : Copying(cs[d]) /\ cs[d].cell = x
    <3>1. PICK d \in Callers : Copying(cs[d]) /\ cs[d].cell = x  BY <2>2
    <3> QED  BY <3>1, <1>3
  <2> QED  BY <2>1, <2>2 DEF Apart
<1> QED  BY <1>4, <1>5, <1>6 DEF Apart

\* No step but those of the queue's cells changes who copies.
LEMMA PoolSame ==
    ASSUME NEW head, NEW tail, NEW free, NEW entry, NEW next, NEW data, NEW s, NEW cs,
           Pool(head, tail, free, entry, next, data, s, cs), NEW ds, SameCopies(cs, ds)
    PROVE  Pool(head, tail, free, entry, next, data, s, ds)
<1>0. next \in [Cells -> Cells \cup {Null}] /\ data \in [Cells -> Nat] /\ Intact(cs, data)  BY DEF Pool
<1>1. PICK w, f : Queued(head, tail, entry, next, data, s, w) /\ Linked(next, free, f) /\ Apart(cs, w, f)
  BY DEF Pool
<1>2. \A x : ~(On(w, x) /\ On(f, x))  BY <1>1 DEF Apart
<1>3. Apart(ds, w, f)  BY <1>1, <1>2, ApartSame
<1>4. Intact(ds, data)
  <2>1. ASSUME NEW d \in Callers, ds[d].op = "mq_free" PROVE data[ds[d].cell] = ds[d].msg
    <3>1. ds[d] = cs[d]  BY <2>1 DEF SameCopies, Copying
    <3> QED  BY <3>1, <2>1, <1>0 DEF Intact
  <2> QED  BY <2>1 DEF Intact
<1> QED  BY <1>0, <1>1, <1>3, <1>4 DEF Pool

\* rt_mq_send takes the first free cell.
LEMMA PoolSend ==
    ASSUME NEW head, NEW tail, NEW free, NEW entry, NEW next, NEW data, NEW s, NEW cs,
           Pool(head, tail, free, entry, next, data, s, cs), free # Null,
           NEW c \in Callers, ~Copying(cs[c]), NEW ds, OtherCall(cs, ds, c),
           ds[c].op = "mq_link", ds[c].cell = free
    PROVE  Pool(head, tail, next[free], entry, next, data, s, ds)
<1>0. next \in [Cells -> Cells \cup {Null}] /\ data \in [Cells -> Nat] /\ Intact(cs, data)  BY DEF Pool
<1>1. PICK w, f : Queued(head, tail, entry, next, data, s, w) /\ Linked(next, free, f) /\ Apart(cs, w, f)
  BY DEF Pool
<1>2. /\ free \in Cells /\ On(f, free)
      /\ \E g : Linked(next, next[free], g) /\ \A x : On(g, x) <=> On(f, x) /\ x # free
  BY <1>1, LinkedRest
<1>3. PICK g : Linked(next, next[free], g) /\ \A x : On(g, x) <=> On(f, x) /\ x # free  BY <1>2
<1>4. (\A x : ~(On(w, x) /\ On(f, x))) /\ Copying(ds[c])  BY <1>1 DEF Apart, Copying
<1>5. Apart(ds, w, g)  BY <1>1, <1>2, <1>3, <1>4, ApartTaken
<1>6. Intact(ds, data)
  <2>1. ASSUME NEW d \in Callers, ds[d].op = "mq_free" PROVE data[ds[d].cell] = ds[d].msg
    <3>1. ds[d] = cs[d]  BY <2>1 DEF OtherCall
    <3> QED  BY <3>1, <2>1, <1>0 DEF Intact
  <2> QED  BY <2>1 DEF Intact
<1> QED  BY <1>0, <1>1, <1>3, <1>5, <1>6 DEF Pool

\* What is written to a cell that is in no list.
LEMMA IntactSet ==
    ASSUME NEW cs, NEW w, NEW f, Apart(cs, w, f), NEW data \in [Cells -> Nat], Intact(cs, data),
           NEW c \in Callers, Copying(cs[c]), NEW ds, OtherCall(cs, ds, c), ~Copying(ds[c]),
           NEW m, m = cs[c].cell, NEW x \in Nat, NEW then, then = [data EXCEPT ![m] = x]
    PROVE  then \in [Cells -> Nat] /\ Intact(ds, then) /\ Changed(then, data, m, x)
<1>1. m \in Cells  BY DEF Apart
<1>2. then \in [Cells -> Nat] /\ then[m] = x /\ \A y \in Cells : y # m => then[y] = data[y]
  BY <1>1
<1>3. ASSUME NEW d \in Callers, ds[d].op = "mq_free" PROVE then[ds[d].cell] = ds[d].msg
  <2>1. d # c /\ ds[d] = cs[d]  BY <1>3 DEF OtherCall, Copying
  <2>2. cs[d].cell \in Cells /\ cs[d].cell # cs[c].cell  BY <2>1, <1>3 DEF Apart, Copying
  <2> QED  BY <2>1, <2>2, <1>2, <1>3 DEF Intact
<1> QED  BY <1>2, <1>3 DEF Intact, Changed

LEMMA ConsIs ==
    ASSUME NEW s \in Seq(Nat), NEW x \in Nat, NEW r, r = <<x>> \o s
    PROVE  /\ r \in Seq(Nat) /\ Len(r) = Len(s) + 1 /\ r[1] = x
           /\ \A i \in 1..Len(s) : r[i + 1] = s[i]
<1>1. <<x>> \in Seq(Nat) /\ Len(<<x>>) = 1 /\ <<x>>[1] = x  OBVIOUS
<1>2. PICK a \in Seq(Nat) : a = <<x>>  BY <1>1
<1>3. Len(a) = 1 /\ a[1] = x /\ r = a \o s  BY <1>1, <1>2
<1>4. PICK n \in Nat : n = Len(s)  BY LenProperties
<1>5. /\ a \o s \in Seq(Nat) /\ Len(a \o s) = Len(a) + Len(s)
      /\ \A i \in 1..Len(a) + Len(s) : (a \o s)[i] = IF i <= Len(a) THEN a[i] ELSE s[i - Len(a)]
  BY ConcatProperties
<1>6. r \in Seq(Nat) /\ Len(r) = n + 1 /\ \A i \in 1..1 + n : r[i] = IF i <= 1 THEN a[i] ELSE s[i - 1]
  BY <1>3, <1>4, <1>5
<1>7. r[1] = x
  <2>1. 1 \in 1..1 + n /\ 1 <= 1  BY <1>4
  <2> QED  BY <2>1, <1>3, <1>6
<1>8. ASSUME NEW i \in 1..n PROVE r[i + 1] = s[i]
  <2>1. i + 1 \in 1..1 + n /\ ~(i + 1 <= 1) /\ (i + 1) - 1 = i  BY <1>4
  <2> QED  BY <2>1, <1>6
<1> QED  BY <1>4, <1>6, <1>7, <1>8

\* rt_mq_urgent links its cell before the first.
UrgentThen(t1, e1, n1, d1, s1, m, x, head, tail, entry, next, data, s) ==
    /\ t1 = (IF tail = Null THEN m ELSE tail) /\ e1 = entry + 1 /\ n1 = [next EXCEPT ![m] = head]
    /\ d1 = [data EXCEPT ![m] = x] /\ s1 = <<x>> \o s

LEMMA PoolUrgent ==
    ASSUME NEW head, NEW tail, NEW free, NEW entry, NEW next, NEW data, NEW s, NEW cs,
           Pool(head, tail, free, entry, next, data, s, cs),
           NEW c \in Callers, Copying(cs[c]), NEW ds, OtherCall(cs, ds, c), ~Copying(ds[c]),
           NEW m, m = cs[c].cell, NEW x \in Nat, NEW t1, NEW e1, NEW n1, NEW d1, NEW s1,
           UrgentThen(t1, e1, n1, d1, s1, m, x, head, tail, entry, next, data, s)
    PROVE  Pool(m, t1, free, e1, n1, d1, s1, ds)
<1> USE DEF UrgentThen
<1>0. next \in [Cells -> Cells \cup {Null}] /\ data \in [Cells -> Nat] /\ Intact(cs, data)  BY DEF Pool
<1>1. PICK w, f : Queued(head, tail, entry, next, data, s, w) /\ Linked(next, free, f) /\ Apart(cs, w, f)
  BY DEF Pool
<1>2. m \in Cells /\ ~On(w, m) /\ ~On(f, m) /\ \A y : ~(On(w, y) /\ On(f, y))  BY <1>1 DEF Apart
<1>3. Linked(next, head, w)  BY <1>1 DEF Queued
<1>4. n1[m] = head /\ \A y \in Cells : y # m => n1[y] = next[y]  BY <1>0, <1>2
<1>5. PICK v : /\ Linked(n1, m, v) /\ Len(v) = Len(w) + 1 /\ v[1] = m
               /\ \A i \in 1..Len(w) : v[i + 1] = w[i]
               /\ \A y : On(v, y) <=> On(w, y) \/ y = m
  <2>1. Changed(n1, next, m, head)  BY <1>4 DEF Changed
  <2>2. PICK v : Linked(n1, m, v) /\ Before(v, m, w)  BY <2>1, <1>2, <1>3, LinkedBefore
  <2> QED  BY <2>2 DEF Before
<1>6. Linked(n1, free, f)
  <2>1. \A y \in Cells : On(f, y) => n1[y] = next[y]  BY <1>2, <1>4
  <2> QED  BY <2>1, <1>1, LinkedStays
<1>7. Apart(ds, v, f)  BY <1>1, <1>2, <1>5, ApartGiven
<1>8. /\ d1 \in [Cells -> Nat] /\ Intact(ds, d1) /\ d1[m] = x
      /\ \A y \in Cells : y # m => d1[y] = data[y]
  <2>1. d1 \in [Cells -> Nat] /\ Intact(ds, d1) /\ Changed(d1, data, m, x)
    BY <1>0, <1>1, IntactSet
  <2> QED  BY <2>1 DEF Changed
<1>9. PICK n \in Nat : n = Len(w) /\ \A i \in 1..n : w[i] \in Cells  BY <1>3, CellFacts DEF Linked
<1>10. /\ s1 \in Seq(Nat) /\ Len(s1) = n + 1 /\ s1[1] = x /\ Len(s) = n
       /\ \A i \in 1..n : s1[i + 1] = s[i]
  BY <1>1, <1>9, ConsIs DEF Queued
<1>11. t1 = CellAt(v, Len(v))
  <2>1. Len(v) = n + 1 /\ n + 1 \in 1..(n + 1)  BY <1>5, <1>9
  <2>2. CellAt(v, Len(v)) = v[n + 1]  BY <2>1 DEF CellAt
  <2>3. CASE n = 0
    <3>1. n \notin 1..n /\ n + 1 = 1  BY <2>3
    <3>2. tail = Null  BY <3>1, <1>1, <1>9 DEF Queued, CellAt
    <3> QED  BY <3>1, <3>2, <2>2, <1>5
  <2>4. CASE n # 0
    <3>1. n \in 1..n  BY <2>4
    <3>2. tail = w[n] /\ tail \in Cells  BY <3>1, <1>1, <1>9 DEF Queued, CellAt
    <3>3. tail # Null  BY <3>2, MailAssumption DEF Cells
    <3> QED  BY <3>1, <3>2, <3>3, <2>2, <1>5, <1>9
  <2> QED  BY <2>3, <2>4
<1>12. ASSUME NEW i \in 1..Len(v) PROVE d1[v[i]] = s1[i]
  <2>1. CASE i = 1  BY <2>1, <1>5, <1>8, <1>10
  <2>2. CASE i # 1
    <3>1. PICK j \in 1..n : i = j + 1
      <4>1. i - 1 \in 1..n /\ i = (i - 1) + 1  BY <2>2, <1>5, <1>9
      <4> QED  BY <4>1
    <3>2. On(w, w[j])  BY <1>9 DEF On
    <3>3. d1[w[j]] = data[w[j]]  BY <3>2, <1>2, <1>8, <1>9
    <3>4. data[w[j]] = s[j]  BY <1>1, <1>9 DEF Queued
    <3> QED  BY <3>1, <3>3, <3>4, <1>5, <1>9, <1>10
  <2> QED  BY <2>1, <2>2
<1>13. e1 = Len(v) /\ Len(s1) = Len(v)  BY <1>1, <1>5, <1>9, <1>10 DEF Queued
<1>14. Queued(m, t1, e1, n1, d1, s1, v)  BY <1>5, <1>10, <1>11, <1>12, <1>13 DEF Queued
<1>15. n1 \in [Cells -> Cells \cup {Null}]
  <2>1. head \in Cells \cup {Null}
    <3>1. w \in Seq(Cells) /\ head = CellAt(w, 1)  BY <1>3 DEF Linked
    <3> QED  BY <3>1, CellFacts DEF CellAt
  <2> QED  BY <2>1, <1>0
<1> QED  BY <1>6, <1>7, <1>8, <1>14, <1>15 DEF Pool

\* rt_mq_send links its cell behind the last.
LastThen(h1, e1, n1, d1, s1, m, x, head, tail, entry, next, data, s) ==
    /\ h1 = (IF head = Null THEN m ELSE head) /\ e1 = entry + 1
    /\ n1 = [y \in Cells |-> IF y = m THEN Null ELSE IF y = tail THEN m ELSE next[y]]
    /\ d1 = [data EXCEPT ![m] = x] /\ s1 = Append(s, x)

LEMMA PoolLast ==
    ASSUME NEW head, NEW tail, NEW free, NEW entry, NEW next, NEW data, NEW s, NEW cs,
           Pool(head, tail, free, entry, next, data, s, cs),
           NEW c \in Callers, Copying(cs[c]), NEW ds, OtherCall(cs, ds, c), ~Copying(ds[c]),
           NEW m, m = cs[c].cell, NEW x \in Nat, NEW h1, NEW e1, NEW n1, NEW d1, NEW s1,
           LastThen(h1, e1, n1, d1, s1, m, x, head, tail, entry, next, data, s)
    PROVE  Pool(h1, m, free, e1, n1, d1, s1, ds)
<1> USE DEF LastThen
<1>0. next \in [Cells -> Cells \cup {Null}] /\ data \in [Cells -> Nat] /\ Intact(cs, data)  BY DEF Pool
<1>1. PICK w, f : Queued(head, tail, entry, next, data, s, w) /\ Linked(next, free, f) /\ Apart(cs, w, f)
  BY DEF Pool
<1>2. m \in Cells /\ ~On(w, m) /\ ~On(f, m) /\ \A y : ~(On(w, y) /\ On(f, y))  BY <1>1 DEF Apart
<1>3. Linked(next, head, w) /\ tail = CellAt(w, Len(w))  BY <1>1 DEF Queued
<1>4. PICK n \in Nat : n = Len(w) /\ \A i \in 1..n : w[i] \in Cells  BY <1>3, CellFacts DEF Linked
<1>5. tail = Null \/ (tail \in Cells /\ On(w, tail))  BY <1>3, <1>4 DEF CellAt, On
<1>6. Extended(n1, next, tail, m)  BY <1>2, <1>5 DEF Extended
<1>7. PICK v : /\ Linked(n1, h1, v) /\ Len(v) = Len(w) + 1 /\ v[Len(v)] = m
               /\ \A i \in 1..Len(w) : v[i] = w[i]
               /\ \A y : On(v, y) <=> On(w, y) \/ y = m
  <2>1. PICK v : Linked(n1, IF head = Null THEN m ELSE head, v) /\ Behind(v, w, m)
    BY <1>2, <1>3, <1>6, LinkedBehind
  <2> QED  BY <2>1 DEF Behind
<1>8. Linked(n1, free, f)
  <2>1. ASSUME NEW y \in Cells, On(f, y) PROVE n1[y] = next[y]
    <3>1. y # m /\ y # tail  BY <2>1, <1>2, <1>5, MailAssumption DEF Cells
    <3> QED  BY <3>1
  <2> QED  BY <2>1, <1>1, LinkedStays
<1>9. Apart(ds, v, f)  BY <1>1, <1>2, <1>7, ApartGiven
<1>10. /\ d1 \in [Cells -> Nat] /\ Intact(ds, d1) /\ d1[m] = x
       /\ \A y \in Cells : y # m => d1[y] = data[y]
  <2>1. d1 \in [Cells -> Nat] /\ Intact(ds, d1) /\ Changed(d1, data, m, x)
    BY <1>0, <1>1, IntactSet
  <2> QED  BY <2>1 DEF Changed
<1>11. /\ s1 \in Seq(Nat) /\ Len(s1) = n + 1 /\ s1[n + 1] = x /\ Len(s) = n
       /\ \A i \in 1..n : s1[i] = s[i]
  <2>1. s \in Seq(Nat) /\ Len(s) = n  BY <1>1, <1>4 DEF Queued
  <2>2. /\ Append(s, x) \in Seq(Nat) /\ Len(Append(s, x)) = Len(s) + 1
        /\ Append(s, x)[Len(s) + 1] = x /\ \A i \in 1..Len(s) : Append(s, x)[i] = s[i]
    BY <2>1, AppendProperties
  <2> QED  BY <2>1, <2>2
<1>12. m = CellAt(v, Len(v))
  <2>1. Len(v) = n + 1 /\ n + 1 \in 1..(n + 1)  BY <1>4, <1>7
  <2> QED  BY <2>1, <1>7 DEF CellAt
<1>13. ASSUME NEW i \in 1..Len(v) PROVE d1[v[i]] = s1[i]
  <2>1. CASE i = n + 1  BY <2>1, <1>4, <1>7, <1>10, <1>11
  <2>2. CASE i # n + 1
    <3>1. i \in 1..n  BY <2>2, <1>4, <1>7
    <3>2. On(w, w[i])  BY <3>1, <1>4 DEF On
    <3>3. d1[w[i]] = data[w[i]]  BY <3>1, <3>2, <1>2, <1>4, <1>10
    <3>4. data[w[i]] = s[i]  BY <3>1, <1>1, <1>4 DEF Queued
    <3> QED  BY <3>1, <3>3, <3>4, <1>4, <1>7, <1>11
  <2> QED  BY <2>1, <2>2
<1>14. e1 = Len(v) /\ Len(s1) = Len(v)  BY <1>1, <1>4, <1>7, <1>11 DEF Queued
<1>15. Queued(h1, m, e1, n1, d1, s1, v)  BY <1>7, <1>11, <1>12, <1>13, <1>14 DEF Queued
<1>16. n1 \in [Cells -> Cells \cup {Null}]  BY <1>0, <1>2
<1> QED  BY <1>8, <1>9, <1>10, <1>15, <1>16 DEF Pool

\* rt_mq_recv unlinks the first cell.
UnlinkThen(h1, t1, e1, s1, q, head, tail, entry, next, s) ==
    /\ q.op = "mq_free" /\ q.cell = head /\ q.msg = Head(s)
    /\ h1 = next[head] /\ t1 = (IF tail = head THEN Null ELSE tail) /\ e1 = entry - 1 /\ s1 = Tail(s)

LEMMA PoolUnlink ==
    ASSUME NEW head, NEW tail, NEW free, NEW entry, NEW next, NEW data, NEW s, NEW cs,
           Pool(head, tail, free, entry, next, data, s, cs), entry > 0,
           NEW c \in Callers, ~Copying(cs[c]), NEW ds, OtherCall(cs, ds, c),
           NEW h1, NEW t1, NEW e1, NEW s1, UnlinkThen(h1, t1, e1, s1, ds[c], head, tail, entry, next, s)
    PROVE  Pool(h1, t1, free, e1, next, data, s1, ds)
<1> USE DEF UnlinkThen
<1>0. next \in [Cells -> Cells \cup {Null}] /\ data \in [Cells -> Nat] /\ Intact(cs, data)  BY DEF Pool
<1>1. PICK w, f : Queued(head, tail, entry, next, data, s, w) /\ Linked(next, free, f) /\ Apart(cs, w, f)
  BY DEF Pool
<1>2. /\ Linked(next, head, w) /\ tail = CellAt(w, Len(w)) /\ s \in Seq(Nat) /\ Len(s) = Len(w)
      /\ entry = Len(w) /\ \A i \in 1..Len(w) : data[w[i]] = s[i]
  BY <1>1 DEF Queued
<1>3. PICK n \in Nat : n = Len(w) /\ (\A i \in 1..n : w[i] \in Cells /\ CellAt(w, i) = w[i])
                       /\ head = CellAt(w, 1) /\ w \in Seq(Cells) /\ Once(w)
  BY <1>2, CellFacts DEF Linked
<1>4. n > 0 /\ 1 \in 1..n /\ n \in 1..n
  <2>1. n > 0  BY <1>2, <1>3
  <2> QED  BY <2>1
<1>5. head # Null  BY <1>3, <1>4, CellFacts
<1>6. head = w[1] /\ head \in Cells /\ On(w, head)  BY <1>2, <1>5, LinkedRest
<1>7. PICK v : /\ Linked(next, next[head], v) /\ Len(v) = n - 1
               /\ \A i \in 1..Len(v) : v[i] = w[i + 1] /\ i + 1 \in 1..n
               /\ \A x : On(v, x) <=> On(w, x) /\ x # head
  <2>1. PICK v : /\ Linked(next, next[head], v) /\ Len(v) = Len(w) - 1
                 /\ \A i \in 1..Len(v) : v[i] = w[i + 1] /\ i + 1 \in 1..Len(w)
                 /\ \A x : On(v, x) <=> On(w, x) /\ x # head
    BY <1>2, <1>5, LinkedRest
  <2> QED  BY <2>1, <1>3
<1>8. (\A x : ~(On(w, x) /\ On(f, x))) /\ Copying(ds[c])  BY <1>1 DEF Apart, Copying
<1>9. Apart(ds, v, f)
  <2>1. \A x : On(v, x) \/ On(f, x) <=> (On(w, x) \/ On(f, x)) /\ x # head  BY <1>6, <1>7, <1>8
  <2>2. \A x : ~(On(v, x) /\ On(f, x))  BY <1>7, <1>8
  <2> QED  BY <2>1, <2>2, <1>1, <1>6, <1>8, ApartTaken
<1>10. /\ Tail(s) \in Seq(Nat) /\ Len(Tail(s)) = n - 1 /\ Head(s) = s[1]
       /\ \A i \in 1..(n - 1) : Tail(s)[i] = s[i + 1]
  <2>1. s # <<>>
    <3>1. Len(s) # 0  BY <1>2, <1>3, <1>4
    <3> QED  BY <3>1, EmptySeq
  <2>2. Head(s) = s[1]  OBVIOUS
  <2> QED  BY <2>1, <2>2, <1>2, <1>3, HeadTailProperties
<1>11. Intact(ds, data)
  <2>1. ASSUME NEW d \in Callers, ds[d].op = "mq_free" PROVE data[ds[d].cell] = ds[d].msg
    <3>1. CASE d = c  BY <3>1, <1>2, <1>3, <1>4, <1>6, <1>10
    <3>2. CASE d # c
      <4>1. ds[d] = cs[d]  BY <3>2 DEF OtherCall
      <4> QED  BY <4>1, <2>1, <1>0 DEF Intact
    <3> QED  BY <3>1, <3>2
  <2> QED  BY <2>1 DEF Intact
<1>12. t1 = CellAt(v, Len(v))
  <2>1. tail = w[n]  BY <1>2, <1>3, <1>4
  <2>2. CASE n = 1
    <3>1. tail = head /\ Len(v) = 0  BY <2>1, <2>2, <1>6, <1>7
    <3> QED  BY <3>1 DEF CellAt
  <2>3. CASE n # 1
    <3>1. PICK k \in Nat : k = n - 1 /\ k + 1 = n /\ k \in 1..k  BY <2>3, <1>4
    <3>2. Len(v) = k /\ v[k] = w[n]  BY <3>1, <1>7
    <3>3. tail # head  BY <2>1, <2>3, <1>3, <1>4, <1>6 DEF Once
    <3> QED  BY <3>1, <3>2, <3>3, <2>1 DEF CellAt
  <2> QED  BY <2>2, <2>3
<1>13. \A i \in 1..Len(v) : data[v[i]] = Tail(s)[i]  BY <1>2, <1>3, <1>7, <1>10
<1>14. e1 = Len(v) /\ Len(Tail(s)) = Len(v)  BY <1>2, <1>3, <1>7, <1>10
<1>15. Queued(next[head], t1, e1, next, data, Tail(s), v)
  BY <1>7, <1>10, <1>12, <1>13, <1>14 DEF Queued
<1> QED  BY <1>0, <1>1, <1>9, <1>11, <1>15 DEF Pool

\* rt_mq_recv puts the cell it has copied before the first free one.
LEMMA PoolFree ==
    ASSUME NEW head, NEW tail, NEW free, NEW entry, NEW next, NEW data, NEW s, NEW cs,
           Pool(head, tail, free, entry, next, data, s, cs),
           NEW c \in Callers, Copying(cs[c]), NEW ds, OtherCall(cs, ds, c), ~Copying(ds[c]),
           NEW m, m = cs[c].cell, NEW n1, n1 = [next EXCEPT ![m] = free]
    PROVE  Pool(head, tail, m, entry, n1, data, s, ds)
<1>0. next \in [Cells -> Cells \cup {Null}] /\ data \in [Cells -> Nat] /\ Intact(cs, data)  BY DEF Pool
<1>1. PICK w, f : Queued(head, tail, entry, next, data, s, w) /\ Linked(next, free, f) /\ Apart(cs, w, f)
  BY DEF Pool
<1>2. m \in Cells /\ ~On(w, m) /\ ~On(f, m) /\ \A y : ~(On(w, y) /\ On(f, y))  BY <1>1 DEF Apart
<1>3. n1[m] = free /\ \A y \in Cells : y # m => n1[y] = next[y]  BY <1>0, <1>2
<1>4. PICK g : Linked(n1, m, g) /\ \A y : On(g, y) <=> On(f, y) \/ y = m
  <2>1. Changed(n1, next, m, free)  BY <1>3 DEF Changed
  <2>2. PICK g : Linked(n1, m, g) /\ Before(g, m, f)  BY <2>1, <1>1, <1>2, LinkedBefore
  <2> QED  BY <2>2 DEF Before
<1>5. Linked(n1, head, w)
  <2>1. \A y \in Cells : On(w, y) => n1[y] = next[y]  BY <1>2, <1>3
  <2>2. Linked(next, head, w)  BY <1>1 DEF Queued
  <2> QED  BY <2>1, <2>2, LinkedStays
<1>6. Queued(head, tail, entry, n1, data, s, w)  BY <1>1, <1>5 DEF Queued
<1>7. Apart(ds, w, g)  BY <1>1, <1>2, <1>4, ApartGiven
<1>8. Intact(ds, data)
  <2>1. ASSUME NEW d \in Callers, ds[d].op = "mq_free" PROVE data[ds[d].cell] = ds[d].msg
    <3>1. ds[d] = cs[d]  BY <2>1 DEF OtherCall, Copying
    <3> QED  BY <3>1, <2>1, <1>0 DEF Intact
  <2> QED  BY <2>1 DEF Intact
<1>9. n1 \in [Cells -> Cells \cup {Null}]
  <2>1. f \in Seq(Cells) /\ free = CellAt(f, 1)  BY <1>1 DEF Linked
  <2>2. free \in Cells \cup {Null}  BY <2>1, CellFacts DEF CellAt
  <2> QED  BY <2>2, <1>0
<1> QED  BY <1>0, <1>4, <1>6, <1>7, <1>8, <1>9 DEF Pool

\* rt_mq_control(RT_IPC_CMD_RESET) puts the linked cells on the free list.
ResetThen(t1, f1, n1, w, tail, free, next) ==
    /\ t1 = (IF w # <<>> /\ w[Len(w)] = tail THEN Null ELSE tail)
    /\ f1 = (IF w = <<>> THEN free ELSE w[Len(w)])
    /\ n1 = [m \in Cells |->
               IF \E i \in 1..Len(w) : w[i] = m
                 THEN LET i == CHOOSE k \in 1..Len(w) : w[k] = m IN
                      IF i = 1 THEN free ELSE w[i - 1]
                 ELSE next[m]]

LEMMA PoolReset ==
    ASSUME NEW head, NEW tail, NEW free, NEW entry, NEW next, NEW data, NEW s, NEW cs,
           Pool(head, tail, free, entry, next, data, s, cs),
           NEW w, Linked(next, head, w),
           NEW t1, NEW f1, NEW n1, ResetThen(t1, f1, n1, w, tail, free, next)
    PROVE  Pool(Null, t1, f1, 0, n1, data, <<>>, cs)
<1> USE DEF ResetThen
<1>0. next \in [Cells -> Cells \cup {Null}] /\ data \in [Cells -> Nat] /\ Intact(cs, data)  BY DEF Pool
<1>1. PICK u, f : Queued(head, tail, entry, next, data, s, u) /\ Linked(next, free, f) /\ Apart(cs, u, f)
  BY DEF Pool
<1>2. u = w
  <2>1. Linked(next, head, u)  BY <1>1 DEF Queued
  <2> QED  BY <2>1, LinkedOnce
<1>3. /\ w \in Seq(Cells) /\ Once(w) /\ head = CellAt(w, 1) /\ tail = CellAt(w, Len(w))
      /\ \A x : ~(On(w, x) /\ On(f, x))
  BY <1>1, <1>2 DEF Linked, Queued, Apart
<1>4. PICK n \in Nat : n = Len(w) /\ (\A i \in 1..n : w[i] \in Cells) /\ (w = <<>> <=> n = 0)
  BY <1>3, CellFacts
<1>5. \A i \in 1..n : n1[w[i]] = IF i = 1 THEN free ELSE w[i - 1]
  <2>1. SUFFICES ASSUME NEW i \in 1..n PROVE n1[w[i]] = IF i = 1 THEN free ELSE w[i - 1]
    OBVIOUS
  <2>2. w[i] \in Cells /\ \E k \in 1..Len(w) : w[k] = w[i]  BY <1>4
  <2>3. PICK k : k = CHOOSE j \in 1..Len(w) : w[j] = w[i]  OBVIOUS
  <2>4. k \in 1..Len(w) /\ w[k] = w[i]  BY <2>2, <2>3
  <2>5. k = i  BY <2>4, <1>3, <1>4 DEF Once
  <2> QED  BY <2>2, <2>3, <2>5
<1>6. \A x \in Cells : ~On(w, x) => n1[x] = next[x]  BY DEF On
<1>7. \A x \in Cells : On(f, x) => n1[x] = next[x]  BY <1>3, <1>6
<1>8. t1 = Null
  <2>1. CASE n = 0
    <3>1. n \notin 1..n  BY <2>1
    <3> QED  BY <3>1, <2>1, <1>3, <1>4 DEF CellAt
  <2>2. CASE n # 0
    <3>1. n \in 1..n  BY <2>2
    <3> QED  BY <3>1, <2>2, <1>3, <1>4 DEF CellAt
  <2> QED  BY <2>1, <2>2
<1>9. \E v : Linked(n1, f1, v) /\ \A x : On(v, x) <=> On(w, x) \/ On(f, x)
  <2>1. CASE w = <<>>
    <3>1. Linked(n1, free, f)  BY <1>1, <1>7, LinkedStays
    <3>2. \A x : ~On(w, x)
      <4>1. ~ \E i \in 1..0 : TRUE  OBVIOUS
      <4> QED  BY <4>1, <2>1, <1>4 DEF On
    <3> QED  BY <3>1, <3>2, <2>1
  <2>2. CASE w # <<>>
    <3>1. f1 = w[Len(w)]  BY <2>2
    <3>2. Reversing(n1, next, free, w, f)  BY <1>3, <1>4, <1>5, <1>7 DEF Reversing
    <3>3. \E v : Linked(n1, w[Len(w)], v) /\ Joined(v, w, f)
      BY <3>2, <2>2, <1>1, LinkedReversed
    <3> QED  BY <3>1, <3>3 DEF Joined
  <2> QED  BY <2>1, <2>2
<1>10. PICK v : Linked(n1, f1, v) /\ \A x : On(v, x) <=> On(w, x) \/ On(f, x)  BY <1>9
<1>11. <<>> \in Seq(Cells) /\ <<>> \in Seq(Nat) /\ Len(<<>>) = 0 /\ \A x : ~On(<<>>, x)
  <2>1. ~ \E i \in 1..0 : TRUE  OBVIOUS
  <2> QED  BY <2>1 DEF On
<1>12. PICK e : e = <<>>  OBVIOUS
<1>13. /\ e \in Seq(Cells) /\ Len(e) = 0 /\ (\A x : ~On(e, x)) /\ 1 \notin 1..0 /\ 0 \notin 1..0
       /\ ~ \E i \in 1..0 : TRUE
  BY <1>11, <1>12
<1>14. Linked(n1, Null, e)  BY <1>13 DEF Linked, CellAt, Once
<1>15. Queued(Null, t1, 0, n1, data, <<>>, e)
  <2>1. t1 = CellAt(e, Len(e))  BY <1>8, <1>13 DEF CellAt
  <2>2. \A i \in 1..Len(e) : data[e[i]] = <<>>[i]  BY <1>13
  <2> QED  BY <2>1, <2>2, <1>11, <1>12, <1>13, <1>14 DEF Queued
<1>16. Apart(cs, e, v)
  <2>1. SameCopies(cs, cs)  BY DEF SameCopies
  <2>2. \A x : ~(On(e, x) /\ On(v, x))  BY <1>13
  <2>3. \A x : On(e, x) \/ On(v, x) <=> On(w, x) \/ On(f, x)  BY <1>10, <1>13
  <2> QED  BY <2>1, <2>2, <2>3, <1>1, <1>2, ApartSame
<1>17. n1 \in [Cells -> Cells \cup {Null}]
  <2>1. ASSUME NEW x \in Cells PROVE n1[x] \in Cells \cup {Null}
    <3>1. CASE On(w, x)
      <4>1. PICK i \in 1..n : w[i] = x  BY <3>1, <1>4 DEF On
      <4>2. free \in Cells \cup {Null}
        <5>1. f \in Seq(Cells) /\ free = CellAt(f, 1)  BY <1>1 DEF Linked
        <5> QED  BY <5>1, CellFacts DEF CellAt
      <4>3. i # 1 => i - 1 \in 1..n  BY <4>1
      <4> QED  BY <4>1, <4>2, <4>3, <1>4, <1>5
    <3>2. CASE ~On(w, x)  BY <3>2, <1>0, <1>6
    <3> QED  BY <3>1, <3>2
  <2> QED  BY <2>1
<1> QED  BY <1>0, <1>10, <1>15, <1>16, <1>17 DEF Pool

-----------------------------------------------------------------------------
(* The steps of the queue.                                                 *)

\* What the steps make of mq.
LEMMA MqThen ==
    ASSUME MqShape(mq), NEW r
    PROVE  /\ r = [mq EXCEPT !.free = mq.next[@]]
                => IsMq(r, mq.head, mq.tail, mq.next[mq.free], mq.entry, mq.next, mq.data)
           /\ \A m : r = LinkLast(m)
                => IsMq(r, IF mq.head = Null THEN m ELSE mq.head, m, mq.free, mq.entry + 1,
                        [c \in Cells |-> IF c = m THEN Null ELSE IF c = mq.tail THEN m ELSE mq.next[c]],
                        [mq.data EXCEPT ![m] = sent + 1])
           /\ \A m : r = LinkFirst(m)
                => IsMq(r, m, IF mq.tail = Null THEN m ELSE mq.tail, mq.free, mq.entry + 1,
                        [mq.next EXCEPT ![m] = mq.head], [mq.data EXCEPT ![m] = sent + 1])
           /\ r = [mq EXCEPT !.head = mq.next[@], !.entry = @ - 1, !.tail = IF @ = mq.head THEN Null ELSE @]
                => IsMq(r, mq.next[mq.head], IF mq.tail = mq.head THEN Null ELSE mq.tail, mq.free,
                        mq.entry - 1, mq.next, mq.data)
           /\ \A m : r = [mq EXCEPT !.next[m] = mq.free, !.free = m]
                => IsMq(r, mq.head, mq.tail, m, mq.entry, [mq.next EXCEPT ![m] = mq.free], mq.data)
           /\ \A tail, free, next :
                 r = [mq EXCEPT !.head = Null, !.entry = 0, !.tail = tail, !.free = free, !.next = next]
                   => IsMq(r, Null, tail, free, 0, next, mq.data)
<1>1. PICK e, h, t, f, n, d : IsMq(mq, h, t, f, e, n, d)  BY DEF MqShape
<1>2. /\ mq.head = h /\ mq.tail = t /\ mq.free = f /\ mq.entry = e /\ mq.next = n /\ mq.data = d
  BY <1>1 DEF IsMq
<1>3. ASSUME r = [mq EXCEPT !.free = mq.next[@]]
      PROVE  IsMq(r, mq.head, mq.tail, mq.next[mq.free], mq.entry, mq.next, mq.data)
  BY <1>1, <1>2, <1>3 DEF IsMq
<1>4. ASSUME NEW m, r = LinkLast(m)
      PROVE  IsMq(r, IF mq.head = Null THEN m ELSE mq.head, m, mq.free, mq.entry + 1,
                  [c \in Cells |-> IF c = m THEN Null ELSE IF c = mq.tail THEN m ELSE mq.next[c]],
                  [mq.data EXCEPT ![m] = sent + 1])
  BY <1>1, <1>2, <1>4 DEF IsMq, LinkLast
<1>5. ASSUME NEW m, r = LinkFirst(m)
      PROVE  IsMq(r, m, IF mq.tail = Null THEN m ELSE mq.tail, mq.free, mq.entry + 1,
                  [mq.next EXCEPT ![m] = mq.head], [mq.data EXCEPT ![m] = sent + 1])
  BY <1>1, <1>2, <1>5 DEF IsMq, LinkFirst
<1>6. ASSUME r = [mq EXCEPT !.head = mq.next[@], !.entry = @ - 1, !.tail = IF @ = mq.head THEN Null ELSE @]
      PROVE  IsMq(r, mq.next[mq.head], IF mq.tail = mq.head THEN Null ELSE mq.tail, mq.free,
                  mq.entry - 1, mq.next, mq.data)
  BY <1>1, <1>2, <1>6 DEF IsMq
<1>7. ASSUME NEW m, r = [mq EXCEPT !.next[m] = mq.free, !.free = m]
      PROVE  IsMq(r, mq.head, mq.tail, m, mq.entry, [mq.next EXCEPT ![m] = mq.free], mq.data)
  BY <1>1, <1>2, <1>7 DEF IsMq
<1>8. ASSUME NEW tail, NEW free, NEW next,
             r = [mq EXCEPT !.head = Null, !.entry = 0, !.tail = tail, !.free = free, !.next = next]
      PROVE  IsMq(r, Null, tail, free, 0, next, mq.data)
  BY <1>1, <1>2, <1>8 DEF IsMq
<1> QED  BY <1>3, <1>4, <1>5, <1>6, <1>7, <1>8

MqPool(q, s, cs) == Pool(q.head, q.tail, q.free, q.entry, q.next, q.data, s, cs)

LEMMA PoolIs ==
    ASSUME NEW q, NEW head, NEW tail, NEW free, NEW entry, NEW next, NEW data, NEW s, NEW cs,
           IsMq(q, head, tail, free, entry, next, data), Pool(head, tail, free, entry, next, data, s, cs)
    PROVE  MqPool(q, s, cs)
<1>1. /\ q.head = head /\ q.tail = tail /\ q.free = free /\ q.entry = entry /\ q.next = next /\ q.data = data
  BY DEF IsMq
<1> QED  BY <1>1 DEF MqPool

LEMMA CallSet ==
    ASSUME Core, NEW c \in Callers, NEW v, NEW ds, ds = [call EXCEPT ![c] = v]
    PROVE  ds[c] = v /\ OtherCall(call, ds, c) /\ (~Copying(call[c]) /\ ~Copying(v) => SameCopies(call, ds))
<1>1. PICK cs : cs = call  OBVIOUS
<1>2. cs = [x \in Callers |-> cs[x]]  BY <1>1 DEF Core, ListInv, Shapes
<1>3. ds[c] = v /\ \A x \in Callers : x # c => ds[x] = cs[x]  BY <1>1, <1>2
<1> QED  BY <1>1, <1>3 DEF OtherCall, SameCopies

LEMMA NoCopy ==
    ASSUME NEW c, c.op \notin {"mq_link", "mq_free"}
    PROVE  ~Copying(c)
  BY DEF Copying

LEMMA SendPool ==
    ASSUME Core, MqShape(mq), MqPool(mq, queue, call), NEW c \in Callers, NEW urgent, MqSend(c, urgent),
           NEW r, r = mq', NEW ds, ds = call'
    PROVE  MqPool(r, queue, ds)
<1>1. PICK q : q = [op |-> "mq_link", cell |-> mq.free, urgent |-> urgent]  OBVIOUS
<1>2. q.op = "mq_link" /\ q.cell = mq.free  BY <1>1
<1>3. /\ call[c].op = "none" /\ mq.free # Null /\ r = [mq EXCEPT !.free = mq.next[@]]
      /\ ds = [call EXCEPT ![c] = q]
  BY <1>1 DEF MqSend, Idle
<1>4. ds[c] = q /\ OtherCall(call, ds, c)  BY <1>3, CallSet
<1>5. ~Copying(call[c])  BY <1>3 DEF Copying
<1>6. IsMq(r, mq.head, mq.tail, mq.next[mq.free], mq.entry, mq.next, mq.data)  BY <1>3, MqThen
<1>7. Pool(mq.head, mq.tail, mq.next[mq.free], mq.entry, mq.next, mq.data, queue, ds)
  BY <1>2, <1>3, <1>4, <1>5, PoolSend DEF MqPool
<1> QED  BY <1>6, <1>7, PoolIs

LEMMA LinkPool ==
    ASSUME Core, MqShape(mq), MqPool(mq, queue, call), NEW c \in Callers, MqLink(c), sent \in Nat,
           NEW r, r = mq', NEW ds, ds = call', NEW s1, s1 = queue'
    PROVE  MqPool(r, s1, ds)
<1>0. PICK m : m = call[c].cell  OBVIOUS
<1>1. PICK x \in Nat : m = call[c].cell /\ x = sent + 1
  <2>1. sent + 1 \in Nat  OBVIOUS
  <2> QED  BY <2>1, <1>0
<1>2. call[c].op = "mq_link" /\ ds = [call EXCEPT ![c] = NoCall]  BY DEF MqLink, Return
<1>3. Copying(call[c]) /\ ~Copying(NoCall)  BY <1>2 DEF Copying, NoCall
<1>4. ds[c] = NoCall /\ OtherCall(call, ds, c)  BY <1>2, CallSet
<1>5. CASE call[c].urgent
  <2>1. r = LinkFirst(m) /\ s1 = <<x>> \o queue  BY <1>1, <1>5 DEF MqLink
  <2>2. PICK t1, e1, n1, d1 :
           /\ t1 = (IF mq.tail = Null THEN m ELSE mq.tail) /\ e1 = mq.entry + 1
           /\ n1 = [mq.next EXCEPT ![m] = mq.head] /\ d1 = [mq.data EXCEPT ![m] = x]
    OBVIOUS
  <2>3. IsMq(r, m, t1, mq.free, e1, n1, d1)  BY <2>1, <2>2, <1>1, MqThen
  <2>4. Pool(m, t1, mq.free, e1, n1, d1, s1, ds)
    <3>1. UrgentThen(t1, e1, n1, d1, s1, m, x, mq.head, mq.tail, mq.entry, mq.next, mq.data, queue)
      BY <2>1, <2>2 DEF UrgentThen
    <3> QED  BY <3>1, <1>1, <1>3, <1>4, PoolUrgent DEF MqPool
  <2> QED  BY <2>3, <2>4, PoolIs
<1>6. CASE ~call[c].urgent
  <2>1. r = LinkLast(m) /\ s1 = Append(queue, x)  BY <1>1, <1>6 DEF MqLink
  <2>2. PICK h1, e1, n1, d1 :
           /\ h1 = (IF mq.head = Null THEN m ELSE mq.head) /\ e1 = mq.entry + 1
           /\ n1 = [y \in Cells |-> IF y = m THEN Null ELSE IF y = mq.tail THEN m ELSE mq.next[y]]
           /\ d1 = [mq.data EXCEPT ![m] = x]
    OBVIOUS
  <2>3. IsMq(r, h1, m, mq.free, e1, n1, d1)  BY <2>1, <2>2, <1>1, MqThen
  <2>4. Pool(h1, m, mq.free, e1, n1, d1, s1, ds)
    <3>1. LastThen(h1, e1, n1, d1, s1, m, x, mq.head, mq.tail, mq.entry, mq.next, mq.data, queue)
      BY <2>1, <2>2 DEF LastThen
    <3> QED  BY <3>1, <1>1, <1>3, <1>4, PoolLast DEF MqPool
  <2> QED  BY <2>3, <2>4, PoolIs
<1> QED  BY <1>5, <1>6

LEMMA UnlinkPool ==
    ASSUME Core, MqShape(mq), MqPool(mq, queue, call), NEW c \in Callers, ~Copying(call[c]),
           mq.entry > 0, Unlink(c), NEW r, r = mq', NEW ds, ds = call', NEW s1, s1 = queue'
    PROVE  MqPool(r, s1, ds)
<1>1. PICK q : q = [op |-> "mq_free", cell |-> mq.head, msg |-> Head(queue)]  OBVIOUS
<1>2. q.op = "mq_free" /\ q.cell = mq.head /\ q.msg = Head(queue)  BY <1>1
<1>3. /\ r = [mq EXCEPT !.head = mq.next[@], !.entry = @ - 1, !.tail = IF @ = mq.head THEN Null ELSE @]
      /\ ds = [call EXCEPT ![c] = q] /\ s1 = Tail(queue)
  BY <1>1 DEF Unlink
<1>4. ds[c] = q /\ OtherCall(call, ds, c)  BY <1>3, CallSet
<1>5. PICK h1, t1, e1 : /\ h1 = mq.next[mq.head] /\ e1 = mq.entry - 1
                        /\ t1 = (IF mq.tail = mq.head THEN Null ELSE mq.tail)
  OBVIOUS
<1>6. IsMq(r, h1, t1, mq.free, e1, mq.next, mq.data)  BY <1>3, <1>5, MqThen
<1>7. Pool(h1, t1, mq.free, e1, mq.next, mq.data, s1, ds)
  <2>1. UnlinkThen(h1, t1, e1, s1, ds[c], mq.head, mq.tail, mq.entry, mq.next, queue)
    BY <1>2, <1>3, <1>4, <1>5 DEF UnlinkThen
  <2> QED  BY <2>1, <1>4, PoolUnlink DEF MqPool
<1> QED  BY <1>6, <1>7, PoolIs

LEMMA FreePool ==
    ASSUME Core, MqShape(mq), MqPool(mq, queue, call), NEW c \in Callers, MqFree(c),
           NEW r, r = mq', NEW ds, ds = call'
    PROVE  MqPool(r, queue, ds)
<1>1. PICK m, n1 : m = call[c].cell /\ n1 = [mq.next EXCEPT ![m] = mq.free]  OBVIOUS
<1>2. /\ call[c].op = "mq_free" /\ ds = [call EXCEPT ![c] = NoCall]
      /\ r = [mq EXCEPT !.next[m] = mq.free, !.free = m]
  BY <1>1 DEF MqFree, Return
<1>3. Copying(call[c]) /\ ~Copying(NoCall)  BY <1>2 DEF Copying, NoCall
<1>4. ds[c] = NoCall /\ OtherCall(call, ds, c)  BY <1>2, CallSet
<1>5. IsMq(r, mq.head, mq.tail, m, mq.entry, n1, mq.data)  BY <1>1, <1>2, MqThen
<1>6. Pool(mq.head, mq.tail, m, mq.entry, n1, mq.data, queue, ds)
  BY <1>1, <1>3, <1>4, PoolFree DEF MqPool
<1> QED  BY <1>5, <1>6, PoolIs

LEMMA ResetPool ==
    ASSUME MqShape(mq), MqPool(mq, queue, call), NEW c, MqReset(c), NEW r, r = mq'
    PROVE  MqPool(r, <<>>, call)
<1>1. PICK w, f : Linked(mq.next, mq.head, w)  BY DEF MqPool, Pool, Queued
<1>2. Chain(mq.head) = w  BY <1>1, ChainIs
<1>3. PICK t1, f1, n1 :
         /\ t1 = (IF w # <<>> /\ w[Len(w)] = mq.tail THEN Null ELSE mq.tail)
         /\ f1 = (IF w = <<>> THEN mq.free ELSE w[Len(w)])
         /\ n1 = [m \in Cells |->
                    IF \E i \in 1..Len(w) : w[i] = m
                      THEN LET i == CHOOSE k \in 1..Len(w) : w[k] = m IN
                           IF i = 1 THEN mq.free ELSE w[i - 1]
                      ELSE mq.next[m]]
  OBVIOUS
<1>4. r = [mq EXCEPT !.head = Null, !.entry = 0, !.tail = t1, !.free = f1, !.next = n1]
  BY <1>2, <1>3 DEF MqReset
<1>5. IsMq(r, Null, t1, f1, 0, n1, mq.data)  BY <1>4, MqThen
<1>6. Pool(Null, t1, f1, 0, n1, mq.data, <<>>, call)
  <2>1. ResetThen(t1, f1, n1, w, mq.tail, mq.free, mq.next)  BY <1>3 DEF ResetThen
  <2> QED  BY <2>1, <1>1, PoolReset DEF MqPool
<1> QED  BY <1>5, <1>6, PoolIs

\* The queue's cells, whatever kind of object the behaviour is about.
LinkInv == MqPool(mq, queue, call) /\ (kind = "mq" => sent \in Nat)

LEMMA InitLinkInv == Init => LinkInv
<1>1. SUFFICES ASSUME Init PROVE LinkInv
  OBVIOUS
<1>2. PICK next, data : /\ next = [c \in Cells |-> IF c = 1 THEN Null ELSE c - 1]
                        /\ data = [c \in Cells |-> 0]
  OBVIOUS
<1>3. IsMq(mq, Null, Null, MqMax, 0, next, data) /\ queue = <<>> /\ sent = 0
  BY <1>1, <1>2 DEF Init, InitMail, InitMq, IsMq
<1>4. PICK n \in Nat : n = MqMax /\ n # 0 /\ Cells = 1..n /\ Null \notin Cells
  BY MailAssumption DEF Cells
<1>5. PICK f : f = [i \in 1..n |-> n + 1 - i]  OBVIOUS
<1>6. \A i \in 1..n : f[i] = n + 1 - i /\ f[i] \in Cells  BY <1>4, <1>5
<1>7. f \in Seq(Cells) /\ Len(f) = n
  <2>1. f = [i \in 1..n |-> f[i]]  BY <1>5
  <2> QED  BY <2>1, <1>6, CellList
<1>8. Once(f)
  <2>1. \A i, j \in 1..n : n + 1 - i = n + 1 - j => i = j  OBVIOUS
  <2> QED  BY <2>1, <1>6, <1>7 DEF Once
<1>9. MqMax = CellAt(f, 1)
  <2>1. 1 \in 1..n /\ n + 1 - 1 = n  BY <1>4
  <2> QED  BY <2>1, <1>4, <1>6, <1>7 DEF CellAt
<1>10. ASSUME NEW i \in 1..n PROVE next[f[i]] = CellAt(f, i + 1)
  <2>1. CASE i = n
    <3>1. f[i] = 1 /\ 1 \in Cells /\ i + 1 \notin 1..n
      <4>1. n + 1 - n = 1 /\ 1 \in 1..n /\ n + 1 \notin 1..n  BY <1>4
      <4> QED  BY <4>1, <2>1, <1>4, <1>6
    <3> QED  BY <3>1, <1>2, <1>7 DEF CellAt
  <2>2. CASE i # n
    <3>1. i + 1 \in 1..n /\ n + 1 - (i + 1) = (n + 1 - i) - 1 /\ n + 1 - i # 1  BY <2>2
    <3>2. f[i + 1] = f[i] - 1 /\ f[i] # 1 /\ f[i] \in Cells  BY <3>1, <1>6
    <3> QED  BY <3>1, <3>2, <1>2, <1>7 DEF CellAt
  <2> QED  BY <2>1, <2>2
<1>11. Linked(next, MqMax, f)  BY <1>7, <1>8, <1>9, <1>10 DEF Linked
<1>12. PICK w : w = <<>>  OBVIOUS
<1>13. /\ w \in Seq(Cells) /\ w \in Seq(Nat) /\ Len(w) = 0 /\ queue = w
       /\ 1 \notin 1..0 /\ 0 \notin 1..0 /\ ~ \E i \in 1..0 : TRUE
  BY <1>3, <1>12
<1>14. Linked(next, Null, w)  BY <1>13 DEF Linked, CellAt, Once
<1>15. Queued(Null, Null, 0, next, data, queue, w)  BY <1>13, <1>14 DEF Queued, CellAt
<1>16. \A c \in Callers : call[c].op = "none"  BY <1>1 DEF Init, InitThreads, NoCall
<1>17. Apart(call, w, f)
  <2>1. \A x : ~On(w, x)  BY <1>13 DEF On
  <2>2. \A c \in Callers : ~Copying(call[c])  BY <1>16 DEF Copying
  <2>3. ASSUME NEW x \in Cells PROVE On(f, x)
    <3>1. n + 1 - x \in 1..n /\ n + 1 - (n + 1 - x) = x  BY <1>4
    <3> QED  BY <3>1, <1>6, <1>7 DEF On
  <2> QED  BY <2>1, <2>2, <2>3 DEF Apart
<1>18. Intact(call, data)  BY <1>16 DEF Intact
<1>19. next \in [Cells -> Cells \cup {Null}] /\ data \in [Cells -> Nat]
  <2>1. \A c \in 1..n : c # 1 => c - 1 \in 1..n  OBVIOUS
  <2> QED  BY <2>1, <1>2, <1>4
<1>20. Pool(Null, Null, MqMax, 0, next, data, queue, call)
  BY <1>11, <1>15, <1>17, <1>18, <1>19 DEF Pool
<1> QED  BY <1>3, <1>20, PoolIs DEF LinkInv

\* Only the calls of the queue copy.
LEMMA LinkStays ==
    ASSUME LinkInv, NEW ds, ds = call', SameCopies(call, ds), UNCHANGED <<mq, queue>>,
           kind' = "mq" => sent' \in Nat
    PROVE  LinkInv'
<1>1. MqPool(mq, queue, ds)  BY PoolSame DEF LinkInv, MqPool
<1>2. MqPool(mq, queue, call)'
  <2>1. PICK q, s : q = mq /\ s = queue /\ q = mq' /\ s = queue'  OBVIOUS
  <2>2. MqPool(q, s, ds)  BY <2>1, <1>1
  <2> QED  BY <2>1, <2>2
<1> QED  BY <1>2 DEF LinkInv

\* The rest of a call to receive: a cell is unlinked, or nothing is copied.
LEMMA RecvLinks ==
    ASSUME Core, MqShape(mq), LinkInv, kind = "mq", UNCHANGED <<kind, sent>>,
           NEW c \in Callers, ~Copying(call[c]), NEW time,
           \/ MqRecvLoop(c, time)
           \/ Return(c) /\ UNCHANGED <<mq, queue>>
    PROVE  LinkInv'
<1>1. PICK r, ds, s1 : r = mq' /\ ds = call' /\ s1 = queue'  OBVIOUS
<1>2. CASE mq.entry > 0 /\ Unlink(c)
  <2>1. MqPool(r, s1, ds)  BY <1>1, <1>2, UnlinkPool DEF LinkInv
  <2> QED  BY <2>1, <1>1 DEF LinkInv
<1>3. CASE Suspend(c, "mq", [op |-> "mq_recv", time |-> time], time) /\ UNCHANGED <<mq, queue>>
  <2>1. PICK q : q = [op |-> "mq_recv", time |-> time]  OBVIOUS
  <2>2. ds = [call EXCEPT ![c] = q]  BY <2>1, <1>1, <1>3 DEF Suspend
  <2>3. ~Copying(q)  BY <2>1 DEF Copying
  <2>4. SameCopies(call, ds)  BY <2>2, <2>3, CallSet
  <2> QED  BY <2>4, <1>1, <1>3, LinkStays DEF LinkInv
<1>4. CASE Return(c) /\ UNCHANGED <<mq, queue>>
  <2>1. ds = [call EXCEPT ![c] = NoCall] /\ ~Copying(NoCall)
    BY <1>1, <1>4 DEF Return, Copying, NoCall
  <2>2. SameCopies(call, ds)  BY <2>1, CallSet
  <2> QED  BY <2>2, <1>1, <1>4, LinkStays DEF LinkInv
<1> QED  BY <1>2, <1>3, <1>4 DEF MqRecvLoop

LEMMA MqLinks ==
    ASSUME Core, MqShape(mq), LinkInv, kind = "mq", UNCHANGED kind, MqNext
    PROVE  LinkInv'
<1>1. PICK r, ds, s1 : r = mq' /\ ds = call' /\ s1 = queue'  OBVIOUS
<1>2. MqPool(mq, queue, call) /\ sent \in Nat /\ \A t \in Thread : t \in Callers
  BY DEF LinkInv, Callers
<1>3. ASSUME NEW c \in Callers, NEW urgent \in BOOLEAN, MqSend(c, urgent) PROVE LinkInv'
  <2>1. UNCHANGED <<queue, sent>>  BY <1>3 DEF MqSend
  <2>2. MqPool(r, queue, ds)  BY <1>1, <1>2, <1>3, SendPool
  <2> QED  BY <2>1, <2>2, <1>1, <1>2 DEF LinkInv
<1>4. ASSUME NEW c \in Callers, MqLink(c) PROVE LinkInv'
  <2>1. sent' = sent + 1  BY <1>4 DEF MqLink
  <2>2. sent' \in Nat  BY <2>1, <1>2
  <2>3. MqPool(r, s1, ds)  BY <1>1, <1>2, <1>4, LinkPool
  <2> QED  BY <2>2, <2>3, <1>1 DEF LinkInv
<1>5. ASSUME NEW c \in Callers, NEW time \in Times, MqRecv(c, time) PROVE LinkInv'
  <2>1. call[c].op = "none" /\ MqRecvLoop(c, time) /\ UNCHANGED sent  BY <1>5 DEF MqRecv, Idle
  <2>2. ~Copying(call[c])  BY <2>1 DEF Copying
  <2> QED  BY <2>1, <2>2, RecvLinks
<1>6. ASSUME NEW t \in Thread, MqRecvResumed(t) PROVE LinkInv'
  <2>1. call[t].op = "mq_recv" /\ UNCHANGED sent  BY <1>6 DEF MqRecvResumed, Resumed
  <2>2. ~Copying(call[t]) /\ t \in Callers  BY <2>1, <1>2 DEF Copying
  <2>3. CASE Return(t) /\ UNCHANGED <<mq, queue>>
    <3>1. \E time : Return(t) /\ UNCHANGED <<mq, queue>>  BY <2>3
    <3> QED  BY <2>1, <2>2, <2>3, RecvLinks
  <2>4. ASSUME NEW time, MqRecvLoop(t, time) PROVE LinkInv'
    BY <2>1, <2>2, <2>4, RecvLinks
  <2> QED  BY <2>3, <2>4, <1>6 DEF MqRecvResumed
<1>7. ASSUME NEW c \in Callers, MqFree(c) PROVE LinkInv'
  <2>1. UNCHANGED <<queue, sent>>  BY <1>7 DEF MqFree
  <2>2. MqPool(r, queue, ds)  BY <1>1, <1>2, <1>7, FreePool
  <2> QED  BY <2>1, <2>2, <1>1, <1>2 DEF LinkInv
<1>8. ASSUME NEW c \in Callers, MqReset(c) PROVE LinkInv'
  <2>1. UNCHANGED <<call, sent>> /\ s1 = <<>>  BY <1>1, <1>8 DEF MqReset
  <2>2. MqPool(r, <<>>, call)  BY <1>1, <1>2, <1>8, ResetPool
  <2>3. MqPool(r, s1, ds)  BY <2>1, <2>2, <1>1
  <2> QED  BY <2>1, <2>3, <1>1, <1>2 DEF LinkInv
<1> QED  BY <1>3, <1>4, <1>5, <1>6, <1>7, <1>8 DEF MqNext

LEMMA NextLinkInv == IpcInv /\ IpcInv' /\ LinkInv /\ [Next]_vars => LinkInv'
<1>1. SUFFICES ASSUME IpcInv, IpcInv', LinkInv, [Next]_vars PROVE LinkInv'
  OBVIOUS
<1>2. Core /\ Core' /\ (kind = "mq" => MqShape(mq))  BY <1>1 DEF IpcInv, MqInv
<1>3. PICK ds : ds = call'  OBVIOUS
<1>4. ASSUME kind # "mq", UNCHANGED <<kind, mq, queue>> PROVE LinkInv'
  <2>1. \A c \in Callers : ~Copying(call[c])  BY <1>2, <1>4, CallsFit DEF Copying
  <2>2. \A c \in Callers : Fits(call[c])'  BY <1>2 DEF Core
  <2>3. \A c \in Callers : ~Copying(ds[c])
    <3>1. ASSUME NEW c \in Callers PROVE ds[c].op \notin {"mq_link", "mq_free"}
      <4>1. Fits(call[c])'  BY <2>2
      <4> QED  BY <4>1, <1>3, <1>4 DEF Fits, EventCalls
    <3> QED  BY <3>1 DEF Copying
  <2>4. SameCopies(call, ds)  BY <2>1, <2>3 DEF SameCopies
  <2> QED  BY <2>4, <1>1, <1>3, <1>4, LinkStays
<1>5. CASE kind \in {"sem", "mutex", "event"} /\ UNCHANGED <<kind, mailVars>>
  BY <1>4, <1>5 DEF mailVars
<1>6. CASE kind = "mb" /\ MbNext /\ UNCHANGED kind
  <2>1. UNCHANGED <<mq, queue>>
    BY <1>6 DEF MbNext, MbSend, MbSendResumed, MbRecv, MbRecvResumed, MbReset
  <2> QED  BY <2>1, <1>4, <1>6
<1>7. CASE kind = "mq" /\ MqNext /\ UNCHANGED kind
  BY <1>1, <1>2, <1>7, MqLinks
<1>8. ASSUME UNCHANGED <<kind, call, mq, queue, sent>> PROVE LinkInv'
  <2>1. SameCopies(call, ds)  BY <1>3, <1>8 DEF SameCopies
  <2> QED  BY <2>1, <1>1, <1>3, <1>8, LinkStays DEF LinkInv
<1>9. ASSUME NEW t \in Thread, Timeout(t), UNCHANGED <<syncVars, mailVars>> PROVE LinkInv'
  <2>1. UNCHANGED <<kind, call, mq, queue, sent>>  BY <1>9 DEF Timeout, mailVars
  <2> QED  BY <2>1, <1>8
<1>10. CASE UNCHANGED vars
  <2>1. UNCHANGED <<kind, call, mq, queue, sent>>  BY <1>10 DEF vars, threadVars, mailVars
  <2> QED  BY <2>1, <1>8
<1>11. CASE Next  BY <1>2, <1>5, <1>6, <1>7, <1>9, <1>11, NextByKind
<1> QED  BY <1>1, <1>10, <1>11

LEMMA LinkInvariant == Spec => []LinkInv
  BY InitLinkInv, NextLinkInv, IpcInvariant, PTL DEF Spec

\* A list that has each cell once at most.
LEMMA CountOnce ==
    ASSUME NEW w \in Seq(Cells), Once(w), NEW x
    PROVE  Count(x, w) = IF On(w, x) THEN 1 ELSE 0
<1>1. \A j, k \in 1..Len(w) : w[j] = x /\ w[k] = x => j = k  BY DEF Once
<1>2. Count(x, w) = IF \E n \in 1..Len(w) : w[n] = x THEN 1 ELSE 0  BY <1>1, CountIs DEF Count
<1> QED  BY <1>2 DEF On

LEMMA PoolKept ==
    ASSUME MqPool(mq, queue, call)
    PROVE  MessagesKept
<1>1. PICK w, f : /\ Queued(mq.head, mq.tail, mq.entry, mq.next, mq.data, queue, w)
                  /\ Linked(mq.next, mq.free, f) /\ Apart(call, w, f) /\ Intact(call, mq.data)
  BY DEF MqPool, Pool
<1>2. /\ Linked(mq.next, mq.head, w) /\ mq.tail = CellAt(w, Len(w)) /\ queue \in Seq(Nat)
      /\ Len(queue) = Len(w) /\ mq.entry = Len(w) /\ \A i \in 1..Len(w) : mq.data[w[i]] = queue[i]
  BY <1>1 DEF Queued
<1>3. Chain(mq.head) = w /\ Chain(mq.free) = f  BY <1>1, <1>2, ChainIs
<1>4. w \in Seq(Cells) /\ Once(w) /\ f \in Seq(Cells) /\ Once(f)  BY <1>1, <1>2 DEF Linked
<1>5. [n \in 1..Len(w) |-> mq.data[w[n]]] = queue
  <2>1. [n \in 1..Len(w) |-> mq.data[w[n]]] = [n \in 1..Len(w) |-> queue[n]]  BY <1>2
  <2>2. queue = [n \in 1..Len(w) |-> queue[n]]  BY <1>2, LenProperties
  <2> QED  BY <2>1, <2>2
<1>6. mq.tail = IF w = <<>> THEN Null ELSE w[Len(w)]
  <2>1. PICK n \in Nat : n = Len(w) /\ (w = <<>> <=> n = 0)  BY <1>4, CellFacts
  <2>2. CASE n = 0
    <3>1. n \notin 1..n  BY <2>2
    <3> QED  BY <3>1, <2>1, <2>2, <1>2 DEF CellAt
  <2>3. CASE n # 0
    <3>1. n \in 1..n  BY <2>3
    <3> QED  BY <3>1, <2>1, <2>3, <1>2 DEF CellAt
  <2> QED  BY <2>2, <2>3
<1>7. ASSUME NEW m \in Cells
      PROVE  Cardinality({c \in Callers : call[c].op \in {"mq_link", "mq_free"} /\ call[c].cell = m})
               + Count(m, w) + Count(m, f) = 1
  <2>1. PICK U : U = {c \in Callers : Copying(call[c]) /\ call[c].cell = m}  OBVIOUS
  <2>2. U = {c \in Callers : call[c].op \in {"mq_link", "mq_free"} /\ call[c].cell = m}
    BY <2>1 DEF Copying
  <2>3. /\ Count(m, w) = IF On(w, m) THEN 1 ELSE 0
        /\ Count(m, f) = IF On(f, m) THEN 1 ELSE 0
    BY <1>4, CountOnce
  <2>4. /\ ~(On(w, m) /\ On(f, m)) /\ (On(w, m) \/ On(f, m) => U = {})
        /\ (On(w, m) \/ On(f, m) \/ U # {}) /\ \A c, d \in U : c = d
    BY <2>1, <1>1 DEF Apart
  <2>5. CASE U = {}
    <3>1. Cardinality(U) = 0  BY <2>5, FS_EmptySet
    <3>2. Cardinality(U) + Count(m, w) + Count(m, f) = 1  BY <3>1, <2>3, <2>4, <2>5
    <3> QED  BY <3>2, <2>2
  <2>6. CASE U # {}
    <3>1. PICK c \in U : TRUE  BY <2>6
    <3>2. U = {c}  BY <3>1, <2>4
    <3>3. Cardinality(U) = 1  BY <3>2, FS_Singleton
    <3>4. Cardinality(U) + Count(m, w) + Count(m, f) = 1  BY <3>3, <2>3, <2>4, <2>6
    <3> QED  BY <3>4, <2>2
  <2> QED  BY <2>5, <2>6
<1>8. mq.entry = Len(queue)  BY <1>2
<1>9. \A c \in Callers : call[c].op = "mq_free" => mq.data[call[c].cell] = call[c].msg
  BY <1>1 DEF Intact
<1> QED  BY <1>3, <1>5, <1>6, <1>7, <1>8, <1>9 DEF MessagesKept

\* rt_mq_send, rt_mq_urgent, rt_mq_recv and a reset of the queue keep every cell of the pool
\* in the queue, on the free list or with the one caller that copies it without the lock, and
\* a message is received as it was sent.
THEOREM MessagesAreKept == Spec => []MessagesKept
<1>1. LinkInv => MessagesKept  BY PoolKept DEF LinkInv
<1> QED  BY <1>1, LinkInvariant, PTL

=============================================================================
