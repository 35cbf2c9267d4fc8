----------------------------- MODULE KernelProofs -----------------------------
(***************************************************************************)
(* The services of the kernel, for any number of threads and blocks, any   *)
(* sizes and any priorities.                                               *)
(***************************************************************************)
EXTENDS Kernel, ListLemmas

-----------------------------------------------------------------------------
(* ulog: the blocks of the ring block buffer.                              *)

\* Places lo..hi of n blocks in the order of the list: none overlap, and in the list they
\* run around the buffer once at most.
Descends(lo, j, k) == lo[k] < lo[j]
Laid(n, lo, hi) ==
    /\ \A j, k \in 1..n : j < k => hi[j] <= lo[k] \/ hi[k] <= lo[j]
    /\ \A j, k, m \in 1..n : j < k /\ k < m /\ (Descends(lo, j, k) \/ Descends(lo, k, m)) =>
          Descends(lo, j, m) /\ ~(Descends(lo, j, k) /\ Descends(lo, k, m))

Lows(b, l) == [j \in 1..Len(l) |-> b[l[j]].buf]
Highs(b, l) == [j \in 1..Len(l) |-> b[l[j]].buf + b[l[j]].size]

Block == [status : {"UNUSED", "INITED", "PUT", "GET"}, buf : Nat, size : Nat, isr : BOOLEAN]
UlogTyped ==
    /\ blk \in [Blocks -> Block]
    /\ \A b \in Blocks : blk[b].buf + blk[b].size <= BufSize
    /\ \A b \in Blocks : blk[b].status # "UNUSED" => blk[b].size > 0
    /\ blk_list \in Seq(Blocks)
    /\ cells \in [0..BufSize - 1 -> 0..BlkMax]
    /\ locker \in Logger \cup {NoOwner}
    /\ logging \in [Logger -> [pc : {"none", "copy", "put", "notice", "unlock"}, blk : 0..BlkMax]]
    /\ output \in [Outputs -> [pc : {"none", "reset", "take", "sleep", "get", "print", "free"},
                               blk : 0..BlkMax]]

\* The list has the blocks in use, once each.
ListInv ==
    /\ \A j, k \in 1..Len(blk_list) : blk_list[j] = blk_list[k] => j = k
    /\ \A b \in Blocks : (\E j \in 1..Len(blk_list) : blk_list[j] = b) <=> blk[b].status # "UNUSED"

LaidInv == Laid(Len(blk_list), Lows(blk, blk_list), Highs(blk, blk_list))

\* One thread logs at a time, the one that has the lock; the block it fills is the only
\* one that is not put yet, and no thread has logged since.
LoggerInv ==
    /\ \A t \in Logger : logging[t].pc # "none" <=> locker = t
    /\ \A t \in Logger : logging[t].pc \in {"copy", "put"} =>
          logging[t].blk \in Blocks /\ blk[logging[t].blk].status = "INITED"
    /\ \A b \in Blocks : blk[b].status = "INITED" =>
          \E t \in Logger : logging[t].pc \in {"copy", "put"} /\ logging[t].blk = b
    /\ \A b \in Blocks : blk[b].status = "INITED" => ~blk[b].isr
    /\ \A j, k \in 1..Len(blk_list) :
          j < k /\ blk[blk_list[j]].status = "INITED" => blk[blk_list[k]].isr

\* Who has a block that was taken.
OutputInv ==
    /\ \A o \in Outputs : output[o].pc \in {"print", "free"} <=> output[o].blk # 0
    /\ \A o \in Outputs : output[o].blk # 0 => blk[output[o].blk].status = "GET"
    /\ \A b \in Blocks : blk[b].status = "GET" => \E o \in Outputs : output[o].blk = b
    /\ \A o, q \in Outputs : output[o].blk # 0 /\ output[o].blk = output[q].blk => o = q

\* The cells of a block that is put or copied hold its frame.
Filled(b) == \A i \in blk[b].buf..blk[b].buf + blk[b].size - 1 : cells[i] = b
CellsInv ==
    /\ \A b \in Blocks : blk[b].status \in {"PUT", "GET"} => Filled(b)
    /\ \A t \in Logger : logging[t].pc = "put" => Filled(logging[t].blk)

UlogInv ==
    UlogTyped /\ ListInv /\ LaidInv /\ LoggerInv /\ OutputInv /\ CellsInv /\ LogsInOrder

\* Blocks stay laid out when one leaves the list ...
LEMMA LaidRemove ==
    ASSUME NEW n \in Nat, NEW lo \in [1..n -> Int], NEW hi \in [1..n -> Int], Laid(n, lo, hi),
           NEW p \in 1..n, NEW lo2, NEW hi2,
           \A k \in 1..(n - 1) : /\ lo2[k] = lo[IF k < p THEN k ELSE k + 1]
                                 /\ hi2[k] = hi[IF k < p THEN k ELSE k + 1]
    PROVE  Laid(n - 1, lo2, hi2)
<1> DEFINE up(k) == IF k < p THEN k ELSE k + 1
<1>1. \A k \in 1..(n - 1) : up(k) \in 1..n /\ lo2[k] = lo[up(k)] /\ hi2[k] = hi[up(k)]  OBVIOUS
<1>2. \A j, k \in 1..(n - 1) : j < k => up(j) < up(k)  OBVIOUS
<1> HIDE DEF up
<1>3. ASSUME NEW j \in 1..(n - 1), NEW k \in 1..(n - 1), j < k
      PROVE  hi2[j] <= lo2[k] \/ hi2[k] <= lo2[j]
  BY <1>1, <1>2, <1>3 DEF Laid
<1>4. ASSUME NEW j \in 1..(n - 1), NEW k \in 1..(n - 1), NEW m \in 1..(n - 1), j < k, k < m,
             Descends(lo2, j, k) \/ Descends(lo2, k, m)
      PROVE  Descends(lo2, j, m) /\ ~(Descends(lo2, j, k) /\ Descends(lo2, k, m))
  <2>1. up(j) \in 1..n /\ up(k) \in 1..n /\ up(m) \in 1..n /\ up(j) < up(k) /\ up(k) < up(m)
    BY <1>1, <1>2, <1>4
  <2>2. /\ Descends(lo2, j, k) <=> Descends(lo, up(j), up(k))
        /\ Descends(lo2, k, m) <=> Descends(lo, up(k), up(m))
        /\ Descends(lo2, j, m) <=> Descends(lo, up(j), up(m))
    BY <1>1 DEF Descends
  <2> QED  BY <2>1, <2>2, <1>4 DEF Laid
<1> QED  BY <1>3, <1>4 DEF Laid

\* ... and when rt_rbb_blk_alloc has found a place for a new one: behind the last one, or
\* at the beginning if the blocks do not go around yet, and then below the first one.
LEMMA LaidAppend ==
    ASSUME NEW n \in Nat \ {0}, NEW lo \in [1..n -> Int], NEW hi \in [1..n -> Int],
           \A j \in 1..n : lo[j] < hi[j], Laid(n, lo, hi),
           NEW at \in Int, NEW end \in Int, at < end,
           \/ ~Descends(lo, 1, n) /\ at = hi[n]
           \/ ~Descends(lo, 1, n) /\ end <= lo[1]
           \/ Descends(lo, 1, n) /\ at = hi[n] /\ end <= lo[1],
           NEW lo2, NEW hi2, lo2[n + 1] = at, hi2[n + 1] = end,
           \A k \in 1..n : lo2[k] = lo[k] /\ hi2[k] = hi[k]
    PROVE  Laid(n + 1, lo2, hi2)
<1>1. 1 \in 1..n /\ n \in 1..n /\ \A j \in 1..n : lo[j] \in Int /\ hi[j] \in Int  OBVIOUS
<1>2. \A j, k \in 1..n : j < k => hi[j] <= lo[k] \/ hi[k] <= lo[j]  BY DEF Laid
<1>3. \A j, k, m \in 1..n : j < k /\ k < m /\ (Descends(lo, j, k) \/ Descends(lo, k, m)) =>
         Descends(lo, j, m) /\ ~(Descends(lo, j, k) /\ Descends(lo, k, m))
  BY DEF Laid
<1>4. \A j, k \in 1..n : j < k /\ ~Descends(lo, j, k) => hi[j] <= lo[k]  BY <1>1, <1>2 DEF Descends
<1> DEFINE Above(j) == hi[j] <= at
           Below(j) == end <= lo[j]
           Apart == \A j \in 1..n : Above(j) \/ Below(j)
           Turns == \A j, k \in 1..n : j < k /\ (Descends(lo, j, k) \/ Below(k)) =>
                       Below(j) /\ ~(Descends(lo, j, k) /\ Below(k))
<1>5. ASSUME ~Descends(lo, 1, n) PROVE Apart /\ Turns
  <2>1. ASSUME NEW j \in 1..n, NEW k \in 1..n, j < k PROVE ~Descends(lo, j, k)
    <3>1. Descends(lo, j, k) => Descends(lo, 1, k)
      <4>1. CASE j = 1  BY <4>1
      <4>2. CASE 1 < j  BY <4>2, <2>1, <1>1, <1>3
      <4>3. j = 1 \/ 1 < j  OBVIOUS
      <4> QED  BY <4>1, <4>2, <4>3
    <3>2. Descends(lo, 1, k) => Descends(lo, 1, n)
      <4>1. CASE k = n  BY <4>1
      <4>2. CASE k < n /\ 1 < k  BY <4>2, <1>1, <1>3
      <4>3. k = n \/ (k < n /\ 1 < k)  BY <2>1
      <4> QED  BY <4>1, <4>2, <4>3
    <3> QED  BY <3>1, <3>2, <1>5
  <2>2. CASE at = hi[n]
    <3>1. ASSUME NEW j \in 1..n PROVE Above(j) /\ ~Below(j)
      <4>1. CASE j = n  BY <4>1, <2>2, <1>1
      <4>2. CASE j < n
        <5>1. hi[j] <= lo[n] /\ lo[n] < hi[n] /\ lo[j] < hi[j]  BY <4>2, <2>1, <1>1, <1>4
        <5> QED  BY <5>1, <2>2, <1>1
      <4>3. j = n \/ j < n  OBVIOUS
      <4> QED  BY <4>1, <4>2, <4>3
    <3> QED  BY <3>1, <2>1
  <2>3. CASE end <= lo[1]
    <3>1. ASSUME NEW j \in 1..n PROVE Below(j)
      <4>1. CASE j = 1  BY <4>1, <2>3
      <4>2. CASE 1 < j
        <5>1. ~Descends(lo, 1, j)  BY <4>2, <2>1, <1>1
        <5>2. lo[1] <= lo[j]  BY <5>1, <1>1 DEF Descends
        <5> QED  BY <5>2, <2>3, <1>1
      <4>3. j = 1 \/ 1 < j  OBVIOUS
      <4> QED  BY <4>1, <4>2, <4>3
    <3> QED  BY <3>1, <2>1
  <2> QED  BY <2>2, <2>3, <1>5
<1>6. ASSUME Descends(lo, 1, n), at = hi[n], end <= lo[1] PROVE Apart /\ Turns
  <2>1. Above(n) /\ ~Below(n)  BY <1>1, <1>6
  <2>2. ASSUME NEW j \in 1..n, j < n
        PROVE  /\ Descends(lo, j, n) => Below(j) /\ ~Above(j)
               /\ ~Descends(lo, j, n) => Above(j) /\ ~Below(j)
    <3>1. CASE Descends(lo, j, n)
      <4>1. lo[1] <= lo[j]
        <5>1. CASE j = 1  BY <5>1, <1>1
        <5>2. CASE 1 < j
          <6>1. ~Descends(lo, 1, j)  BY <5>2, <3>1, <2>2, <1>1, <1>3
          <6> QED  BY <6>1, <1>1 DEF Descends
        <5>3. j = 1 \/ 1 < j  OBVIOUS
        <5> QED  BY <5>1, <5>2, <5>3
      <4> QED  BY <4>1, <3>1, <1>1, <1>6
    <3>2. CASE ~Descends(lo, j, n)
      <4>1. hi[j] <= lo[n] /\ lo[n] < hi[n] /\ lo[j] < hi[j]  BY <3>2, <2>2, <1>1, <1>4
      <4> QED  BY <4>1, <3>2, <1>1, <1>6
    <3> QED  BY <3>1, <3>2
  <2>3. \A j \in 1..n : j < n \/ j = n  OBVIOUS
  <2>4. Apart  BY <2>1, <2>2, <2>3
  <2>5. ASSUME NEW j \in 1..n, NEW k \in 1..n, j < k, Descends(lo, j, k) \/ Below(k)
        PROVE  Below(j) /\ ~(Descends(lo, j, k) /\ Below(k))
    <3>1. j < n  BY <2>5
    <3>2. CASE k = n  BY <3>1, <3>2, <2>1, <2>2, <2>5
    <3>3. CASE k < n
      <4>1. Below(k) <=> Descends(lo, k, n)  BY <3>3, <2>2
      <4>2. Below(j) <=> Descends(lo, j, n)  BY <3>1, <2>2
      <4>3. (Descends(lo, j, k) \/ Descends(lo, k, n)) =>
               Descends(lo, j, n) /\ ~(Descends(lo, j, k) /\ Descends(lo, k, n))
        BY <3>3, <2>5, <1>1, <1>3
      <4> QED  BY <4>1, <4>2, <4>3, <2>5
    <3> QED  BY <3>2, <3>3, <2>3
  <2>6. Turns  BY <2>5
  <2> QED  BY <2>4, <2>6
<1>7. Apart /\ Turns  BY <1>5, <1>6
<1>8. ASSUME NEW j \in 1..n PROVE Descends(lo2, j, n + 1) <=> Below(j)
  <2>1. Above(j) \/ Below(j)  BY <1>7
  <2>2. lo2[j] = lo[j] /\ lo[j] < hi[j] /\ lo[j] \in Int /\ hi[j] \in Int  BY <1>1
  <2> QED  BY <2>1, <2>2 DEF Descends
<1>9. \A j, k \in 1..n : Descends(lo2, j, k) <=> Descends(lo, j, k)  BY DEF Descends
<1>10. \A j \in 1..(n + 1) : j \in 1..n \/ j = n + 1  OBVIOUS
<1>11. ASSUME NEW j \in 1..(n + 1), NEW k \in 1..(n + 1), j < k
       PROVE  hi2[j] <= lo2[k] \/ hi2[k] <= lo2[j]
  <2>1. j \in 1..n  BY <1>11
  <2>2. CASE k \in 1..n  BY <2>1, <2>2, <1>2, <1>11
  <2>3. CASE k = n + 1
    <3>1. Above(j) \/ Below(j)  BY <2>1, <1>7
    <3> QED  BY <3>1, <2>1, <2>3
  <2> QED  BY <2>2, <2>3, <1>10
<1>12. ASSUME NEW j \in 1..(n + 1), NEW k \in 1..(n + 1), NEW m \in 1..(n + 1), j < k, k < m,
              Descends(lo2, j, k) \/ Descends(lo2, k, m)
       PROVE  Descends(lo2, j, m) /\ ~(Descends(lo2, j, k) /\ Descends(lo2, k, m))
  <2>1. j \in 1..n /\ k \in 1..n  BY <1>12
  <2>2. CASE m \in 1..n  BY <2>1, <2>2, <1>3, <1>9, <1>12
  <2>3. CASE m = n + 1
    <3>1. Descends(lo, j, k) \/ Below(k)  BY <2>1, <2>3, <1>8, <1>9, <1>12
    <3>2. Below(j) /\ ~(Descends(lo, j, k) /\ Below(k))  BY <3>1, <2>1, <1>7, <1>12
    <3> QED  BY <3>2, <2>1, <2>3, <1>8, <1>9
  <2> QED  BY <2>2, <2>3, <1>10
<1> QED  BY <1>11, <1>12 DEF Laid

\* What the list says of its places.
LEMMA ListFacts ==
    ASSUME UlogTyped, ListInv
    PROVE  /\ Len(blk_list) \in Nat /\ BufSize \in Nat /\ BlkMax \in Nat
           /\ \A j \in 1..Len(blk_list) :
                 /\ blk_list[j] \in Blocks /\ blk[blk_list[j]].status # "UNUSED"
                 /\ blk[blk_list[j]].buf \in Nat /\ blk[blk_list[j]].size \in Nat
                 /\ blk[blk_list[j]].size > 0
                 /\ Lows(blk, blk_list)[j] = blk[blk_list[j]].buf
                 /\ Highs(blk, blk_list)[j] = blk[blk_list[j]].buf + blk[blk_list[j]].size
                 /\ Lows(blk, blk_list)[j] < Highs(blk, blk_list)[j]
           /\ Lows(blk, blk_list) \in [1..Len(blk_list) -> Int]
           /\ Highs(blk, blk_list) \in [1..Len(blk_list) -> Int]
<1>1. Len(blk_list) \in Nat /\ BufSize \in Nat /\ BlkMax \in Nat
  BY LenProperties, UlogAssumption DEF UlogTyped
<1>2. \A j \in 1..Len(blk_list) : blk_list[j] \in Blocks  BY ElementOfSeq DEF UlogTyped
<1>3. \A b \in Blocks : blk[b].buf \in Nat /\ blk[b].size \in Nat  BY DEF UlogTyped, Block
<1>4. \A j \in 1..Len(blk_list) : blk[blk_list[j]].status # "UNUSED"  BY <1>2 DEF ListInv
<1>5. \A j \in 1..Len(blk_list) : blk[blk_list[j]].size > 0  BY <1>2, <1>4 DEF UlogTyped
<1>6. \A j \in 1..Len(blk_list) :
         /\ Lows(blk, blk_list)[j] = blk[blk_list[j]].buf
         /\ Highs(blk, blk_list)[j] = blk[blk_list[j]].buf + blk[blk_list[j]].size
  BY DEF Lows, Highs
<1>7. Lows(blk, blk_list) \in [1..Len(blk_list) -> Int] /\ Highs(blk, blk_list) \in [1..Len(blk_list) -> Int]
  BY <1>2, <1>3 DEF Lows, Highs
<1>8. ASSUME NEW j \in 1..Len(blk_list) PROVE Lows(blk, blk_list)[j] < Highs(blk, blk_list)[j]
  <2>1. blk[blk_list[j]].buf \in Nat /\ blk[blk_list[j]].size \in Nat /\ blk[blk_list[j]].size > 0
    BY <1>2, <1>3, <1>5
  <2> QED  BY <2>1, <1>6
<1> QED  BY <1>1, <1>2, <1>3, <1>4, <1>5, <1>6, <1>7, <1>8

\* Blocks in use do not overlap.
LEMMA BlocksApart ==
    ASSUME UlogTyped, ListInv, LaidInv, NEW b \in Blocks, NEW c \in Blocks, b # c,
           blk[b].status # "UNUSED", blk[c].status # "UNUSED"
    PROVE  blk[b].buf + blk[b].size <= blk[c].buf \/ blk[c].buf + blk[c].size <= blk[b].buf
<1>1. PICK j \in 1..Len(blk_list) : blk_list[j] = b  BY DEF ListInv
<1>2. PICK k \in 1..Len(blk_list) : blk_list[k] = c  BY DEF ListInv
<1>3. j < k \/ k < j  BY <1>1, <1>2, ListFacts
<1>4. \A x, y \in 1..Len(blk_list) : x < y =>
         Highs(blk, blk_list)[x] <= Lows(blk, blk_list)[y] \/ Highs(blk, blk_list)[y] <= Lows(blk, blk_list)[x]
  BY DEF LaidInv, Laid
<1>5. /\ Lows(blk, blk_list)[j] = blk[b].buf /\ Highs(blk, blk_list)[j] = blk[b].buf + blk[b].size
      /\ Lows(blk, blk_list)[k] = blk[c].buf /\ Highs(blk, blk_list)[k] = blk[c].buf + blk[c].size
  BY <1>1, <1>2, ListFacts
<1> QED  BY <1>3, <1>4, <1>5

\* What rt_rbb_blk_alloc finds.
LEMMA NewFacts ==
    ASSUME UlogTyped, ListInv, NEW size \in FrameSizes, HasRoom(size)
    PROVE  /\ NewBlock \in Blocks /\ blk[NewBlock].status = "UNUSED"
           /\ NewPlace(size) \in Nat /\ NewPlace(size) + size <= BufSize
           /\ size \in Nat /\ size > 0
           /\ Len(blk_list) # 0 =>
                LET lo == Lows(blk, blk_list)
                    hi == Highs(blk, blk_list)
                    n == Len(blk_list)
                IN \/ ~Descends(lo, 1, n) /\ NewPlace(size) = hi[n]
                   \/ ~Descends(lo, 1, n) /\ NewPlace(size) + size <= lo[1]
                   \/ Descends(lo, 1, n) /\ NewPlace(size) = hi[n] /\ NewPlace(size) + size <= lo[1]
<1>1. NewBlock \in Blocks /\ blk[NewBlock].status = "UNUSED"
  <2>1. EmptyBlocks \in SUBSET Nat /\ EmptyBlocks # {}
    BY UlogAssumption DEF HasRoom, EmptyBlocks, Blocks
  <2>2. Min(EmptyBlocks) \in EmptyBlocks  BY <2>1, MinIsLeast
  <2> QED  BY <2>2 DEF NewBlock, EmptyBlocks
<1>2. size \in Nat /\ size > 0 /\ size <= BufSize /\ BufSize \in Nat  BY UlogAssumption
<1>3. NewPlace(size) \in Place(size)  BY DEF NewPlace, HasRoom
<1>4. CASE Len(blk_list) = 0
  <2>1. NewPlace(size) = 0  BY <1>3, <1>4 DEF Place
  <2> QED  BY <2>1, <1>1, <1>2, <1>4
<1>5. CASE Len(blk_list) # 0
  <2> DEFINE n == Len(blk_list)
             head == blk[blk_list[1]]
             tail == blk[blk_list[n]]
             at == NewPlace(size)
             lo == Lows(blk, blk_list)
             hi == Highs(blk, blk_list)
  <2>1. n \in Nat /\ 1 \in 1..n /\ n \in 1..n  BY <1>5, ListFacts
  <2>2. /\ lo[1] = head.buf /\ lo[n] = tail.buf /\ hi[n] = tail.buf + tail.size
        /\ head.buf \in Nat /\ tail.buf \in Nat /\ tail.size \in Nat
    BY <2>1, ListFacts
  <2>3. tail.buf + tail.size <= BufSize /\ head.buf <= BufSize
    <3>1. \A b \in Blocks : blk[b].buf \in Nat /\ blk[b].size \in Nat /\ blk[b].buf + blk[b].size <= BufSize
      BY DEF UlogTyped, Block
    <3>2. blk_list[1] \in Blocks /\ blk_list[n] \in Blocks  BY <2>1, ListFacts
    <3> QED  BY <3>1, <3>2, <1>2
  <2>4. Head(blk_list) = blk_list[1]  BY <1>5
  <2>5. at \in IF (IF head.buf > tail.buf THEN head.buf ELSE BufSize) - (tail.buf + tail.size) >= size
                 THEN {tail.buf + tail.size}
               ELSE IF ~(head.buf > tail.buf) /\ head.buf >= size THEN {0} ELSE {}
    BY <1>3, <1>5, <2>4 DEF Place
  <2>6. Descends(lo, 1, n) <=> head.buf > tail.buf  BY <2>2 DEF Descends
  <2> HIDE DEF n, head, tail, at, lo, hi
  <2>7. CASE head.buf > tail.buf
    <3>1. head.buf - (tail.buf + tail.size) >= size /\ at = tail.buf + tail.size  BY <2>5, <2>7
    <3>2. at \in Nat /\ at + size <= head.buf  BY <3>1, <2>2, <1>2
    <3>3. at + size <= BufSize  BY <3>2, <2>2, <2>3, <1>2
    <3> QED  BY <3>1, <3>2, <3>3, <2>2, <2>6, <2>7, <1>1, <1>2 DEF at, lo, hi, n
  <2>8. CASE ~(head.buf > tail.buf) /\ BufSize - (tail.buf + tail.size) >= size
    <3>1. at = tail.buf + tail.size  BY <2>5, <2>8
    <3>2. at \in Nat /\ at + size <= BufSize  BY <3>1, <2>2, <2>8, <1>2
    <3> QED  BY <3>1, <3>2, <2>2, <2>6, <2>8, <1>1, <1>2 DEF at, lo, hi, n
  <2>9. CASE ~(head.buf > tail.buf) /\ ~(BufSize - (tail.buf + tail.size) >= size)
    <3>1. at = 0 /\ head.buf >= size  BY <2>5, <2>9
    <3>2. at \in Nat /\ at + size <= lo[1] /\ at + size <= BufSize  BY <3>1, <2>2, <1>2
    <3> QED  BY <3>2, <2>6, <2>9, <1>1, <1>2 DEF at, lo, hi, n
  <2> QED  BY <2>7, <2>8, <2>9
<1> QED  BY <1>4, <1>5

\* rt_rbb_blk_alloc keeps the list and the layout.
LEMMA AllocKeeps ==
    ASSUME UlogTyped, ListInv, LaidInv, NEW size \in FrameSizes, HasRoom(size),
           NEW status \in {"INITED", "PUT"}, NEW isr_log \in BOOLEAN,
           BlkAlloc(size, status, isr_log)
    PROVE  ListInv' /\ LaidInv'
<1> DEFINE new == NewBlock
           at == NewPlace(size)
           n == Len(blk_list)
<1>1. /\ new \in Blocks /\ blk[new].status = "UNUSED" /\ at \in Nat /\ at + size <= BufSize
      /\ size \in Nat /\ size > 0
  BY NewFacts
<1>2. /\ blk' = [blk EXCEPT ![new] = [status |-> status, buf |-> at, size |-> size, isr |-> isr_log]]
      /\ blk_list' = Append(blk_list, new)
  BY DEF BlkAlloc
<1>3. n \in Nat /\ \A j \in 1..n : blk_list[j] \in Blocks /\ blk_list[j] # new
  BY <1>1, ListFacts
<1>4. /\ Len(blk_list') = n + 1 /\ blk_list'[n + 1] = new /\ \A j \in 1..n : blk_list'[j] = blk_list[j]
  BY <1>1, <1>2, AppendProperties DEF UlogTyped
<1>5. blk \in [Blocks -> Block]  BY DEF UlogTyped
<1>6. /\ blk'[new].status = status /\ blk'[new].buf = at /\ blk'[new].size = size
      /\ \A b \in Blocks : b # new => blk'[b] = blk[b]
  BY <1>1, <1>2, <1>5
<1> HIDE DEF new, at, n
<1>7. \A j \in 1..(n + 1) : j \in 1..n \/ j = n + 1  BY <1>3
<1>8. \A j \in 1..n : j \in 1..(n + 1)  BY <1>3
<1>9. n + 1 \in 1..(n + 1)  BY <1>3
<1>10. ListInv'
  <2>1. \A j, k \in 1..(n + 1) : blk_list'[j] = blk_list'[k] => j = k
    <3>1. \A j, k \in 1..n : blk_list[j] = blk_list[k] => j = k  BY DEF ListInv, n
    <3> QED  BY <3>1, <1>3, <1>4, <1>7
  <2>2. ASSUME NEW b \in Blocks
        PROVE  (\E j \in 1..(n + 1) : blk_list'[j] = b) <=> blk'[b].status # "UNUSED"
    <3>1. CASE b = new  BY <3>1, <1>4, <1>6, <1>9
    <3>2. CASE b # new
      <4>1. (\E j \in 1..(n + 1) : blk_list'[j] = b) <=> (\E j \in 1..n : blk_list[j] = b)
        BY <3>2, <1>4, <1>7, <1>8
      <4>2. (\E j \in 1..n : blk_list[j] = b) <=> blk[b].status # "UNUSED"  BY DEF ListInv, n
      <4> QED  BY <3>2, <4>1, <4>2, <1>6
    <3> QED  BY <3>1, <3>2
  <2> QED  BY <2>1, <2>2, <1>4 DEF ListInv
<1>11. LaidInv'
  <2> DEFINE lo == Lows(blk, blk_list)
             hi == Highs(blk, blk_list)
             lo2 == Lows(blk', blk_list')
             hi2 == Highs(blk', blk_list')
  <2>1. /\ lo2[n + 1] = at /\ hi2[n + 1] = at + size
        /\ \A k \in 1..n : /\ lo2[k] = blk[blk_list[k]].buf
                           /\ hi2[k] = blk[blk_list[k]].buf + blk[blk_list[k]].size
    BY <1>3, <1>4, <1>6, <1>8, <1>9 DEF Lows, Highs
  <2>2. /\ lo \in [1..n -> Int] /\ hi \in [1..n -> Int]
        /\ \A j \in 1..n : /\ lo[j] < hi[j] /\ lo[j] = blk[blk_list[j]].buf
                           /\ hi[j] = blk[blk_list[j]].buf + blk[blk_list[j]].size
    BY ListFacts DEF n
  <2>3. Laid(n, lo, hi)  BY DEF LaidInv, n
  <2>4. n # 0 => \/ ~Descends(lo, 1, n) /\ at = hi[n]
                 \/ ~Descends(lo, 1, n) /\ at + size <= lo[1]
                 \/ Descends(lo, 1, n) /\ at = hi[n] /\ at + size <= lo[1]
    BY NewFacts DEF n, at
  <2> HIDE DEF lo, hi, lo2, hi2
  <2>5. CASE n # 0
    <3>1. at \in Int /\ at + size \in Int /\ at < at + size /\ n \in Nat \ {0}  BY <2>5, <1>1, <1>3
    <3>2. PICK end \in Int : end = at + size  BY <3>1
    <3>3. \A k \in 1..n : lo2[k] = lo[k] /\ hi2[k] = hi[k]  BY <2>1, <2>2
    <3>4. lo2[n + 1] = at /\ hi2[n + 1] = end /\ at < end  BY <3>1, <3>2, <2>1
    <3>5. \/ ~Descends(lo, 1, n) /\ at = hi[n]
          \/ ~Descends(lo, 1, n) /\ end <= lo[1]
          \/ Descends(lo, 1, n) /\ at = hi[n] /\ end <= lo[1]
      BY <3>2, <2>4, <2>5
    <3>6. \A j \in 1..n : lo[j] < hi[j]  BY <2>2
    <3>7. Laid(n + 1, lo2, hi2)  BY <3>1, <3>3, <3>4, <3>5, <3>6, <2>2, <2>3, LaidAppend
    <3> QED  BY <3>7, <1>4 DEF LaidInv, lo2, hi2
  <2>6. CASE n = 0
    <3>1. \A j \in 1..(n + 1) : j = 1  BY <2>6
    <3>2. Laid(n + 1, lo2, hi2)  BY <3>1, <2>6 DEF Laid
    <3> QED  BY <3>2, <1>4 DEF LaidInv, lo2, hi2
  <2> QED  BY <2>5, <2>6
<1> QED  BY <1>10, <1>11

\* A block's status changes and nothing else of it.
LEMMA StatusStep ==
    ASSUME UlogTyped, NEW b \in Blocks, NEW status \in {"PUT", "GET"},
           blk' = [blk EXCEPT ![b].status = status]
    PROVE  /\ blk' \in [Blocks -> Block] /\ blk'[b].status = status
           /\ \A c \in Blocks : /\ c # b => blk'[c] = blk[c]
                                /\ blk'[c].buf = blk[c].buf /\ blk'[c].size = blk[c].size
                                /\ blk'[c].isr = blk[c].isr
  BY ZenonT(40) DEF UlogTyped, Block

\* A block leaves the buffer.
LEMMA FreeStep ==
    ASSUME UlogTyped, NEW b \in Blocks, blk' = [blk EXCEPT ![b] = Unused]
    PROVE  /\ blk' \in [Blocks -> Block] /\ blk'[b] = Unused
           /\ \A c \in Blocks : c # b => blk'[c] = blk[c]
  BY DEF UlogTyped, Block, Unused

\* A block is allocated.
LEMMA AllocStep ==
    ASSUME UlogTyped, ListInv, NEW size \in FrameSizes, HasRoom(size),
           NEW status \in {"INITED", "PUT"}, NEW isr_log \in BOOLEAN,
           BlkAlloc(size, status, isr_log)
    PROVE  /\ NewBlock \in Blocks /\ blk[NewBlock].status = "UNUSED"
           /\ blk' \in [Blocks -> Block] /\ blk_list' \in Seq(Blocks)
           /\ Len(blk_list') = Len(blk_list) + 1 /\ blk_list'[Len(blk_list) + 1] = NewBlock
           /\ \A j \in 1..Len(blk_list) : blk_list'[j] = blk_list[j] /\ blk_list[j] # NewBlock
           /\ blk'[NewBlock].status = status /\ blk'[NewBlock].isr = isr_log
           /\ blk'[NewBlock].buf = NewPlace(size) /\ blk'[NewBlock].size = size
           /\ NewPlace(size) \in Nat /\ size \in Nat /\ size > 0 /\ NewPlace(size) + size <= BufSize
           /\ \A c \in Blocks : c # NewBlock => blk'[c] = blk[c]
<1> DEFINE new == NewBlock
           at == NewPlace(size)
<1>1. /\ new \in Blocks /\ blk[new].status = "UNUSED" /\ at \in Nat /\ at + size <= BufSize
      /\ size \in Nat /\ size > 0
  BY NewFacts
<1>2. /\ blk' = [blk EXCEPT ![new] = [status |-> status, buf |-> at, size |-> size, isr |-> isr_log]]
      /\ blk_list' = Append(blk_list, new)
  BY DEF BlkAlloc
<1>3. \A j \in 1..Len(blk_list) : blk_list[j] # new  BY <1>1, ListFacts
<1> HIDE DEF new, at
<1>4. [status |-> status, buf |-> at, size |-> size, isr |-> isr_log] \in Block  BY <1>1 DEF Block
<1>5. /\ blk' \in [Blocks -> Block] /\ blk'[new].status = status /\ blk'[new].isr = isr_log
      /\ blk'[new].buf = at /\ blk'[new].size = size
      /\ \A c \in Blocks : c # new => blk'[c] = blk[c]
  BY <1>1, <1>2, <1>4 DEF UlogTyped
<1>6. /\ blk_list' \in Seq(Blocks)
      /\ Len(blk_list') = Len(blk_list) + 1 /\ blk_list'[Len(blk_list) + 1] = new
      /\ \A j \in 1..Len(blk_list) : blk_list'[j] = blk_list[j]
  BY <1>1, <1>2, AppendProperties DEF UlogTyped
<1> QED  BY <1>1, <1>3, <1>5, <1>6 DEF new, at

\* The output of a thread that is at none of its blocks goes on to another place.
OutputGoes(o, pc_to) ==
    /\ o \in Outputs /\ output[o].pc \notin {"print", "free"} /\ pc_to \notin {"print", "free"}
    /\ output' = [output EXCEPT ![o].pc = pc_to]

Places == {"none", "reset", "take", "sleep", "get", "print", "free"}
LogPlaces == {"none", "copy", "put", "notice", "unlock"}

LEMMA NotifyStep ==
    ASSUME Notify
    PROVE  output' = output \/ OutputGoes(Async, "get")
  BY DEF Notify, OutputGoes, Outputs

\* What logging and output become when one thread goes on.
LEMMA OutputStep ==
    ASSUME UlogTyped, NEW o \in Outputs, NEW pc_to \in Places, NEW b \in 0..BlkMax,
           \/ output' = [output EXCEPT ![o].pc = pc_to] /\ b = output[o].blk
           \/ output' = [output EXCEPT ![o] = [pc |-> pc_to, blk |-> b]]
    PROVE  /\ output' \in [Outputs -> [pc : Places, blk : 0..BlkMax]]
           /\ output'[o].pc = pc_to /\ output'[o].blk = b
           /\ \A q \in Outputs : q # o => output'[q] = output[q]
<1>1. output \in [Outputs -> [pc : Places, blk : 0..BlkMax]]  BY DEF UlogTyped, Places
<1>2. CASE output' = [output EXCEPT ![o].pc = pc_to] /\ b = output[o].blk  BY <1>1, <1>2
<1>3. CASE output' = [output EXCEPT ![o] = [pc |-> pc_to, blk |-> b]]
  <2>1. [pc |-> pc_to, blk |-> b] \in [pc : Places, blk : 0..BlkMax]  OBVIOUS
  <2> QED  BY <2>1, <1>1, <1>3
<1> QED  BY <1>2, <1>3

LEMMA LoggingStep ==
    ASSUME UlogTyped, NEW t \in Logger, NEW pc_to \in LogPlaces, NEW b \in 0..BlkMax,
           \/ logging' = [logging EXCEPT ![t].pc = pc_to] /\ b = logging[t].blk
           \/ logging' = [logging EXCEPT ![t] = [pc |-> pc_to, blk |-> b]]
    PROVE  /\ logging' \in [Logger -> [pc : LogPlaces, blk : 0..BlkMax]]
           /\ logging'[t].pc = pc_to /\ logging'[t].blk = b
           /\ \A u \in Logger : u # t => logging'[u] = logging[u]
<1>1. logging \in [Logger -> [pc : LogPlaces, blk : 0..BlkMax]]  BY DEF UlogTyped, LogPlaces
<1>2. CASE logging' = [logging EXCEPT ![t].pc = pc_to] /\ b = logging[t].blk  BY <1>1, <1>2
<1>3. CASE logging' = [logging EXCEPT ![t] = [pc |-> pc_to, blk |-> b]]
  <2>1. [pc |-> pc_to, blk |-> b] \in [pc : LogPlaces, blk : 0..BlkMax]  OBVIOUS
  <2> QED  BY <2>1, <1>1, <1>3
<1> QED  BY <1>2, <1>3

\* The cells after a copy.
Copies(b, at, size) ==
    /\ cells' \in [0..BufSize - 1 -> 0..BlkMax]
    /\ \A i \in at..at + size - 1 : cells'[i] = b
    /\ \A i \in 0..BufSize - 1 : i \notin at..at + size - 1 => cells'[i] = cells[i]

LEMMA CopiedIs ==
    ASSUME UlogTyped, NEW b \in Blocks, NEW at \in Nat, NEW size \in Nat, at + size <= BufSize,
           cells' = Copied(b, at, size)
    PROVE  Copies(b, at, size)
<1>1. BufSize \in Nat /\ BlkMax \in Nat /\ b \in 0..BlkMax  BY UlogAssumption DEF Blocks
<1>2. DOMAIN cells = 0..BufSize - 1 /\ \A i \in 0..BufSize - 1 : cells[i] \in 0..BlkMax
  BY DEF UlogTyped
<1>3. cells' = [i \in 0..BufSize - 1 |-> IF i \in at..at + size - 1 THEN b ELSE cells[i]]
  BY <1>2 DEF Copied
<1>4. \A i \in at..at + size - 1 : i \in 0..BufSize - 1  BY <1>1
<1> QED  BY <1>1, <1>2, <1>3, <1>4 DEF Copies

\* No block enters or leaves the list.
LEMMA ListKept ==
    ASSUME UlogTyped, ListInv, LaidInv, blk_list' = blk_list,
           \A b \in Blocks : /\ blk'[b].buf = blk[b].buf /\ blk'[b].size = blk[b].size
                             /\ blk'[b].status = "UNUSED" <=> blk[b].status = "UNUSED"
    PROVE  ListInv' /\ LaidInv'
<1>1. \A j \in 1..Len(blk_list) : blk_list[j] \in Blocks  BY ListFacts
<1>2. Lows(blk', blk_list) = Lows(blk, blk_list) /\ Highs(blk', blk_list) = Highs(blk, blk_list)
  BY <1>1 DEF Lows, Highs
<1>3. LaidInv'  BY <1>2 DEF LaidInv
<1>4. ListInv'  BY DEF ListInv
<1> QED  BY <1>3, <1>4

\* While nobody has the lock no thread logs.
LEMMA NobodyLogs ==
    ASSUME UlogTyped, LoggerInv, locker = NoOwner
    PROVE  /\ \A t \in Logger : logging[t].pc = "none"
           /\ \A b \in Blocks : blk[b].status # "INITED"
<1>1. \A t \in Logger : logging[t].pc = "none"  BY UlogAssumption DEF LoggerInv
<1> QED  BY <1>1 DEF LoggerInv

\* A thread begins to log and there is room.
LEMMA LogBeginRoom ==
    ASSUME UlogInv, NEW t \in Logger, NEW size \in FrameSizes, LogBegin(t, size), HasRoom(size)
    PROVE  UlogInv'
<1> USE DEF UlogInv
<1> DEFINE new == NewBlock
           n == Len(blk_list)
<1>1. /\ BlkAlloc(size, "INITED", FALSE) /\ logging' = [logging EXCEPT ![t] = [pc |-> "copy", blk |-> new]]
      /\ locker = NoOwner /\ locker' = t /\ UNCHANGED <<cells, output>>
  BY DEF LogBegin
<1>2. ListInv' /\ LaidInv'  BY <1>1, AllocKeeps
<1>3. /\ new \in Blocks /\ blk[new].status = "UNUSED"
      /\ blk' \in [Blocks -> Block] /\ blk_list' \in Seq(Blocks)
      /\ Len(blk_list') = n + 1 /\ blk_list'[n + 1] = new
      /\ \A j \in 1..n : blk_list'[j] = blk_list[j] /\ blk_list[j] # new
      /\ blk'[new].status = "INITED" /\ blk'[new].isr = FALSE
      /\ blk'[new].buf = NewPlace(size) /\ blk'[new].size = size
      /\ NewPlace(size) \in Nat /\ size \in Nat /\ size > 0 /\ NewPlace(size) + size <= BufSize
      /\ \A c \in Blocks : c # new => blk'[c] = blk[c]
  BY <1>1, AllocStep
<1>4. n \in Nat /\ BlkMax \in Nat /\ \A j \in 1..n : blk_list[j] \in Blocks  BY ListFacts
<1>5. new \in 0..BlkMax /\ new # 0  BY <1>3, <1>4 DEF Blocks
<1>6. /\ logging' \in [Logger -> [pc : LogPlaces, blk : 0..BlkMax]]
      /\ logging'[t].pc = "copy" /\ logging'[t].blk = new
      /\ \A u \in Logger : u # t => logging'[u] = logging[u]
  <2>1. "copy" \in LogPlaces  BY DEF LogPlaces
  <2> QED  BY <2>1, <1>1, <1>5, LoggingStep
<1>7. /\ \A u \in Logger : logging[u].pc = "none"
      /\ \A b \in Blocks : blk[b].status # "INITED"
  BY <1>1, NobodyLogs
<1> HIDE DEF new, n
<1>8. \A j \in 1..(n + 1) : j \in 1..n \/ j = n + 1  BY <1>4
<1>9. UlogTyped'
  <2>1. \A b \in Blocks : blk'[b].buf + blk'[b].size <= BufSize  BY <1>3 DEF UlogTyped
  <2>2. \A b \in Blocks : blk'[b].status # "UNUSED" => blk'[b].size > 0  BY <1>3 DEF UlogTyped
  <2> QED  BY <2>1, <2>2, <1>1, <1>3, <1>6 DEF UlogTyped, LogPlaces
<1>10. LoggerInv'
  <2>1. \A u \in Logger : logging'[u].pc # "none" <=> locker' = u  BY <1>1, <1>6, <1>7
  <2>2. \A u \in Logger : logging'[u].pc \in {"copy", "put"} =>
           logging'[u].blk \in Blocks /\ blk'[logging'[u].blk].status = "INITED"
    BY <1>3, <1>6, <1>7
  <2>3. \A b \in Blocks : blk'[b].status = "INITED" => b = new  BY <1>3, <1>7
  <2>4. \A j \in 1..(n + 1) : blk'[blk_list'[j]].status = "INITED" => j = n + 1
    BY <2>3, <1>3, <1>4, <1>8
  <2>5. \A j, k \in 1..(n + 1) : j < k => j # n + 1  BY <1>4
  <2> QED  BY <2>1, <2>2, <2>3, <2>4, <2>5, <1>3, <1>6 DEF LoggerInv
<1>11. OutputInv'
  <2>1. \A o \in Outputs : output[o].blk # 0 => output[o].blk \in Blocks
    BY <1>4 DEF UlogTyped, Blocks
  <2> QED  BY <2>1, <1>1, <1>3 DEF OutputInv
<1>12. CellsInv'
  <2>1. \A b \in Blocks : blk'[b].status \in {"PUT", "GET"} => b # new /\ blk'[b] = blk[b]  BY <1>3
  <2>2. \A u \in Logger : logging'[u].pc # "put"  BY <1>6, <1>7
  <2> QED  BY <2>1, <2>2, <1>1 DEF CellsInv, Filled
<1>13. LogsInOrder'
  <2>1. ASSUME NEW j \in 1..(n + 1), NEW k \in 1..(n + 1), j < k,
               blk'[blk_list'[j]].isr = blk'[blk_list'[k]].isr, blk'[blk_list'[k]].status = "GET"
        PROVE  blk'[blk_list'[j]].status = "GET"
    <3>1. k \in 1..n /\ j \in 1..n  BY <2>1, <1>3, <1>4, <1>8
    <3>2. blk'[blk_list'[j]] = blk[blk_list[j]] /\ blk'[blk_list'[k]] = blk[blk_list[k]]
      BY <3>1, <1>3, <1>4
    <3> QED  BY <3>1, <3>2, <2>1 DEF LogsInOrder, n
  <2> QED  BY <2>1, <1>3 DEF LogsInOrder
<1> QED  BY <1>2, <1>9, <1>10, <1>11, <1>12, <1>13

\* Steps that leave the blocks and their frames alone: only the places of threads change.
LEMMA PlacesStep ==
    ASSUME UlogInv, UNCHANGED <<blk, blk_list, cells>>, UlogTyped',
           \A t \in Logger : logging'[t].pc # "none" <=> locker' = t,
           \A t \in Logger : logging'[t].pc \in {"copy", "put"} <=> logging[t].pc \in {"copy", "put"},
           \A t \in Logger : logging'[t].pc = "put" => logging[t].pc = "put",
           \A t \in Logger : logging[t].pc \in {"copy", "put"} => logging'[t].blk = logging[t].blk,
           \A o \in Outputs : /\ output'[o].blk = output[o].blk
                              /\ output'[o].pc \in {"print", "free"} <=> output[o].pc \in {"print", "free"}
    PROVE  UlogInv'
<1> USE DEF UlogInv
<1>1. ListInv' /\ LaidInv'  BY ListKept
<1>2. LoggerInv'  BY DEF LoggerInv
<1>3. OutputInv'  BY DEF OutputInv
<1>4. CellsInv'  BY DEF CellsInv, Filled
<1>5. LogsInOrder'  BY DEF LogsInOrder
<1> QED  BY <1>1, <1>2, <1>3, <1>4, <1>5

\* They are these.
LEMMA ThreadPlaces ==
    ASSUME UlogInv, NEW t \in Logger,
           \/ \E size \in FrameSizes : LogBegin(t, size) /\ ~HasRoom(size)
           \/ LogNotice(t) \/ LogUnlock(t)
    PROVE  UlogInv'
<1> USE DEF UlogInv
<1>1. UNCHANGED <<blk, blk_list, cells>>  BY DEF LogBegin, LogNotice, LogUnlock
<1>2. output' = output \/ OutputGoes(Async, "get")
  BY NotifyStep DEF LogBegin, LogNotice, LogUnlock
<1>3. /\ output' \in [Outputs -> [pc : Places, blk : 0..BlkMax]]
      /\ \A o \in Outputs : /\ output'[o].blk = output[o].blk
                            /\ output'[o].pc \in {"print", "free"} <=> output[o].pc \in {"print", "free"}
  <2>1. CASE output' = output  BY <2>1 DEF UlogTyped, Places
  <2>2. CASE OutputGoes(Async, "get")
    <3>1. Async \in Outputs /\ "get" \in Places /\ output[Async].blk \in 0..BlkMax
      BY DEF Outputs, Places, UlogTyped
    <3>2. output' = [output EXCEPT ![Async].pc = "get"] /\ output[Async].pc \notin {"print", "free"}
      BY <2>2 DEF OutputGoes
    <3>3. /\ output' \in [Outputs -> [pc : Places, blk : 0..BlkMax]]
          /\ output'[Async].pc = "get" /\ output'[Async].blk = output[Async].blk
          /\ \A q \in Outputs : q # Async => output'[q] = output[q]
      BY <3>1, <3>2, OutputStep
    <3> QED  BY <3>2, <3>3
  <2> QED  BY <1>2, <2>1, <2>2
<1>4. \/ logging' = [logging EXCEPT ![t].pc = "unlock"] /\ locker' = t
      \/ logging' = [logging EXCEPT ![t] = [pc |-> "none", blk |-> 0]] /\ locker' = NoOwner
  <2>1. CASE (\E size \in FrameSizes : LogBegin(t, size) /\ ~HasRoom(size)) \/ LogNotice(t)
    <3>1. logging' = [logging EXCEPT ![t].pc = "unlock"]  BY <2>1 DEF LogBegin, LogNotice, Go
    <3>2. locker' = t  BY <2>1 DEF LogBegin, LogNotice, At, LoggerInv
    <3> QED  BY <3>1, <3>2
  <2>2. CASE LogUnlock(t)  BY <2>2 DEF LogUnlock
  <2> QED  BY <2>1, <2>2
<1>5. "unlock" \in LogPlaces /\ "none" \in LogPlaces /\ 0 \in 0..BlkMax /\ logging[t].blk \in 0..BlkMax
  BY UlogAssumption DEF LogPlaces, UlogTyped
<1>6. /\ logging' \in [Logger -> [pc : LogPlaces, blk : 0..BlkMax]]
      /\ \/ logging'[t].pc = "unlock" /\ locker' = t
         \/ logging'[t].pc = "none" /\ locker' = NoOwner
      /\ \A u \in Logger : u # t => logging'[u] = logging[u]
  <2>1. CASE logging' = [logging EXCEPT ![t].pc = "unlock"] /\ locker' = t
    BY <2>1, <1>5, LoggingStep
  <2>2. CASE logging' = [logging EXCEPT ![t] = [pc |-> "none", blk |-> 0]] /\ locker' = NoOwner
    BY <2>2, <1>5, LoggingStep
  <2> QED  BY <1>4, <2>1, <2>2
<1>7. logging[t].pc \notin {"copy", "put"} /\ \A u \in Logger : u # t => logging[u].pc = "none"
  <2>1. logging[t].pc \notin {"copy", "put"} /\ locker \in {NoOwner, t}
    BY DEF LogBegin, LogNotice, LogUnlock, At, LoggerInv
  <2> QED  BY <2>1, UlogAssumption DEF LoggerInv
<1>8. \A u \in Logger : logging'[u].pc # "none" <=> locker' = u
  BY <1>6, <1>7, UlogAssumption
<1>9. UlogTyped'
  <2>1. locker' \in Logger \cup {NoOwner}  BY <1>6
  <2> QED  BY <2>1, <1>1, <1>3, <1>6 DEF UlogTyped, Places, LogPlaces
<1> QED  BY <1>1, <1>3, <1>6, <1>7, <1>8, <1>9, PlacesStep

LEMMA OutputPlaces ==
    ASSUME UlogInv,
           \/ AsyncReset \/ AsyncTake \/ \E t \in Logger : Flush(t)
           \/ \E o \in Outputs : OutputGet(o) /\ Put = {}
           \/ \E o \in Outputs : OutputPrint(o)
    PROVE  UlogInv'
<1> USE DEF UlogInv
<1>1. UNCHANGED <<blk, blk_list, cells, locker, logging>>
  BY DEF AsyncReset, AsyncTake, Flush, OutputGet, OutputPrint
<1>2. \E o \in Outputs, pc_to \in Places :
         /\ output' = [output EXCEPT ![o].pc = pc_to]
         /\ output[o].pc \in {"print", "free"} <=> pc_to \in {"print", "free"}
  <2>1. Async \in Outputs /\ Logger \subseteq Outputs  BY DEF Outputs
  <2>2. CASE AsyncReset \/ AsyncTake  BY <2>1, <2>2 DEF AsyncReset, AsyncTake, Places
  <2>3. CASE \E t \in Logger : Flush(t)  BY <2>1, <2>3 DEF Flush, Places
  <2>4. ASSUME NEW o \in Outputs, OutputGet(o), Put = {} PROVE <1>2
    <3>1. output' = [output EXCEPT ![o].pc = IF o = Async THEN "reset" ELSE "none"] /\ output[o].pc = "get"
      BY <2>4 DEF OutputGet
    <3> QED  BY <3>1 DEF Places
  <2>5. ASSUME NEW o \in Outputs, OutputPrint(o) PROVE <1>2  BY <2>5 DEF OutputPrint, Places
  <2> QED  BY <2>2, <2>3, <2>4, <2>5
<1>3. PICK o \in Outputs, pc_to \in Places :
         /\ output' = [output EXCEPT ![o].pc = pc_to]
         /\ output[o].pc \in {"print", "free"} <=> pc_to \in {"print", "free"}
  BY <1>2
<1>4. output[o].blk \in 0..BlkMax  BY DEF UlogTyped
<1>5. /\ output' \in [Outputs -> [pc : Places, blk : 0..BlkMax]]
      /\ output'[o].pc = pc_to /\ output'[o].blk = output[o].blk
      /\ \A q \in Outputs : q # o => output'[q] = output[q]
  BY <1>3, <1>4, OutputStep
<1>6. UlogTyped'  BY <1>1, <1>5 DEF UlogTyped, Places
<1>7. \A t \in Logger : logging'[t].pc # "none" <=> locker' = t  BY <1>1 DEF LoggerInv
<1>8. \A q \in Outputs : /\ output'[q].blk = output[q].blk
                         /\ output'[q].pc \in {"print", "free"} <=> output[q].pc \in {"print", "free"}
  BY <1>3, <1>5
<1> QED  BY <1>1, <1>6, <1>7, <1>8, PlacesStep

\* A thread copies its frame: to cells of no other block.
LEMMA LogCopyStep ==
    ASSUME UlogInv, NEW t \in Logger, LogCopy(t)
    PROVE  UlogInv'
<1> USE DEF UlogInv
<1> DEFINE b == logging[t].blk
           at == blk[b].buf
           size == blk[b].size
<1>1. /\ logging[t].pc = "copy" /\ logging' = [logging EXCEPT ![t].pc = "put"]
      /\ cells' = Copied(b, at, size) /\ UNCHANGED <<blk, blk_list, locker, output>>
  BY DEF LogCopy, At, Go
<1>2. b \in Blocks /\ blk[b].status = "INITED"  BY <1>1 DEF LoggerInv
<1>3. at \in Nat /\ size \in Nat /\ at + size <= BufSize /\ BufSize \in Nat
  BY <1>2, UlogAssumption DEF UlogTyped, Block
<1>4. /\ cells' \in [0..BufSize - 1 -> 0..BlkMax]
      /\ \A i \in at..at + size - 1 : cells'[i] = b
      /\ \A i \in 0..BufSize - 1 : i \notin at..at + size - 1 => cells'[i] = cells[i]
  <2>1. cells' = Copied(b, at, size) /\ UlogTyped  BY <1>1
  <2> HIDE DEF b, at, size
  <2>2. Copies(b, at, size)  BY <2>1, <1>2, <1>3, CopiedIs
  <2> QED  BY <2>2 DEF Copies
<1>5. /\ logging' \in [Logger -> [pc : LogPlaces, blk : 0..BlkMax]]
      /\ logging'[t].pc = "put" /\ logging'[t].blk = b
      /\ \A u \in Logger : u # t => logging'[u] = logging[u]
  <2>1. "put" \in LogPlaces /\ b \in 0..BlkMax  BY DEF LogPlaces, UlogTyped
  <2> QED  BY <2>1, <1>1, LoggingStep
<1>6. UlogTyped'  BY <1>1, <1>4, <1>5 DEF UlogTyped, LogPlaces
<1>7. ListInv' /\ LaidInv'  BY <1>1, ListKept
<1>8. LoggerInv'
  <2>1. \A u \in Logger : (logging'[u].pc \in {"copy", "put"} <=> logging[u].pc \in {"copy", "put"})
                          /\ logging'[u].blk = logging[u].blk
    BY <1>1, <1>5
  <2>2. \A u \in Logger : logging'[u].pc # "none" <=> logging[u].pc # "none"  BY <1>1, <1>5
  <2> QED  BY <2>1, <2>2, <1>1 DEF LoggerInv
<1>9. OutputInv'  BY <1>1 DEF OutputInv
<1>10. LogsInOrder'  BY <1>1 DEF LogsInOrder
<1>11. ASSUME NEW c \in Blocks, blk[c].status \in {"PUT", "GET"} PROVE Filled(c)'
  <2>1. at + size <= blk[c].buf \/ blk[c].buf + blk[c].size <= at  BY <1>2, <1>11, BlocksApart
  <2>2. /\ blk[c].buf \in Nat /\ blk[c].size \in Nat /\ blk[c].buf + blk[c].size <= BufSize
        /\ Filled(c)
    BY <1>11 DEF UlogTyped, Block, CellsInv
  <2> HIDE DEF at, size
  <2>3. ASSUME NEW i \in blk[c].buf..blk[c].buf + blk[c].size - 1
        PROVE  i \in 0..BufSize - 1 /\ i \notin at..at + size - 1
    BY <2>1, <2>2, <1>3
  <2> QED  BY <2>2, <2>3, <1>1, <1>4 DEF Filled
<1>12. Filled(b)'
  <2>1. SUFFICES ASSUME NEW i \in at..at + size - 1 PROVE cells'[i] = b
    BY <1>1 DEF Filled
  <2> HIDE DEF b, at, size
  <2> QED  BY <1>4
<1>13. \A u \in Logger : logging'[u].pc = "put" => u = t
  BY <1>1, <1>5 DEF LoggerInv
<1>14. CellsInv'  BY <1>1, <1>5, <1>11, <1>12, <1>13 DEF CellsInv, Filled
<1> QED  BY <1>6, <1>7, <1>8, <1>9, <1>10, <1>14

\* A thread puts its block: the frame is there.
LEMMA LogPutStep ==
    ASSUME UlogInv, NEW t \in Logger, LogPut(t)
    PROVE  UlogInv'
<1> USE DEF UlogInv
<1> DEFINE b == logging[t].blk
<1>1. /\ logging[t].pc = "put" /\ logging' = [logging EXCEPT ![t].pc = "notice"]
      /\ blk' = [blk EXCEPT ![b].status = "PUT"] /\ UNCHANGED <<blk_list, cells, locker, output>>
  BY DEF LogPut, At, Go
<1>2. b \in Blocks /\ blk[b].status = "INITED" /\ Filled(b)  BY <1>1 DEF LoggerInv, CellsInv
<1>3. /\ blk' \in [Blocks -> Block] /\ blk'[b].status = "PUT"
      /\ \A c \in Blocks : /\ c # b => blk'[c] = blk[c]
                           /\ blk'[c].buf = blk[c].buf /\ blk'[c].size = blk[c].size
                           /\ blk'[c].isr = blk[c].isr
  BY <1>1, <1>2, StatusStep
<1>4. /\ logging' \in [Logger -> [pc : LogPlaces, blk : 0..BlkMax]]
      /\ logging'[t].pc = "notice" /\ logging'[t].blk = b
      /\ \A u \in Logger : u # t => logging'[u] = logging[u]
  <2>1. "notice" \in LogPlaces /\ b \in 0..BlkMax  BY DEF LogPlaces, UlogTyped
  <2> QED  BY <2>1, <1>1, LoggingStep
<1>5. \A u \in Logger : u # t => logging[u].pc = "none"  BY <1>1 DEF LoggerInv
<1> HIDE DEF b
<1>6. UlogTyped'  BY <1>1, <1>2, <1>3, <1>4 DEF UlogTyped, LogPlaces
<1>7. ListInv' /\ LaidInv'
  <2>1. \A c \in Blocks : blk'[c].status = "UNUSED" <=> blk[c].status = "UNUSED"  BY <1>2, <1>3
  <2> QED  BY <2>1, <1>1, <1>3, ListKept
<1>8. \A c \in Blocks : blk'[c].status # "INITED"  BY <1>2, <1>3, <1>5, <1>1 DEF LoggerInv, b
<1>9. \A j \in 1..Len(blk_list) : blk_list[j] \in Blocks  BY ListFacts
<1>10. LoggerInv'
  <2>1. \A u \in Logger : logging'[u].pc # "none" <=> locker' = u  BY <1>1, <1>4, <1>5 DEF LoggerInv
  <2>2. \A u \in Logger : logging'[u].pc \notin {"copy", "put"}  BY <1>4, <1>5
  <2> QED  BY <2>1, <2>2, <1>1, <1>8, <1>9 DEF LoggerInv
<1>11. OutputInv'
  <2>1. \A c \in Blocks : blk'[c].status = "GET" <=> blk[c].status = "GET"  BY <1>2, <1>3
  <2>2. \A o \in Outputs : output[o].blk # 0 => output[o].blk \in Blocks
    BY UlogAssumption DEF UlogTyped, Blocks
  <2> QED  BY <2>1, <2>2, <1>1 DEF OutputInv
<1>12. CellsInv'
  <2>1. \A c \in Blocks : blk'[c].status \in {"PUT", "GET"} => Filled(c)  BY <1>2, <1>3 DEF CellsInv
  <2>2. \A c \in Blocks : Filled(c) => Filled(c)'  BY <1>1, <1>3 DEF Filled
  <2>3. \A u \in Logger : logging'[u].pc # "put"  BY <1>4, <1>5
  <2> QED  BY <2>1, <2>2, <2>3 DEF CellsInv
<1>13. LogsInOrder'
  <2>1. \A c \in Blocks : (blk'[c].status = "GET" <=> blk[c].status = "GET") /\ blk'[c].isr = blk[c].isr
    BY <1>2, <1>3
  <2> QED  BY <2>1, <1>1, <1>9 DEF LogsInOrder
<1> QED  BY <1>6, <1>7, <1>10, <1>11, <1>12, <1>13

\* A handler logs, in one step.
LEMMA LogInIsrStep ==
    ASSUME UlogInv, NEW size \in FrameSizes, LogInIsr(size)
    PROVE  UlogInv'
<1> USE DEF UlogInv
<1>0. PICK new, at, n : new = NewBlock /\ at = NewPlace(size) /\ n = Len(blk_list)  OBVIOUS
<1>1. /\ HasRoom(size) /\ BlkAlloc(size, "PUT", TRUE) /\ cells' = Copied(new, at, size)
      /\ UNCHANGED <<locker, logging>>
  BY <1>0 DEF LogInIsr
<1>2. ListInv' /\ LaidInv'  BY <1>1, AllocKeeps
<1>3. /\ new \in Blocks /\ blk[new].status = "UNUSED"
      /\ blk' \in [Blocks -> Block] /\ blk_list' \in Seq(Blocks)
      /\ Len(blk_list') = n + 1 /\ blk_list'[n + 1] = new
      /\ \A j \in 1..n : blk_list'[j] = blk_list[j] /\ blk_list[j] # new
      /\ blk'[new].status = "PUT" /\ blk'[new].isr = TRUE
      /\ blk'[new].buf = at /\ blk'[new].size = size
      /\ at \in Nat /\ size \in Nat /\ size > 0 /\ at + size <= BufSize
      /\ \A c \in Blocks : c # new => blk'[c] = blk[c]
  BY <1>0, <1>1, AllocStep
<1>4. n \in Nat /\ BlkMax \in Nat /\ \A j \in 1..n : blk_list[j] \in Blocks  BY <1>0, ListFacts
<1>5. /\ cells' \in [0..BufSize - 1 -> 0..BlkMax]
      /\ \A i \in at..at + size - 1 : cells'[i] = new
      /\ \A i \in 0..BufSize - 1 : i \notin at..at + size - 1 => cells'[i] = cells[i]
  <2>1. UlogTyped /\ cells' = Copied(new, at, size)  BY <1>1
  <2>2. Copies(new, at, size)  BY <2>1, <1>3, CopiedIs
  <2> QED  BY <2>2 DEF Copies
<1>6. output' = output \/ OutputGoes(Async, "get")  BY NotifyStep DEF LogInIsr
<1>7. /\ output' \in [Outputs -> [pc : Places, blk : 0..BlkMax]]
      /\ \A o \in Outputs : /\ output'[o].blk = output[o].blk
                            /\ output'[o].pc \in {"print", "free"} <=> output[o].pc \in {"print", "free"}
  <2>1. CASE output' = output  BY <2>1 DEF UlogTyped, Places
  <2>2. CASE OutputGoes(Async, "get")
    <3>1. Async \in Outputs /\ "get" \in Places /\ output[Async].blk \in 0..BlkMax
      BY DEF Outputs, Places, UlogTyped
    <3>2. output' = [output EXCEPT ![Async].pc = "get"] /\ output[Async].pc \notin {"print", "free"}
      BY <2>2 DEF OutputGoes
    <3>3. /\ output' \in [Outputs -> [pc : Places, blk : 0..BlkMax]]
          /\ output'[Async].pc = "get" /\ output'[Async].blk = output[Async].blk
          /\ \A q \in Outputs : q # Async => output'[q] = output[q]
      BY <3>1, <3>2, OutputStep
    <3> QED  BY <3>2, <3>3
  <2> QED  BY <1>6, <2>1, <2>2
<1>8. \A j \in 1..(n + 1) : j \in 1..n \/ j = n + 1  BY <1>4
<1>9. \A j \in 1..n : blk'[blk_list'[j]] = blk[blk_list[j]]  BY <1>3, <1>4
<1>10. UlogTyped'
  <2>1. \A b \in Blocks : blk'[b].buf + blk'[b].size <= BufSize  BY <1>3 DEF UlogTyped
  <2>2. \A b \in Blocks : blk'[b].status # "UNUSED" => blk'[b].size > 0  BY <1>3, SMTT(30) DEF UlogTyped
  <2> QED  BY <2>1, <2>2, <1>1, <1>3, <1>5, <1>7 DEF UlogTyped, Places
<1>11. LoggerInv'
  <2>1. \A b \in Blocks : blk'[b].status = "INITED" <=> blk[b].status = "INITED"  BY <1>3
  <2>2. \A b \in Blocks : blk'[b].status = "INITED" => blk'[b] = blk[b]  BY <1>3
  <2>3. ASSUME NEW j \in 1..(n + 1), NEW k \in 1..(n + 1), j < k, blk'[blk_list'[j]].status = "INITED"
        PROVE  blk'[blk_list'[k]].isr
    <3>1. CASE k = n + 1  BY <3>1, <1>3
    <3>2. CASE k \in 1..n
      <4>1. j \in 1..n  BY <3>2, <2>3, <1>4
      <4> QED  BY <4>1, <3>2, <2>3, <1>9, <1>0 DEF LoggerInv
    <3> QED  BY <3>1, <3>2, <1>8
  <2>4. \A u \in Logger : logging'[u].pc \in {"copy", "put"} =>
           logging'[u].blk \in Blocks /\ blk'[logging'[u].blk].status = "INITED"
    BY <2>1, <1>1 DEF LoggerInv
  <2> QED  BY <2>1, <2>2, <2>3, <2>4, <1>1, <1>3 DEF LoggerInv
<1>12. OutputInv'
  <2>1. \A o \in Outputs : output[o].blk # 0 => output[o].blk \in Blocks
    BY <1>4 DEF UlogTyped, Blocks
  <2>2. \A b \in Blocks : blk'[b].status = "GET" <=> blk[b].status = "GET"  BY <1>3
  <2> QED  BY <2>1, <2>2, <1>7 DEF OutputInv
<1>13. CellsInv'
  <2>1. ASSUME NEW c \in Blocks, c # new, blk[c].status # "UNUSED", Filled(c) PROVE Filled(c)'
    <3>1. at + size <= blk[c].buf \/ blk[c].buf + blk[c].size <= at
      <4>1. blk'[new].buf + blk'[new].size <= blk'[c].buf \/ blk'[c].buf + blk'[c].size <= blk'[new].buf
        <5>1. UlogTyped' /\ ListInv' /\ LaidInv'  BY <1>2, <1>10
        <5>2. PICK j \in 1..Len(blk_list') : blk_list'[j] = new  BY <1>3, <5>1 DEF ListInv
        <5>3. PICK k \in 1..Len(blk_list') : blk_list'[k] = c  BY <2>1, <1>3, <5>1 DEF ListInv
        <5>4. j < k \/ k < j  BY <5>2, <5>3, <2>1, <1>3, <1>4
        <5>5. \A x, y \in 1..Len(blk_list') : x < y =>
                 \/ Highs(blk', blk_list')[x] <= Lows(blk', blk_list')[y]
                 \/ Highs(blk', blk_list')[y] <= Lows(blk', blk_list')[x]
          BY <5>1 DEF LaidInv, Laid
        <5>6. /\ Lows(blk', blk_list')[j] = blk'[new].buf
              /\ Highs(blk', blk_list')[j] = blk'[new].buf + blk'[new].size
              /\ Lows(blk', blk_list')[k] = blk'[c].buf
              /\ Highs(blk', blk_list')[k] = blk'[c].buf + blk'[c].size
          BY <5>2, <5>3 DEF Lows, Highs
        <5> QED  BY <5>4, <5>5, <5>6
      <4> QED  BY <4>1, <2>1, <1>3
    <3>2. blk[c].buf \in Nat /\ blk[c].size \in Nat /\ blk[c].buf + blk[c].size <= BufSize /\ BufSize \in Nat
      BY UlogAssumption DEF UlogTyped, Block
    <3>3. ASSUME NEW i \in blk[c].buf..blk[c].buf + blk[c].size - 1
          PROVE  i \in 0..BufSize - 1 /\ i \notin at..at + size - 1
      <4>1. at \in Nat /\ size \in Nat  BY <1>3
      <4> QED  BY <4>1, <3>1, <3>2
    <3> QED  BY <3>3, <2>1, <1>3, <1>5 DEF Filled
  <2>2. Filled(new)'  BY <1>3, <1>5 DEF Filled
  <2>3. \A c \in Blocks : blk'[c].status \in {"PUT", "GET"} => Filled(c)'
    BY <2>1, <2>2, <1>3 DEF CellsInv
  <2>4. ASSUME NEW u \in Logger, logging'[u].pc = "put" PROVE \E c : c = logging'[u].blk /\ Filled(c)'
    <3>1. PICK c : c = logging[u].blk  OBVIOUS
    <3>2. c \in Blocks /\ blk[c].status = "INITED" /\ Filled(c)
      BY <3>1, <2>4, <1>1 DEF LoggerInv, CellsInv
    <3>3. Filled(c)'  BY <3>2, <2>1, <1>3
    <3> QED  BY <3>1, <3>3, <1>1
  <2> QED  BY <2>3, <2>4, <1>1 DEF CellsInv, Filled
<1>14. LogsInOrder'
  <2>1. ASSUME NEW j \in 1..(n + 1), NEW k \in 1..(n + 1), j < k,
               blk'[blk_list'[j]].isr = blk'[blk_list'[k]].isr, blk'[blk_list'[k]].status = "GET"
        PROVE  blk'[blk_list'[j]].status = "GET"
    <3>1. k # n + 1
      <4>1. CASE k = n + 1  BY <4>1, <2>1, <1>3
      <4> QED  BY <4>1
    <3>2. k \in 1..n  BY <3>1, <1>8
    <3>3. j \in 1..n  BY <3>2, <2>1, <1>4
    <3> QED  BY <3>2, <3>3, <2>1, <1>9, <1>0 DEF LogsInOrder
  <2> QED  BY <2>1, <1>3 DEF LogsInOrder
<1> QED  BY <1>2, <1>10, <1>11, <1>12, <1>13, <1>14

\* The first block that was put is taken: what is before it and is not taken yet is the
\* block that a thread fills, and then it is a handler's.
LEMMA OutputGetStep ==
    ASSUME UlogInv, NEW o \in Outputs, OutputGet(o), Put # {}
    PROVE  UlogInv'
<1> USE DEF UlogInv
<1>1. PICK n, m : n = Len(blk_list) /\ m = Min(Put)  OBVIOUS
<1>2. n \in Nat /\ BlkMax \in Nat /\ \A j \in 1..n : blk_list[j] \in Blocks /\ blk[blk_list[j]].status # "UNUSED"
  BY <1>1, ListFacts
<1>3. m \in 1..n /\ blk[blk_list[m]].status = "PUT" /\ \A j \in 1..n : j < m => blk[blk_list[j]].status # "PUT"
  <2>1. Put \in SUBSET Nat  BY <1>1, <1>2 DEF Put
  <2>2. m \in Put /\ \A j \in Put : m <= j  BY <2>1, <1>1, MinIsLeast
  <2>3. \A j \in 1..n : j < m => j \notin Put  BY <2>1, <2>2, <1>2
  <2> QED  BY <2>2, <2>3, <1>1 DEF Put
<1>4. PICK f : f = blk_list[m]  OBVIOUS
<1>5. f \in Blocks /\ blk[f].status = "PUT" /\ f \in 0..BlkMax /\ f # 0  BY <1>2, <1>3, <1>4 DEF Blocks
<1>6. /\ output[o].pc = "get" /\ blk' = [blk EXCEPT ![f].status = "GET"]
      /\ output' = [output EXCEPT ![o] = [pc |-> "print", blk |-> f]]
      /\ UNCHANGED <<blk_list, cells, locker, logging>>
  BY <1>1, <1>4 DEF OutputGet, FirstPut
<1>7. /\ blk' \in [Blocks -> Block] /\ blk'[f].status = "GET"
      /\ \A c \in Blocks : /\ c # f => blk'[c] = blk[c]
                           /\ blk'[c].buf = blk[c].buf /\ blk'[c].size = blk[c].size
                           /\ blk'[c].isr = blk[c].isr
  BY <1>5, <1>6, StatusStep
<1>8. /\ output' \in [Outputs -> [pc : Places, blk : 0..BlkMax]]
      /\ output'[o].pc = "print" /\ output'[o].blk = f
      /\ \A q \in Outputs : q # o => output'[q] = output[q]
  <2>1. "print" \in Places  BY DEF Places
  <2> QED  BY <2>1, <1>5, <1>6, OutputStep
<1>9. UlogTyped'
  <2>1. \A c \in Blocks : blk'[c].status # "UNUSED" => blk'[c].size > 0  BY <1>5, <1>7 DEF UlogTyped
  <2> QED  BY <2>1, <1>6, <1>7, <1>8 DEF UlogTyped, Places
<1>10. ListInv' /\ LaidInv'
  <2>1. \A c \in Blocks : blk'[c].status = "UNUSED" <=> blk[c].status = "UNUSED"  BY <1>5, <1>7
  <2> QED  BY <2>1, <1>6, <1>7, ListKept
<1>11. LoggerInv'
  <2>1. \A c \in Blocks : blk'[c].status = "INITED" <=> blk[c].status = "INITED"  BY <1>5, <1>7
  <2>2. \A c \in Blocks : blk'[c].status = "INITED" => ~blk'[c].isr  BY <2>1, <1>7 DEF LoggerInv
  <2>3. ASSUME NEW j \in 1..n, NEW k \in 1..n, j < k, blk'[blk_list[j]].status = "INITED"
        PROVE  blk'[blk_list[k]].isr
    BY <2>1, <2>3, <1>1, <1>2, <1>7 DEF LoggerInv
  <2> QED  BY <2>1, <2>2, <2>3, <1>1, <1>6 DEF LoggerInv
<1>12. OutputInv'
  <2>1. output[o].blk = 0 /\ \A q \in Outputs : output[q].blk # f  BY <1>5, <1>6 DEF OutputInv
  <2>2. \A q \in Outputs : output[q].blk # 0 => output[q].blk \in Blocks
    BY <1>2 DEF UlogTyped, Blocks
  <2>3. \A q \in Outputs : output'[q].pc \in {"print", "free"} <=> output'[q].blk # 0
    BY <1>5, <1>8 DEF OutputInv
  <2>4. \A q \in Outputs : output'[q].blk # 0 => blk'[output'[q].blk].status = "GET"
    BY <2>1, <2>2, <1>7, <1>8 DEF OutputInv
  <2>5. ASSUME NEW b \in Blocks, blk'[b].status = "GET" PROVE \E q \in Outputs : output'[q].blk = b
    <3>1. CASE b = f  BY <3>1, <1>8
    <3>2. CASE b # f
      <4>1. PICK q \in Outputs : output[q].blk = b  BY <3>2, <2>5, <1>7 DEF OutputInv
      <4>2. q # o  BY <4>1, <2>1, <1>2 DEF Blocks
      <4> QED  BY <4>1, <4>2, <1>8
    <3> QED  BY <3>1, <3>2
  <2>6. \A p, q \in Outputs : output'[p].blk # 0 /\ output'[p].blk = output'[q].blk => p = q
    BY <2>1, <1>8 DEF OutputInv
  <2> QED  BY <2>3, <2>4, <2>5, <2>6 DEF OutputInv
<1>13. CellsInv'
  <2>1. \A c \in Blocks : Filled(c) => Filled(c)'  BY <1>6, <1>7 DEF Filled
  <2>2. \A c \in Blocks : blk'[c].status \in {"PUT", "GET"} => Filled(c)  BY <1>5, <1>7 DEF CellsInv
  <2>3. ASSUME NEW u \in Logger, logging'[u].pc = "put" PROVE \E c : c = logging'[u].blk /\ Filled(c)'
    <3>1. PICK c : c = logging[u].blk  OBVIOUS
    <3>2. c \in Blocks /\ Filled(c)  BY <3>1, <2>3, <1>6 DEF LoggerInv, CellsInv
    <3> QED  BY <3>1, <3>2, <2>1, <1>6
  <2> QED  BY <2>1, <2>2, <2>3 DEF CellsInv, Filled
<1>14. LogsInOrder'
  <2>1. ASSUME NEW j \in 1..n, NEW k \in 1..n, j < k,
               blk'[blk_list[j]].isr = blk'[blk_list[k]].isr, blk'[blk_list[k]].status = "GET"
        PROVE  blk'[blk_list[j]].status = "GET"
    <3>1. PICK a, b \in Blocks : a = blk_list[j] /\ b = blk_list[k]  BY <1>2
    <3>2. blk[a].isr = blk[b].isr /\ blk'[b].status = "GET"  BY <3>1, <2>1, <1>7
    <3>3. CASE b = f
      <4>0. \A x, y \in 1..n : blk_list[x] = blk_list[y] => x = y  BY <1>1 DEF ListInv
      <4>1. k = m  BY <4>0, <3>1, <3>3, <1>3, <1>4
      <4>2. blk[a].status # "PUT" /\ blk[a].status # "UNUSED"  BY <4>1, <3>1, <2>1, <1>2, <1>3
      <4>3. blk[a].status # "INITED"
        <5>1. blk[a].status = "INITED" => blk[b].isr /\ ~blk[a].isr  BY <3>1, <2>1, <1>1 DEF LoggerInv
        <5> QED  BY <5>1, <3>2
      <4>4. blk[a].status = "GET"  BY <4>2, <4>3, <3>1 DEF UlogTyped, Block
      <4> QED  BY <4>4, <3>1, <1>5, <1>7
    <3>4. CASE b # f
      <4>1. blk[b].status = "GET"  BY <3>1, <3>2, <3>4, <1>7
      <4>2. blk[a].status = "GET"  BY <4>1, <3>1, <3>2, <2>1, <1>1 DEF LogsInOrder
      <4> QED  BY <4>2, <3>1, <1>5, <1>7
    <3> QED  BY <3>3, <3>4
  <2> QED  BY <2>1, <1>1, <1>6 DEF LogsInOrder
<1> QED  BY <1>9, <1>10, <1>11, <1>12, <1>13, <1>14

\* A block is freed and leaves the list, from wherever it is.
LEMMA OutputFreeStep ==
    ASSUME UlogInv, NEW o \in Outputs, OutputFree(o)
    PROVE  UlogInv'
<1> USE DEF UlogInv
<1>1. PICK b, n : b = output[o].blk /\ n = Len(blk_list)  OBVIOUS
<1>2. /\ output[o].pc = "free" /\ output' = [output EXCEPT ![o] = [pc |-> "get", blk |-> 0]]
      /\ blk_list' = RemoveFirst(blk_list, b) /\ blk' = [blk EXCEPT ![b] = Unused]
      /\ cells' = [i \in DOMAIN cells |-> IF cells[i] = b THEN 0 ELSE cells[i]]
      /\ UNCHANGED <<locker, logging>>
  BY <1>1 DEF OutputFree
<1>3. n \in Nat /\ BlkMax \in Nat /\ \A j \in 1..n : blk_list[j] \in Blocks
  BY <1>1, ListFacts
<1>4. b \in Blocks /\ blk[b].status = "GET"
  <2>1. b # 0 /\ b \in 0..BlkMax  BY <1>1, <1>2 DEF OutputInv, UlogTyped
  <2> QED  BY <2>1, <1>1, <1>3 DEF OutputInv, Blocks
<1>5. PICK p \in 1..n : blk_list[p] = b  BY <1>1, <1>4 DEF ListInv
<1>6. \A k \in 1..n : blk_list[k] = b => k = p  BY <1>1, <1>5 DEF ListInv
<1> DEFINE up(k) == IF k < p THEN k ELSE k + 1
<1>7. /\ blk_list' \in Seq(Blocks) /\ Len(blk_list') = n - 1
      /\ \A k \in 1..(n - 1) : blk_list'[k] = blk_list[up(k)]
  <2>1. blk_list \in Seq(Blocks) /\ p \in 1..Len(blk_list)
        /\ \A k \in 1..Len(blk_list) : blk_list[k] = blk_list[p] => k = p
    BY <1>1, <1>5, <1>6 DEF UlogTyped
  <2>2. /\ RemoveFirst(blk_list, blk_list[p]) \in Seq(Blocks)
        /\ Len(RemoveFirst(blk_list, blk_list[p])) = Len(blk_list) - 1
        /\ \A k \in 1..(Len(blk_list) - 1) :
              RemoveFirst(blk_list, blk_list[p])[k] = blk_list[IF k < p THEN k ELSE k + 1]
    BY <2>1, RemoveFirstIs
  <2> QED  BY <2>2, <1>1, <1>2, <1>5
<1>8. \A k \in 1..(n - 1) : up(k) \in 1..n /\ up(k) # p  BY <1>3
<1>9. \A j, k \in 1..(n - 1) : (j < k => up(j) < up(k)) /\ (up(j) = up(k) => j = k)  BY <1>3
<1>10. ASSUME NEW k \in 1..n, k # p PROVE \E j \in 1..(n - 1) : up(j) = k
  <2>1. CASE k < p
    <3>1. k \in 1..(n - 1) /\ up(k) = k  BY <2>1, <1>3
    <3> QED  BY <3>1
  <2>2. CASE k > p
    <3>1. PICK j : j = k - 1  OBVIOUS
    <3>2. j \in 1..(n - 1) /\ up(j) = k  BY <3>1, <2>2, <1>3
    <3> QED  BY <3>2
  <2>3. k < p \/ k > p  BY <1>3, <1>10
  <2> QED  BY <2>1, <2>2, <2>3
<1> HIDE DEF up
<1>11. /\ blk' \in [Blocks -> Block] /\ blk'[b] = Unused
       /\ \A c \in Blocks : c # b => blk'[c] = blk[c]
  BY <1>2, <1>4, FreeStep
<1>12. \A k \in 1..(n - 1) : /\ blk_list'[k] \in Blocks /\ blk_list'[k] # b
                             /\ blk'[blk_list'[k]] = blk[blk_list[up(k)]]
  BY <1>3, <1>6, <1>7, <1>8, <1>11
<1>13. /\ output' \in [Outputs -> [pc : Places, blk : 0..BlkMax]]
       /\ output'[o].pc = "get" /\ output'[o].blk = 0
       /\ \A q \in Outputs : q # o => output'[q] = output[q]
  <2>1. "get" \in Places /\ 0 \in 0..BlkMax  BY <1>3 DEF Places
  <2> QED  BY <2>1, <1>2, OutputStep
<1>14. /\ cells' \in [0..BufSize - 1 -> 0..BlkMax]
       /\ \A i \in 0..BufSize - 1 : cells[i] # b => cells'[i] = cells[i]
  BY <1>2, <1>3 DEF UlogTyped
<1>15. BufSize \in Nat /\ Unused.status = "UNUSED" /\ Unused.buf = 0 /\ Unused.size = 0
  BY UlogAssumption DEF Unused
<1>16. UlogTyped'
  <2>1. \A c \in Blocks : blk'[c].buf + blk'[c].size <= BufSize
    <3>1. \A c \in Blocks : c # b => blk'[c].buf + blk'[c].size <= BufSize  BY <1>11 DEF UlogTyped
    <3>2. blk'[b].buf = 0 /\ blk'[b].size = 0 /\ 0 + 0 <= BufSize  BY <1>11, <1>15
    <3> QED  BY <3>1, <3>2
  <2>2. \A c \in Blocks : blk'[c].status # "UNUSED" => blk'[c].size > 0  BY <1>11, <1>15 DEF UlogTyped
  <2> QED  BY <2>1, <2>2, <1>2, <1>7, <1>11, <1>13, <1>14 DEF UlogTyped, Places
<1>17. ListInv'
  <2>1. \A j, k \in 1..(n - 1) : blk_list'[j] = blk_list'[k] => j = k
    <3>1. \A j, k \in 1..n : blk_list[j] = blk_list[k] => j = k  BY <1>1 DEF ListInv
    <3> QED  BY <3>1, <1>7, <1>8, <1>9
  <2>2. ASSUME NEW c \in Blocks
        PROVE  (\E j \in 1..(n - 1) : blk_list'[j] = c) <=> blk'[c].status # "UNUSED"
    <3>1. CASE c = b  BY <3>1, <1>11, <1>12, <1>15
    <3>2. CASE c # b
      <4>1. blk'[c].status # "UNUSED" <=> \E j \in 1..n : blk_list[j] = c
        BY <3>2, <1>1, <1>11 DEF ListInv
      <4>2. ASSUME NEW j \in 1..(n - 1), blk_list'[j] = c PROVE \E k \in 1..n : blk_list[k] = c
        BY <4>2, <1>7, <1>8
      <4>3. ASSUME NEW k \in 1..n, blk_list[k] = c PROVE \E j \in 1..(n - 1) : blk_list'[j] = c
        <5>1. k # p  BY <4>3, <3>2, <1>5
        <5>2. PICK j \in 1..(n - 1) : up(j) = k  BY <5>1, <1>10
        <5> QED  BY <5>2, <4>3, <1>7
      <4> QED  BY <4>1, <4>2, <4>3
    <3> QED  BY <3>1, <3>2
  <2> QED  BY <2>1, <2>2, <1>7 DEF ListInv
<1>18. LaidInv'
  <2>1. PICK lo, hi, lo2, hi2 : /\ lo = Lows(blk, blk_list) /\ hi = Highs(blk, blk_list)
                                /\ lo2 = Lows(blk', blk_list') /\ hi2 = Highs(blk', blk_list')
    OBVIOUS
  <2>2. /\ lo \in [1..n -> Int] /\ hi \in [1..n -> Int]
        /\ \A j \in 1..n : /\ lo[j] = blk[blk_list[j]].buf
                           /\ hi[j] = blk[blk_list[j]].buf + blk[blk_list[j]].size
    BY <2>1, <1>1, ListFacts
  <2>3. Laid(n, lo, hi)  BY <2>1, <1>1 DEF LaidInv
  <2>4. \A k \in 1..(n - 1) : lo2[k] = lo[up(k)] /\ hi2[k] = hi[up(k)]
    <3>1. \A k \in 1..(n - 1) : /\ lo2[k] = blk'[blk_list'[k]].buf
                                /\ hi2[k] = blk'[blk_list'[k]].buf + blk'[blk_list'[k]].size
      BY <2>1, <1>7 DEF Lows, Highs
    <3> QED  BY <3>1, <2>2, <1>8, <1>12
  <2>5. Laid(n - 1, lo2, hi2)  BY <2>2, <2>3, <2>4, <1>3, LaidRemove DEF up
  <2> QED  BY <2>5, <2>1, <1>7 DEF LaidInv
<1>19. LoggerInv'
  <2>1. \A c \in Blocks : blk'[c].status = "INITED" <=> blk[c].status = "INITED"  BY <1>4, <1>11, <1>15
  <2>2. \A c \in Blocks : blk'[c].status = "INITED" => ~blk'[c].isr  BY <2>1, <1>4, <1>11 DEF LoggerInv
  <2>3. ASSUME NEW j \in 1..(n - 1), NEW k \in 1..(n - 1), j < k, blk'[blk_list'[j]].status = "INITED"
        PROVE  blk'[blk_list'[k]].isr
    <3>1. PICK x, y \in 1..n : x = up(j) /\ y = up(k)  BY <1>8
    <3>2. x < y  BY <3>1, <2>3, <1>9
    <3> QED  BY <3>1, <3>2, <2>3, <1>1, <1>12 DEF LoggerInv
  <2> QED  BY <2>1, <2>2, <2>3, <1>2, <1>7 DEF LoggerInv
<1>20. OutputInv'
  <2>1. \A q \in Outputs : q # o => output[q].blk # b
    <3>1. b # 0  BY <1>4 DEF Blocks
    <3> QED  BY <3>1, <1>1 DEF OutputInv
  <2>2. \A q \in Outputs : output[q].blk # 0 => output[q].blk \in Blocks
    BY <1>3 DEF UlogTyped, Blocks
  <2>3. \A q \in Outputs : output'[q].pc \in {"print", "free"} <=> output'[q].blk # 0
    BY <1>13 DEF OutputInv
  <2>4. \A q \in Outputs : output'[q].blk # 0 => blk'[output'[q].blk].status = "GET"
    BY <2>1, <2>2, <1>11, <1>13 DEF OutputInv
  <2>5. ASSUME NEW c \in Blocks, blk'[c].status = "GET" PROVE \E q \in Outputs : output'[q].blk = c
    <3>1. c # b /\ blk[c].status = "GET"  BY <2>5, <1>11, <1>15
    <3>2. PICK q \in Outputs : output[q].blk = c  BY <3>1 DEF OutputInv
    <3>3. q # o  BY <3>1, <3>2, <1>1
    <3> QED  BY <3>2, <3>3, <1>13
  <2>6. \A x, y \in Outputs : output'[x].blk # 0 /\ output'[x].blk = output'[y].blk => x = y
    BY <1>13 DEF OutputInv
  <2> QED  BY <2>3, <2>4, <2>5, <2>6 DEF OutputInv
<1>21. CellsInv'
  <2>1. ASSUME NEW c \in Blocks, c # b, Filled(c) PROVE Filled(c)'
    <3>1. blk[c].buf \in Nat /\ blk[c].size \in Nat /\ blk[c].buf + blk[c].size <= BufSize
      BY DEF UlogTyped, Block
    <3>2. ASSUME NEW i \in blk[c].buf..blk[c].buf + blk[c].size - 1 PROVE cells'[i] = c
      <4>1. i \in 0..BufSize - 1  BY <3>1, <1>15
      <4> QED  BY <4>1, <2>1, <1>14 DEF Filled
    <3> QED  BY <3>2, <2>1, <1>11 DEF Filled
  <2>2. \A c \in Blocks : blk'[c].status \in {"PUT", "GET"} => c # b /\ Filled(c)
    BY <1>11, <1>15 DEF CellsInv
  <2>3. ASSUME NEW u \in Logger, logging'[u].pc = "put" PROVE \E c : c = logging'[u].blk /\ Filled(c)'
    <3>1. PICK c : c = logging[u].blk  OBVIOUS
    <3>2. c \in Blocks /\ c # b /\ Filled(c)
      BY <3>1, <2>3, <1>2, <1>4 DEF LoggerInv, CellsInv
    <3> QED  BY <3>1, <3>2, <2>1, <1>2
  <2>4. \A c \in Blocks : blk'[c].status \in {"PUT", "GET"} => Filled(c)'  BY <2>1, <2>2
  <2> QED  BY <2>3, <2>4 DEF CellsInv, Filled
<1>22. LogsInOrder'
  <2>1. ASSUME NEW j \in 1..(n - 1), NEW k \in 1..(n - 1), j < k,
               blk'[blk_list'[j]].isr = blk'[blk_list'[k]].isr, blk'[blk_list'[k]].status = "GET"
        PROVE  blk'[blk_list'[j]].status = "GET"
    <3>1. PICK x, y \in 1..n : x = up(j) /\ y = up(k)  BY <1>8
    <3>2. x < y  BY <3>1, <2>1, <1>9
    <3> QED  BY <3>1, <3>2, <2>1, <1>1, <1>12 DEF LogsInOrder
  <2> QED  BY <2>1, <1>7 DEF LogsInOrder
<1> QED  BY <1>16, <1>17, <1>18, <1>19, <1>20, <1>21, <1>22

\* At the start there is no block.
LEMMA UlogInvInit ==
    ASSUME InitUlog
    PROVE  UlogInv
<1> USE DEF InitUlog
<1>1. BufSize \in Nat /\ BlkMax \in Nat  BY UlogAssumption
<1>2. blk_list = <<>> /\ Len(blk_list) = 0 /\ blk_list \in Seq(Blocks) /\ 1..0 = {}
  BY EmptySeq
<1>3. \A b \in Blocks : blk[b].status = "UNUSED" /\ blk[b].buf = 0 /\ blk[b].size = 0
  BY DEF Unused
<1>4. blk \in [Blocks -> Block]  BY DEF Unused, Block
<1>5. \A t \in Logger : logging[t].pc = "none" /\ logging[t].blk = 0  OBVIOUS
<1>6. \A o \in Outputs : output[o].blk = 0 /\ output[o].pc \in {"reset", "none"}  OBVIOUS
<1>7. UlogTyped
  <2>1. \A b \in Blocks : blk[b].buf + blk[b].size <= BufSize  BY <1>1, <1>3
  <2>2. cells \in [0..BufSize - 1 -> 0..BlkMax]  BY <1>1
  <2>3. logging \in [Logger -> [pc : LogPlaces, blk : 0..BlkMax]]  BY <1>1 DEF LogPlaces
  <2>4. output \in [Outputs -> [pc : Places, blk : 0..BlkMax]]  BY <1>1 DEF Places
  <2> QED  BY <2>1, <2>2, <2>3, <2>4, <1>2, <1>3, <1>4 DEF UlogTyped, Places, LogPlaces
<1>8. ListInv /\ LogsInOrder  BY <1>2, <1>3 DEF ListInv, LogsInOrder
<1>9. LaidInv  BY <1>2 DEF LaidInv, Laid
<1>10. LoggerInv  BY <1>2, <1>3, <1>5, UlogAssumption DEF LoggerInv
<1>11. OutputInv  BY <1>3, <1>6 DEF OutputInv
<1>12. CellsInv  BY <1>3, <1>5 DEF CellsInv
<1> QED  BY <1>7, <1>8, <1>9, <1>10, <1>11, <1>12 DEF UlogInv

LEMMA UlogInvStep ==
    ASSUME UlogInv, [Next]_vars
    PROVE  UlogInv'
<1>1. CASE UNCHANGED ulogVars
  <2>1. UNCHANGED <<blk, blk_list, cells, locker, notice, logging, output>>  BY <1>1 DEF ulogVars
  <2>2. UlogTyped'  BY <2>1 DEF UlogInv, UlogTyped
  <2>3. \A t \in Logger : logging'[t].pc # "none" <=> locker' = t  BY <2>1 DEF UlogInv, LoggerInv
  <2> QED  BY <2>1, <2>2, <2>3, PlacesStep
<1>2. CASE NextUlog
  <2>1. ASSUME NEW t \in Logger, NEW size \in FrameSizes, LogBegin(t, size) PROVE UlogInv'
    BY <2>1, LogBeginRoom, ThreadPlaces
  <2>2. ASSUME NEW t \in Logger, LogCopy(t) PROVE UlogInv'  BY <2>2, LogCopyStep
  <2>3. ASSUME NEW t \in Logger, LogPut(t) PROVE UlogInv'  BY <2>3, LogPutStep
  <2>4. ASSUME NEW t \in Logger, LogNotice(t) \/ LogUnlock(t) PROVE UlogInv'  BY <2>4, ThreadPlaces
  <2>5. ASSUME NEW t \in Logger, Flush(t) PROVE UlogInv'  BY <2>5, OutputPlaces
  <2>6. ASSUME NEW size \in FrameSizes, LogInIsr(size) PROVE UlogInv'  BY <2>6, LogInIsrStep
  <2>7. ASSUME AsyncReset \/ AsyncTake PROVE UlogInv'  BY <2>7, OutputPlaces
  <2>8. ASSUME NEW o \in Outputs, OutputGet(o) PROVE UlogInv'  BY <2>8, OutputPlaces, OutputGetStep
  <2>9. ASSUME NEW o \in Outputs, OutputPrint(o) PROVE UlogInv'  BY <2>9, OutputPlaces
  <2>10. ASSUME NEW o \in Outputs, OutputFree(o) PROVE UlogInv'  BY <2>10, OutputFreeStep
  <2> QED  BY <1>2, <2>1, <2>2, <2>3, <2>4, <2>5, <2>6, <2>7, <2>8, <2>9, <2>10 DEF NextUlog
<1>3. UNCHANGED ulogVars \/ NextUlog  BY DEF Next, vars
<1> QED  BY <1>1, <1>2, <1>3

\* A block that was taken is with one thread, and its cells hold its frame.
LEMMA UlogInvWhole ==
    ASSUME UlogInv
    PROVE  LogsWhole
<1> USE DEF UlogInv
<1>1. \A o \in Outputs : output[o].blk # 0 => output[o].blk \in Blocks
  BY UlogAssumption DEF UlogTyped, Blocks
<1>2. ASSUME NEW o \in Outputs, output[o].pc = "print"
      PROVE  /\ blk[output[o].blk].status = "GET"
             /\ Filled(output[o].blk)
  BY <1>1, <1>2 DEF OutputInv, CellsInv
<1>3. ASSUME NEW b \in Blocks
      PROVE  Cardinality({o \in Outputs : output[o].blk = b}) = (IF blk[b].status = "GET" THEN 1 ELSE 0)
  <2>1. b # 0  BY DEF Blocks
  <2>2. CASE blk[b].status = "GET"
    <3>1. PICK o \in Outputs : output[o].blk = b  BY <2>2 DEF OutputInv
    <3>2. {q \in Outputs : output[q].blk = b} = {o}  BY <3>1, <2>1 DEF OutputInv
    <3> QED  BY <3>2, <2>2, FS_Singleton
  <2>3. CASE blk[b].status # "GET"
    <3>1. {q \in Outputs : output[q].blk = b} = {}  BY <2>1, <2>3 DEF OutputInv
    <3> QED  BY <3>1, <2>3, FS_EmptySet
  <2> QED  BY <2>2, <2>3
<1> QED  BY <1>2, <1>3 DEF LogsWhole, Filled

\* Whatever a thread prints is whole and is its own, for buffers, blocks and frames of any
\* number and size: LogsWhole of rt_rbb_blk_alloc, rt_rbb_blk_get and rt_rbb_blk_free, with
\* any number of threads that log and flush.
THEOREM LogsPrintedWhole == Spec => []LogsWhole
<1>1. Init => UlogInv  BY UlogInvInit DEF Init
<1>2. UlogInv /\ [Next]_vars => UlogInv'  BY UlogInvStep
<1>3. UlogInv => LogsWhole  BY UlogInvWhole
<1> QED  BY <1>1, <1>2, <1>3, PTL DEF Spec

\* Threads' logs and handlers' logs are taken in the order in which they got their blocks
\* (LogsInOrder): a log may only overtake the one a thread is still copying, and then it is
\* a handler's.
THEOREM LogsTakenInOrder == Spec => []LogsInOrder
<1>1. Init => UlogInv  BY UlogInvInit DEF Init
<1>2. UlogInv /\ [Next]_vars => UlogInv'  BY UlogInvStep
<1>3. UlogInv => LogsInOrder  BY DEF UlogInv
<1> QED  BY <1>1, <1>2, <1>3, PTL DEF Spec

-----------------------------------------------------------------------------
(* The scheduler: the ready lists.                                         *)

SchTyped(s) ==
    s \in [current : Task, stat : [Task -> {"READY", "SUSPEND"}], prio : [Task -> Priorities],
           table : [Priorities -> Seq(Task)], group : SUBSET Priorities, lowered : BOOLEAN]

\* The threads of A are on the lists of their priorities, once each, and no other thread
\* is; the bits are those of the lists that are not empty.
On(s, A) ==
    /\ \A p \in Priorities : \A j, k \in 1..Len(s.table[p]) : s.table[p][j] = s.table[p][k] => j = k
    /\ \A t \in Task, p \in Priorities :
          (\E n \in 1..Len(s.table[p]) : s.table[p][n] = t) <=> t \in A /\ s.prio[t] = p
    /\ s.group = {p \in Priorities : s.table[p] # <<>>}

Ready(s) == {t \in Task : s.stat[t] = "READY" /\ t # s.current}
Listed(s) == On(s, Ready(s))

\* The running thread is one that rt_schedule would choose, or go on with.
Best(s) ==
    /\ s.stat[s.current] = "READY"
    /\ \A t \in Task : s.stat[t] = "READY" => s.prio[s.current] <= s.prio[t]

LEMMA PrioritiesNat == Priorities \in SUBSET Nat /\ \A t \in Task : TaskPrio[t] \in Priorities
  BY SchedAssumption DEF Priorities

\* What rt_schedule_insert_thread and rt_schedule_remove_thread change.
LEMMA InsertIs ==
    ASSUME NEW s, SchTyped(s), NEW t \in Task
    PROVE  LET r == ScheduleInsert(s, t) IN
           /\ SchTyped(r) /\ r.current = s.current /\ r.prio = s.prio /\ r.lowered = s.lowered
           /\ r.stat = [s.stat EXCEPT ![t] = "READY"]
           /\ t = s.current => r.table = s.table /\ r.group = s.group
           /\ t # s.current => /\ r.table = [s.table EXCEPT ![s.prio[t]] = Append(@, t)]
                               /\ r.group = s.group \cup {s.prio[t]}
<1>1. s.prio[t] \in Priorities /\ s.table[s.prio[t]] \in Seq(Task)  BY DEF SchTyped
<1>2. Append(s.table[s.prio[t]], t) \in Seq(Task)  BY <1>1, AppendProperties
<1> QED  BY <1>1, <1>2 DEF SchTyped, ScheduleInsert

LEMMA RemoveIs ==
    ASSUME NEW s, SchTyped(s), NEW A, On(s, A), NEW t \in Task
    PROVE  LET r == ScheduleRemove(s, t) IN
           /\ SchTyped(r) /\ r.current = s.current /\ r.prio = s.prio /\ r.lowered = s.lowered
           /\ r.stat = s.stat
           /\ On(r, A \ {t})
<1>1. PICK r, table : r = ScheduleRemove(s, t) /\ table = [q \in Priorities |-> RemoveFirst(s.table[q], t)]
  OBVIOUS
<1>2. r = [s EXCEPT !.table = table, !.group = IF table[s.prio[t]] = <<>> THEN @ \ {s.prio[t]} ELSE @]
  BY <1>1 DEF ScheduleRemove
<1>3. ASSUME NEW q \in Priorities
      PROVE  /\ table[q] \in Seq(Task) /\ s.table[q] \in Seq(Task)
             /\ \A j, k \in 1..Len(table[q]) : table[q][j] = table[q][k] => j = k
             /\ \A y \in Task : (\E k \in 1..Len(table[q]) : table[q][k] = y)
                          <=> y # t /\ \E k \in 1..Len(s.table[q]) : s.table[q][k] = y
  <2>1. PICK l : l = s.table[q]  OBVIOUS
  <2>2. l \in Seq(Task) /\ \A j, k \in 1..Len(l) : l[j] = l[k] => j = k  BY <2>1 DEF SchTyped, On
  <2>3. table[q] = RemoveFirst(l, t)  BY <2>1, <1>1
  <2>4. PICK m : m = RemoveFirst(l, t)  OBVIOUS
  <2>5. /\ m \in Seq(Task) /\ \A j, k \in 1..Len(m) : m[j] = m[k] => j = k
        /\ \A y \in Task : (\E k \in 1..Len(m) : m[k] = y) <=> y # t /\ \E k \in 1..Len(l) : l[k] = y
    BY <2>2, <2>4, RemoveFirstSeq
  <2> QED  BY <2>1, <2>2, <2>3, <2>4, <2>5
<1>4. table \in [Priorities -> Seq(Task)]  BY <1>1, <1>3
<1>5. /\ SchTyped(r) /\ r.current = s.current /\ r.prio = s.prio /\ r.lowered = s.lowered
      /\ r.stat = s.stat /\ r.table = table
      /\ r.group = IF table[s.prio[t]] = <<>> THEN s.group \ {s.prio[t]} ELSE s.group
  BY <1>2, <1>4 DEF SchTyped
<1>6. \A u \in Task, q \in Priorities :
         (\E k \in 1..Len(table[q]) : table[q][k] = u) <=> u \in A \ {t} /\ s.prio[u] = q
  <2>1. \A u \in Task, q \in Priorities :
           (\E k \in 1..Len(s.table[q]) : s.table[q][k] = u) <=> u \in A /\ s.prio[u] = q
    BY DEF On
  <2>2. ASSUME NEW u \in Task, NEW q \in Priorities
        PROVE  (\E k \in 1..Len(table[q]) : table[q][k] = u)
                  <=> u # t /\ \E k \in 1..Len(s.table[q]) : s.table[q][k] = u
    BY <1>3
  <2> QED  BY <2>1, <2>2
<1>7. r.group = {q \in Priorities : table[q] # <<>>}
  <2>1. s.prio[t] \in Priorities  BY DEF SchTyped
  <2>2. s.group = {q \in Priorities : s.table[q] # <<>>}  BY DEF On
  <2>3. ASSUME NEW q \in Priorities, q # s.prio[t] PROVE table[q] = s.table[q]
    <3>1. ~ \E k \in 1..Len(s.table[q]) : s.table[q][k] = t  BY <2>3 DEF On
    <3>2. table[q] = RemoveFirst(s.table[q], t)  BY <1>1
    <3> QED  BY <3>1, <3>2, RemoveFirstNone
  <2>4. table[s.prio[t]] # <<>> => s.table[s.prio[t]] # <<>>
    <3>1. PICK l, m : l = s.table[s.prio[t]] /\ m = table[s.prio[t]]  OBVIOUS
    <3>2. m = RemoveFirst(l, t)  BY <3>1, <2>1, <1>1
    <3>3. l = <<>> => m = l
      <4>1. l = <<>> => ~ \E k \in 1..Len(l) : l[k] = t  OBVIOUS
      <4> QED  BY <4>1, <3>2, RemoveFirstNone
    <3> QED  BY <3>1, <3>3
  <2> QED  BY <2>1, <2>2, <2>3, <2>4, <1>5
<1>8. On(r, A \ {t})  BY <1>3, <1>5, <1>6, <1>7 DEF On
<1> QED  BY <1>1, <1>5, <1>8

\* A thread that is on no list goes to the end of that of its priority.
LEMMA InsertOn ==
    ASSUME NEW s, SchTyped(s), NEW A, On(s, A), NEW t \in Task, t \notin A, t # s.current
    PROVE  On(ScheduleInsert(s, t), A \cup {t})
<1>1. PICK r, p : r = ScheduleInsert(s, t) /\ p = s.prio[t]  OBVIOUS
<1>2. /\ r.prio = s.prio /\ r.table = [s.table EXCEPT ![p] = Append(@, t)]
      /\ r.group = s.group \cup {p}
  BY <1>1, InsertIs
<1>3. PICK l : l = s.table[p]  OBVIOUS
<1>4. p \in Priorities /\ l \in Seq(Task) /\ s.table \in [Priorities -> Seq(Task)]
  BY <1>1, <1>3 DEF SchTyped
<1>5. r.table[p] = Append(l, t) /\ \A q \in Priorities : q # p => r.table[q] = s.table[q]
  BY <1>2, <1>3, <1>4
<1>6. PICK a, n : a = Append(l, t) /\ n = Len(l)  OBVIOUS
<1>7. n \in Nat /\ Len(a) = n + 1 /\ a[n + 1] = t /\ \A k \in 1..n : a[k] = l[k]
  BY <1>4, <1>6, AppendProperties, LenProperties
<1>8. /\ \A j, k \in 1..n : l[j] = l[k] => j = k
      /\ \A k \in 1..n : l[k] # t
  <2>1. ~ \E k \in 1..Len(s.table[p]) : s.table[p][k] = t  BY <1>4 DEF On
  <2> QED  BY <2>1, <1>3, <1>4, <1>6 DEF On
<1>9. \A k \in 1..(n + 1) : k \in 1..n \/ k = n + 1  BY <1>7
<1>10. \A k \in 1..n : k \in 1..(n + 1)  BY <1>7
<1>11. n + 1 \in 1..(n + 1)  BY <1>7
<1>12. \A j, k \in 1..(n + 1) : a[j] = a[k] => j = k  BY <1>7, <1>8, <1>9
<1>13. \A u : (\E k \in 1..(n + 1) : a[k] = u) <=> u = t \/ \E k \in 1..n : l[k] = u
  BY <1>7, <1>9, <1>10, <1>11
<1>14. \A q \in Priorities : \A j, k \in 1..Len(r.table[q]) : r.table[q][j] = r.table[q][k] => j = k
  <2>1. ASSUME NEW q \in Priorities, NEW j \in 1..Len(r.table[q]), NEW k \in 1..Len(r.table[q]),
               r.table[q][j] = r.table[q][k]
        PROVE  j = k
    <3>1. CASE q = p  BY <3>1, <2>1, <1>5, <1>6, <1>7, <1>12
    <3>2. CASE q # p  BY <3>2, <2>1, <1>5 DEF On
    <3> QED  BY <3>1, <3>2
  <2> QED  BY <2>1
<1>15. ASSUME NEW u \in Task, NEW q \in Priorities
       PROVE  (\E k \in 1..Len(r.table[q]) : r.table[q][k] = u) <=> u \in A \cup {t} /\ r.prio[u] = q
  <2>1. (\E k \in 1..Len(s.table[q]) : s.table[q][k] = u) <=> u \in A /\ s.prio[u] = q  BY DEF On
  <2>2. CASE q = p
    <3>1. (\E k \in 1..Len(r.table[q]) : r.table[q][k] = u) <=> u = t \/ (u \in A /\ s.prio[u] = p)
      BY <2>1, <2>2, <1>3, <1>5, <1>6, <1>7, <1>13
    <3> QED  BY <3>1, <2>2, <1>1, <1>2
  <2>3. CASE q # p
    <3>1. u = t => s.prio[u] # q  BY <2>3, <1>1
    <3> QED  BY <3>1, <2>1, <2>3, <1>2, <1>5
  <2> QED  BY <2>2, <2>3
<1>16. r.group = {q \in Priorities : r.table[q] # <<>>}
  <2>1. r.table[p] # <<>>  BY <1>5, <1>6, <1>7, EmptySeq
  <2> QED  BY <2>1, <1>2, <1>4, <1>5 DEF On
<1> QED  BY <1>1, <1>14, <1>15, <1>16 DEF On

\* Inserting keeps every thread in its place.
LEMMA InsertListed ==
    ASSUME NEW s, SchTyped(s), Listed(s), NEW t \in Task, s.stat[t] = "SUSPEND"
    PROVE  Listed(ScheduleInsert(s, t))
<1>1. PICK r : r = ScheduleInsert(s, t)  OBVIOUS
<1>2. /\ r.current = s.current /\ r.prio = s.prio /\ r.stat = [s.stat EXCEPT ![t] = "READY"]
      /\ t = s.current => r.table = s.table /\ r.group = s.group
  BY <1>1, InsertIs
<1>3. s.stat \in [Task -> {"READY", "SUSPEND"}]  BY DEF SchTyped
<1>4. t \notin Ready(s)  BY DEF Ready
<1>5. CASE t = s.current
  <2>1. Ready(r) = Ready(s)  BY <1>2, <1>3, <1>5 DEF Ready
  <2> QED  BY <2>1, <1>1, <1>2, <1>5 DEF Listed, On
<1>6. CASE t # s.current
  <2>1. Ready(r) = Ready(s) \cup {t}  BY <1>2, <1>3, <1>6 DEF Ready
  <2>2. On(s, Ready(s))  BY DEF Listed
  <2>3. On(r, Ready(s) \cup {t})  BY <2>2, <1>1, <1>4, <1>6, InsertOn
  <2> QED  BY <2>1, <2>3, <1>1 DEF Listed
<1> QED  BY <1>5, <1>6

\* rt_schedule.
LEMMA ScheduleIs ==
    ASSUME NEW s, SchTyped(s), Listed(s), s.stat[IdleTask] = "READY"
    PROVE  LET r == Schedule(s) IN
           /\ SchTyped(r) /\ Listed(r) /\ r.stat = s.stat /\ r.prio = s.prio
           /\ nest = 0 => Best(r)
           /\ nest # 0 => r = s
<1>1. /\ s.current \in Task /\ s.stat \in [Task -> {"READY", "SUSPEND"}] /\ s.prio \in [Task -> Priorities]
      /\ s.group \in SUBSET Priorities /\ s.table \in [Priorities -> Seq(Task)]
  BY DEF SchTyped
<1>2. On(s, Ready(s))  BY DEF Listed
<1>3. Priorities \in SUBSET Nat /\ IdleTask \in Task  BY PrioritiesNat, SchedAssumption
<1>4. CASE nest # 0 \/ s.group = {}
  <2>1. Schedule(s) = s  BY <1>4 DEF Schedule
  <2>2. ASSUME s.group = {} PROVE Best(s)
    <3>1. ASSUME NEW t \in Ready(s) PROVE FALSE
      <4>1. PICK p \in Priorities : p = s.prio[t] /\ t \in Task  BY <1>1 DEF Ready
      <4>2. PICK k \in 1..Len(s.table[p]) : s.table[p][k] = t  BY <4>1, <1>2 DEF On
      <4>3. s.table[p] = <<>>  BY <2>2, <1>2 DEF On
      <4> QED  BY <4>2, <4>3
    <3>2. s.current = IdleTask /\ \A t \in Task : s.stat[t] = "READY" => t = s.current
      BY <3>1, <1>3 DEF Ready
    <3>3. s.prio[s.current] \in Nat  BY <1>1, <1>3
    <3> QED  BY <3>2, <3>3 DEF Best
  <2> QED  BY <2>1, <2>2, <1>4
<1>5. CASE nest = 0 /\ s.group # {}
  <2>1. PICK highest : highest = Min(s.group)  OBVIOUS
  <2>2. highest \in s.group /\ highest \in Priorities /\ \A p \in s.group : highest <= p
    <3>1. s.group \in SUBSET Nat  BY <1>1, <1>3
    <3> QED  BY <3>1, <2>1, <1>1, <1>5, MinIsLeast
  <2>3. \A t \in Ready(s) : s.prio[t] \in s.group /\ highest <= s.prio[t]
    <3>1. ASSUME NEW t \in Ready(s) PROVE s.prio[t] \in s.group
      <4>1. PICK p \in Priorities : p = s.prio[t] /\ t \in Task  BY <1>1 DEF Ready
      <4>2. PICK k \in 1..Len(s.table[p]) : s.table[p][k] = t  BY <4>1, <1>2 DEF On
      <4>3. s.table[p] # <<>>  BY <4>2
      <4> QED  BY <4>1, <4>3, <1>2 DEF On
    <3> QED  BY <3>1, <2>2
  <2>4. PICK first : first = Head(s.table[highest])  OBVIOUS
  <2>5. first \in Ready(s) /\ first \in Task /\ s.prio[first] = highest
    <3>1. s.table[highest] \in Seq(Task) /\ s.table[highest] # <<>>  BY <2>2, <1>1, <1>2 DEF On
    <3>2. 1 \in 1..Len(s.table[highest]) /\ first = s.table[highest][1] /\ first \in Task
      BY <3>1, <2>4
    <3> QED  BY <3>2, <2>2, <1>2 DEF On
  <2>6. PICK to : to = IF s.stat[s.current] = "READY" /\ s.prio[s.current] < highest THEN s.current ELSE first
    OBVIOUS
  <2>7. PICK r : r = [s EXCEPT !.current = to, !.lowered = FALSE]  OBVIOUS
  <2>8. Schedule(s) = IF to = s.current THEN ScheduleRemove(r, to)
                      ELSE ScheduleRemove(IF s.stat[s.current] = "READY" THEN ScheduleInsert(r, s.current) ELSE r, to)
    BY <2>1, <2>4, <2>6, <2>7, <1>5 DEF Schedule
  <2>9. to \in Task /\ s.stat[to] = "READY"  BY <2>5, <2>6, <1>1 DEF Ready
  <2>10. /\ SchTyped(r) /\ r.current = to /\ r.stat = s.stat /\ r.prio = s.prio
         /\ r.table = s.table /\ r.group = s.group
    BY <2>7, <2>9 DEF SchTyped
  <2>11. On(r, Ready(s))  BY <2>10, <1>2 DEF On
  <2>12. \A t \in Task : s.stat[t] = "READY" => s.prio[to] <= s.prio[t]
    <3>1. ASSUME NEW t \in Task, s.stat[t] = "READY" PROVE s.prio[to] <= s.prio[t]
      <4>1. s.prio[t] \in Nat /\ s.prio[s.current] \in Nat /\ highest \in Nat  BY <2>2, <1>1, <1>3
      <4>2. CASE t = s.current
        <5>1. CASE s.prio[s.current] < highest  BY <5>1, <4>1, <4>2, <3>1, <2>6
        <5>2. CASE ~(s.prio[s.current] < highest)  BY <5>2, <4>1, <4>2, <2>5, <2>6
        <5> QED  BY <5>1, <5>2
      <4>3. CASE t # s.current
        <5>1. highest <= s.prio[t]  BY <4>3, <3>1, <2>3 DEF Ready
        <5>2. s.prio[to] <= highest  BY <4>1, <2>5, <2>6
        <5>3. s.prio[to] \in Nat  BY <2>9, <1>1, <1>3
        <5> QED  BY <5>1, <5>2, <5>3, <4>1
      <4> QED  BY <4>2, <4>3
    <3> QED  BY <3>1
  <2>13. PICK w : w = Schedule(s)  OBVIOUS
  <2>14. /\ SchTyped(w) /\ w.current = to /\ w.stat = s.stat /\ w.prio = s.prio
         /\ On(w, {t \in Task : s.stat[t] = "READY" /\ t # to})
    <3>1. CASE to = s.current
      <4>1. w = ScheduleRemove(r, to)  BY <3>1, <2>8, <2>13
      <4>2. SchTyped(w) /\ w.current = to /\ w.stat = s.stat /\ w.prio = s.prio /\ On(w, Ready(s) \ {to})
        BY <4>1, <2>9, <2>10, <2>11, RemoveIs
      <4>3. Ready(s) \ {to} = {t \in Task : s.stat[t] = "READY" /\ t # to}  BY <3>1 DEF Ready
      <4> QED  BY <4>2, <4>3
    <3>2. CASE to # s.current /\ s.stat[s.current] = "READY"
      <4>1. PICK v : v = ScheduleInsert(r, s.current)  OBVIOUS
      <4>2. /\ SchTyped(v) /\ v.current = to /\ v.prio = s.prio
            /\ v.stat = [s.stat EXCEPT ![s.current] = "READY"]
        <5>1. /\ SchTyped(v) /\ v.current = r.current /\ v.prio = r.prio
              /\ v.stat = [r.stat EXCEPT ![s.current] = "READY"]
          BY <4>1, <2>10, <1>1, InsertIs
        <5> QED  BY <5>1, <2>10
      <4>3. v.stat = s.stat  BY <4>2, <3>2, <1>1
      <4>4. On(v, Ready(s) \cup {s.current})
        <5>1. s.current \notin Ready(s)  BY DEF Ready
        <5> QED  BY <5>1, <4>1, <3>2, <2>10, <2>11, <1>1, InsertOn
      <4>5. w = ScheduleRemove(v, to)  BY <4>1, <3>2, <2>8, <2>13
      <4>6. /\ SchTyped(w) /\ w.current = to /\ w.stat = s.stat /\ w.prio = s.prio
            /\ On(w, (Ready(s) \cup {s.current}) \ {to})
        BY <4>2, <4>3, <4>4, <4>5, <2>9, RemoveIs
      <4>7. (Ready(s) \cup {s.current}) \ {to} = {t \in Task : s.stat[t] = "READY" /\ t # to}
        BY <3>2, <1>1 DEF Ready
      <4> QED  BY <4>6, <4>7
    <3>3. CASE to # s.current /\ s.stat[s.current] # "READY"
      <4>1. w = ScheduleRemove(r, to)  BY <3>3, <2>8, <2>13
      <4>2. SchTyped(w) /\ w.current = to /\ w.stat = s.stat /\ w.prio = s.prio /\ On(w, Ready(s) \ {to})
        BY <4>1, <2>9, <2>10, <2>11, RemoveIs
      <4>3. Ready(s) \ {to} = {t \in Task : s.stat[t] = "READY" /\ t # to}  BY <3>3 DEF Ready
      <4> QED  BY <4>2, <4>3
    <3> QED  BY <3>1, <3>2, <3>3
  <2>15. Listed(w)
    <3>1. Ready(w) = {t \in Task : s.stat[t] = "READY" /\ t # to}  BY <2>14 DEF Ready
    <3> QED  BY <3>1, <2>14 DEF Listed
  <2>16. Best(w)  BY <2>9, <2>12, <2>14 DEF Best
  <2> QED  BY <2>13, <2>14, <2>15, <2>16, <1>5
<1> QED  BY <1>4, <1>5

\* rt_thread_timeout of a thread that waits.
LEMMA ThreadTimeoutIs ==
    ASSUME NEW s, SchTyped(s), Listed(s), s.stat[IdleTask] = "READY", NEW t \in Task, s.stat[t] = "SUSPEND"
    PROVE  LET r == ThreadTimeout(s, t) IN
           /\ SchTyped(r) /\ Listed(r) /\ r.stat = [s.stat EXCEPT ![t] = "READY"] /\ r.prio = s.prio
           /\ r.stat[IdleTask] = "READY"
           /\ nest = 0 => Best(r)
           /\ nest # 0 => r.current = s.current
<1>1. PICK v, r : v = ScheduleInsert(s, t) /\ r = ThreadTimeout(s, t)  OBVIOUS
<1>2. /\ SchTyped(v) /\ Listed(v) /\ v.stat = [s.stat EXCEPT ![t] = "READY"] /\ v.prio = s.prio
      /\ v.current = s.current
  BY <1>1, InsertIs, InsertListed
<1>3. v.stat[IdleTask] = "READY"  BY <1>2, SchedAssumption DEF SchTyped
<1>4. r = Schedule(v)  BY <1>1 DEF ThreadTimeout
<1>5. /\ SchTyped(r) /\ Listed(r) /\ r.stat = v.stat /\ r.prio = v.prio
      /\ nest = 0 => Best(r)
      /\ nest # 0 => r = v
  BY <1>2, <1>3, <1>4, ScheduleIs
<1> QED  BY <1>1, <1>2, <1>3, <1>5

\* rt_thread_control(RT_THREAD_CTRL_CHANGE_PRIORITY).
LEMMA ChangedPriorityIs ==
    ASSUME NEW s, SchTyped(s), Listed(s), NEW t \in Task, NEW p \in Priorities
    PROVE  LET r == ChangedPriority(s, t, p) IN
           /\ SchTyped(r) /\ Listed(r) /\ r.stat = s.stat /\ r.current = s.current
           /\ r.prio = [s.prio EXCEPT ![t] = p]
<1>1. /\ s.current \in Task /\ s.stat \in [Task -> {"READY", "SUSPEND"}] /\ s.prio \in [Task -> Priorities]
  BY DEF SchTyped
<1>2. On(s, Ready(s))  BY DEF Listed
<1>3. PICK r : r = ChangedPriority(s, t, p)  OBVIOUS
<1>4. CASE s.stat[t] = "READY"
  <2>1. PICK v : v = ScheduleRemove(s, t)  OBVIOUS
  <2>2. /\ SchTyped(v) /\ v.current = s.current /\ v.prio = s.prio /\ v.stat = s.stat
        /\ On(v, Ready(s) \ {t})
    BY <2>1, <1>2, RemoveIs
  <2>3. PICK w : w = [v EXCEPT !.prio[t] = p]  OBVIOUS
  <2>4. /\ SchTyped(w) /\ w.current = s.current /\ w.prio = [s.prio EXCEPT ![t] = p] /\ w.stat = s.stat
        /\ w.table = v.table /\ w.group = v.group
    BY <2>2, <2>3 DEF SchTyped
  <2>5. On(w, Ready(s) \ {t})
    <3>1. \A u \in Task : u # t => w.prio[u] = v.prio[u]  BY <2>2, <2>4, <1>1
    <3> QED  BY <3>1, <2>2, <2>4 DEF On
  <2>6. r = ScheduleInsert(w, t)  BY <2>1, <2>3, <1>3, <1>4 DEF ChangedPriority
  <2>7. /\ SchTyped(r) /\ r.current = s.current /\ r.prio = w.prio
        /\ r.stat = [s.stat EXCEPT ![t] = "READY"]
        /\ t = s.current => r.table = w.table /\ r.group = w.group
    <3>1. /\ SchTyped(r) /\ r.current = w.current /\ r.prio = w.prio
          /\ r.stat = [w.stat EXCEPT ![t] = "READY"]
          /\ t = w.current => r.table = w.table /\ r.group = w.group
      BY <2>4, <2>6, InsertIs
    <3> QED  BY <3>1, <2>4
  <2>8. r.stat = s.stat  BY <2>7, <1>1, <1>4
  <2>9. Ready(r) = Ready(s)  BY <2>7, <2>8 DEF Ready
  <2>10. CASE t = s.current
    <3>1. Ready(s) \ {t} = Ready(s)  BY <2>10 DEF Ready
    <3>2. On(r, Ready(s))  BY <3>1, <2>5, <2>7, <2>10 DEF On
    <3> QED  BY <3>2, <2>4, <2>7, <2>8, <2>9, <1>3 DEF Listed
  <2>11. CASE t # s.current
    <3>1. (Ready(s) \ {t}) \cup {t} = Ready(s)  BY <2>11, <1>4 DEF Ready
    <3>2. On(r, (Ready(s) \ {t}) \cup {t})  BY <2>4, <2>5, <2>6, <2>11, InsertOn
    <3> QED  BY <3>1, <3>2, <2>4, <2>7, <2>8, <2>9, <1>3 DEF Listed
  <2> QED  BY <2>10, <2>11
<1>5. CASE s.stat[t] # "READY"
  <2>1. r = [s EXCEPT !.prio[t] = p]  BY <1>3, <1>5 DEF ChangedPriority
  <2>2. /\ SchTyped(r) /\ r.current = s.current /\ r.prio = [s.prio EXCEPT ![t] = p] /\ r.stat = s.stat
        /\ r.table = s.table /\ r.group = s.group
    BY <2>1 DEF SchTyped
  <2>3. Ready(r) = Ready(s) /\ t \notin Ready(s)  BY <2>2, <1>5 DEF Ready
  <2>4. \A u \in Task : u # t => r.prio[u] = s.prio[u]  BY <2>2, <1>1
  <2>5. On(r, Ready(s))  BY <2>2, <2>3, <2>4, <1>2 DEF On
  <2> QED  BY <2>2, <2>3, <2>5, <1>3 DEF Listed
<1> QED  BY <1>4, <1>5

\* rt_thread_suspend of the running thread.
LEMMA SuspendedIs ==
    ASSUME NEW s, SchTyped(s), Listed(s), NEW t \in Task, t = s.current
    PROVE  LET r == Suspended(s, t) IN
           /\ SchTyped(r) /\ Listed(r) /\ r.stat = [s.stat EXCEPT ![t] = "SUSPEND"]
           /\ r.current = s.current /\ r.prio = s.prio
<1>1. PICK v, r : v = [s EXCEPT !.stat[t] = "SUSPEND"] /\ r = Suspended(s, t)  OBVIOUS
<1>2. /\ SchTyped(v) /\ v.current = s.current /\ v.prio = s.prio
      /\ v.stat = [s.stat EXCEPT ![t] = "SUSPEND"] /\ v.table = s.table /\ v.group = s.group
  BY <1>1 DEF SchTyped
<1>3. On(v, Ready(s))  BY <1>2 DEF Listed, On
<1>4. r = ScheduleRemove(v, t)  BY <1>1 DEF Suspended
<1>5. /\ SchTyped(r) /\ r.current = v.current /\ r.prio = v.prio /\ r.stat = v.stat
      /\ On(r, Ready(s) \ {t})
  BY <1>2, <1>3, <1>4, RemoveIs
<1>6. Ready(r) = Ready(s) \ {t}  BY <1>2, <1>5 DEF Ready, SchTyped
<1> QED  BY <1>1, <1>2, <1>5, <1>6 DEF Listed

-----------------------------------------------------------------------------
(* The scheduler: timers and the system tick.                              *)

\* The function of TimedOut is there: the least number of timers for which it is not cannot
\* be 0, nor have a predecessor.
LEMMA TimedOutSteps ==
    ASSUME NEW s, NEW last \in Nat
    PROVE  \E f : /\ f = [n \in 0..last |-> IF n = 0 THEN s ELSE ThreadTimeout(f[n - 1], timers[n])]
                  /\ TimedOut(s, last) = f[last]
<1> DEFINE Steps(f, m) == f = [n \in 0..m |-> IF n = 0 THEN s ELSE ThreadTimeout(f[n - 1], timers[n])]
           T == {m \in Nat : ~ \E f : Steps(f, m)}
<1>1. ASSUME T # {} PROVE FALSE
  <2>1. PICK m \in T : \A k \in T : m <= k
    <3>1. T \in SUBSET Nat  OBVIOUS
    <3> HIDE DEF T
    <3> QED  BY <3>1, <1>1, LeastNatural
  <2>2. m \in Nat /\ ~ \E f : Steps(f, m)  OBVIOUS
  <2>3. CASE m = 0
    <3>1. PICK f : f = [n \in 0..m |-> s]  OBVIOUS
    <3>2. \A n \in 0..m : n = 0  BY <2>3
    <3>3. Steps(f, m)  BY <3>1, <3>2
    <3> QED  BY <3>3, <2>2
  <2>4. CASE m > 0
    <3>1. PICK p \in Nat : m = p + 1  BY <2>2, <2>4
    <3>2. p \notin T
      <4> HIDE DEF T
      <4>1. p \in T => m <= p  BY <2>1
      <4> QED  BY <4>1, <3>1
    <3>3. PICK g : Steps(g, p)  BY <3>2
    <3>4. PICK f : f = [n \in 0..m |-> IF n = m THEN ThreadTimeout(g[p], timers[m]) ELSE g[n]]  OBVIOUS
    <3>5. ASSUME NEW n \in 0..m
          PROVE  f[n] = IF n = 0 THEN s ELSE ThreadTimeout(f[n - 1], timers[n])
      <4>1. CASE n = m
        <5>1. n # 0 /\ n - 1 = p /\ p \in 0..m /\ p # m  BY <4>1, <3>1
        <5> QED  BY <5>1, <4>1, <3>4
      <4>2. CASE n # m
        <5>1. n \in 0..p  BY <4>2, <3>1
        <5>2. g[n] = IF n = 0 THEN s ELSE ThreadTimeout(g[n - 1], timers[n])  BY <5>1, <3>3
        <5>3. n # 0 => n - 1 \in 0..m /\ n - 1 # m  BY <5>1, <3>1
        <5> QED  BY <5>2, <5>3, <4>2, <3>4
      <4> QED  BY <4>1, <4>2
    <3>6. Steps(f, m)  BY <3>4, <3>5
    <3> QED  BY <3>6, <2>2
  <2> QED  BY <2>2, <2>3, <2>4
<1>2. \E f : Steps(f, last)  BY <1>1
<1>3. PICK f : f = CHOOSE g : Steps(g, last)  OBVIOUS
<1>4. Steps(f, last)  BY <1>2, <1>3
<1>5. TimedOut(s, last) = f[last]  BY <1>3 DEF TimedOut
<1> QED  BY <1>4, <1>5

\* The timers that are due wake their threads, one after the other.
LEMMA TimedOutIs ==
    ASSUME NEW s, SchTyped(s), Listed(s), s.stat[IdleTask] = "READY",
           timers \in Seq(Task), \A j, k \in 1..Len(timers) : timers[j] = timers[k] => j = k,
           \A j \in 1..Len(timers) : s.stat[timers[j]] = "SUSPEND",
           NEW last \in 0..Len(timers)
    PROVE  LET r == TimedOut(s, last) IN
           /\ SchTyped(r) /\ Listed(r) /\ r.stat[IdleTask] = "READY"
           /\ \A t \in Task : r.stat[t] = IF \E n \in 1..last : timers[n] = t THEN "READY" ELSE s.stat[t]
           /\ last = 0 => r = s
           /\ nest = 0 /\ last # 0 => Best(r)
           /\ nest # 0 => r.current = s.current
<1>1. last \in Nat /\ Len(timers) \in Nat /\ \A n \in 1..last : n \in 1..Len(timers) /\ timers[n] \in Task
  BY LenProperties, ElementOfSeq
<1>2. PICK f : /\ f = [n \in 0..last |-> IF n = 0 THEN s ELSE ThreadTimeout(f[n - 1], timers[n])]
               /\ TimedOut(s, last) = f[last]
  BY <1>1, TimedOutSteps
<1> DEFINE Good(m) == /\ SchTyped(f[m]) /\ Listed(f[m]) /\ f[m].stat[IdleTask] = "READY"
                      /\ \A t \in Task :
                            f[m].stat[t] = IF \E n \in 1..m : timers[n] = t THEN "READY" ELSE s.stat[t]
                      /\ m = 0 => f[m] = s
                      /\ nest = 0 /\ m # 0 => Best(f[m])
                      /\ nest # 0 => f[m].current = s.current
           T == {m \in 0..last : ~Good(m)}
<1>3. f[0] = s  BY <1>1, <1>2
<1>4. \A m \in 1..last : f[m] = ThreadTimeout(f[m - 1], timers[m])  BY <1>1, <1>2
<1>5. Good(0)
  <2>1. 1..0 = {}  OBVIOUS
  <2> QED  BY <2>1, <1>3
<1>6. ASSUME NEW m \in 1..last, NEW p \in 0..last, m = p + 1, Good(p) PROVE Good(m)
  <2>1. PICK v, r, t : v = f[p] /\ r = f[m] /\ t = timers[m]  OBVIOUS
  <2>2. m - 1 = p  BY <1>6, <1>1
  <2>3. r = ThreadTimeout(v, t)  BY <2>1, <2>2, <1>4
  <2>4. \A n \in 1..m : n \in 1..p \/ n = m  BY <1>1, <1>6
  <2>5. \A n \in 1..p : n \in 1..m /\ n # m  BY <1>1, <1>6
  <2>6. t \in Task /\ s.stat[t] = "SUSPEND"  BY <2>1, <1>1
  <2>7. ~ \E n \in 1..p : timers[n] = t
    <3>1. \A n \in 1..p : n \in 1..last  BY <2>5, <1>1, <1>6
    <3> QED  BY <3>1, <2>1, <2>5, <1>1
  <2>8. /\ SchTyped(v) /\ Listed(v) /\ v.stat[IdleTask] = "READY"
        /\ \A u \in Task : v.stat[u] = IF \E n \in 1..p : timers[n] = u THEN "READY" ELSE s.stat[u]
        /\ nest # 0 => v.current = s.current
    BY <2>1, <1>6
  <2>9. v.stat[t] = "SUSPEND"  BY <2>6, <2>7, <2>8
  <2>10. /\ SchTyped(r) /\ Listed(r) /\ r.stat = [v.stat EXCEPT ![t] = "READY"]
         /\ r.stat[IdleTask] = "READY"
         /\ nest = 0 => Best(r)
         /\ nest # 0 => r.current = v.current
    BY <2>3, <2>6, <2>8, <2>9, ThreadTimeoutIs, SMTT(30)
  <2>11. ASSUME NEW u \in Task
         PROVE  r.stat[u] = IF \E n \in 1..m : timers[n] = u THEN "READY" ELSE s.stat[u]
    <3>1. v.stat \in [Task -> {"READY", "SUSPEND"}]  BY <2>8 DEF SchTyped
    <3>2. CASE u = t
      <4>1. m \in 1..m  BY <1>6, <1>1
      <4> QED  BY <4>1, <3>1, <3>2, <2>1, <2>10
    <3>3. CASE u # t
      <4>1. (\E n \in 1..m : timers[n] = u) <=> (\E n \in 1..p : timers[n] = u)
        BY <3>3, <2>1, <2>4, <2>5
      <4> QED  BY <4>1, <3>1, <3>3, <2>8, <2>10
    <3> QED  BY <3>2, <3>3
  <2>12. m # 0  BY <1>1
  <2> QED  BY <2>1, <2>8, <2>10, <2>11, <2>12
<1>7. ASSUME T # {} PROVE FALSE
  <2>1. PICK m \in T : \A k \in T : m <= k
    <3>1. T \in SUBSET Nat  OBVIOUS
    <3> HIDE DEF T
    <3> QED  BY <3>1, <1>7, LeastNatural
  <2> HIDE DEF Good
  <2>2. m \in 0..last /\ ~Good(m)  OBVIOUS
  <2>3. m # 0  BY <2>2, <1>5
  <2>4. PICK p \in 0..last : m = p + 1
    <3>1. m - 1 \in 0..last /\ m = (m - 1) + 1  BY <2>2, <2>3, <1>1
    <3> QED  BY <3>1
  <2>5. p \notin T  BY <2>1, <2>4, <1>1
  <2>6. Good(p)  BY <2>5
  <2>7. m \in 1..last  BY <2>2, <2>3, <1>1
  <2> QED  BY <2>2, <2>4, <2>6, <2>7, <1>6
<1> HIDE DEF Good
<1>8. last \in 0..last  BY <1>1
<1>9. Good(last)  BY <1>7, <1>8
<1> QED  BY <1>2, <1>9 DEF Good

\* A timer is on the list once at most; those that run out first are first; and a timer's
\* tick is the one that is left ticks away, although both wrap.
TimersTyped ==
    /\ timers \in Seq(Task) /\ tick \in 0..TickMax
    /\ timeout \in [Task -> Int] /\ left \in [Task -> Int]
TimersOnce == \A j, k \in 1..Len(timers) : timers[j] = timers[k] => j = k
TimesInv ==
    /\ \A j, k \in 1..Len(timers) : j < k => left[timers[j]] <= left[timers[k]]
    /\ \A j \in 1..Len(timers) : /\ left[timers[j]] \in 0..(TickMax \div 2) - 1
                                 /\ timeout[timers[j]] = (tick + left[timers[j]]) % TickMod
TimerInv == TimersTyped /\ TimersOnce /\ TimesInv

Started(t) == \E j \in 1..Len(timers) : timers[j] = t

LEMMA TickFacts ==
    /\ TickMod \in Nat \ {0} /\ TickMax \in Nat /\ TickMax \div 2 \in Nat /\ TickMax \div 2 >= 2
    /\ 2 * (TickMax \div 2) <= TickMax /\ TickMax = TickMod - 1
    /\ \A d \in Delays : d \in 0..(TickMax \div 2) - 1
<1>1. TickMod \in Nat \ {0} /\ TickMax \in Nat /\ TickMax = TickMod - 1 /\ TickMax >= 4
  BY SchedAssumption DEF TickMax
<1>2. PICK m \in Nat, h \in Int : m = TickMax /\ h = m \div 2  BY <1>1
<1>3. h >= 2 /\ 2 * h <= m  BY <1>1, <1>2
<1>4. \A d \in Delays : d \in 0..(h - 1)  BY <1>2, <1>3, SchedAssumption
<1> QED  BY <1>1, <1>2, <1>3, <1>4

\* How far apart two ticks are, as far as their remainders tell.
LEMMA TicksApart ==
    ASSUME NEW now \in Nat, NEW a \in 0..(TickMax \div 2), NEW b \in 0..(TickMax \div 2), NEW x,
           x = (((now + a) % TickMod) - ((now + b) % TickMod)) % TickMod
    PROVE  x \in Nat /\ (a >= b => x = a - b) /\ (a < b => x = (a - b) + TickMod)
<1>1. PICK m \in Nat \ {0}, h \in Nat : m = TickMod /\ h = TickMax \div 2 /\ h >= 2 /\ 2 * h <= m - 1
  BY TickFacts
<1>2. PICK y \in Int, z \in Int, d \in Int : y = now + a /\ z = now + b /\ d = a - b  BY <1>1
<1>3. ((y % m) - (z % m)) % m = (y - z) % m  BY ModDifference
<1>4. y - z = d  BY <1>1, <1>2
<1>5. x = d % m  BY <1>1, <1>2, <1>3, <1>4
<1>6. CASE a >= b
  <2>1. d \in 0..(m - 1)  BY <1>1, <1>2, <1>6
  <2>2. d % m = d  BY <2>1, ModSmall
  <2> QED  BY <2>1, <2>2, <1>1, <1>2, <1>5, <1>6
<1>7. CASE a < b
  <2>1. PICK r : r = d + m  OBVIOUS
  <2>2. r \in 0..(m - 1) /\ r - m = d  BY <2>1, <1>1, <1>2, <1>7
  <2>3. (r - m) % m = r  BY <2>2, ModSmall
  <2> QED  BY <2>1, <2>2, <2>3, <1>1, <1>2, <1>5, <1>7
<1>8. a >= b \/ a < b  BY <1>1
<1> QED  BY <1>6, <1>7, <1>8

LEMMA LaterIs ==
    ASSUME tick \in 0..TickMax, NEW u \in Task, NEW a \in 0..(TickMax \div 2) - 1, NEW d \in Delays,
           timeout[u] = (tick + a) % TickMod
    PROVE  Later(u, (tick + d) % TickMod) <=> a > d
<1>1. PICK h \in Nat : h = TickMax \div 2 /\ h >= 2 /\ 2 * h <= TickMod - 1 /\ TickMod \in Nat
  BY TickFacts
<1>2. tick \in Nat /\ a \in 0..h /\ d \in 0..h /\ a < h /\ d < h  BY <1>1, TickFacts
<1>3. PICK x : x = (((tick + a) % TickMod) - ((tick + d) % TickMod)) % TickMod  OBVIOUS
<1>4. x \in Nat /\ (a >= d => x = a - d) /\ (a < d => x = (a - d) + TickMod)
  BY <1>1, <1>2, <1>3, TicksApart
<1>5. Later(u, (tick + d) % TickMod) <=> x # 0 /\ x < h  BY <1>1, <1>3 DEF Later
<1>6. a > d \/ a = d \/ a < d  BY <1>2
<1> QED  BY <1>1, <1>2, <1>4, <1>5, <1>6

LEMMA DueIs ==
    ASSUME tick \in 0..TickMax, NEW u \in Task, NEW a \in 0..(TickMax \div 2) - 1,
           timeout[u] = (tick + a) % TickMod
    PROVE  Due(u, (tick + 1) % TickMod) <=> a <= 1
<1>1. PICK h \in Nat : h = TickMax \div 2 /\ h >= 2 /\ 2 * h <= TickMod - 1 /\ TickMod \in Nat
  BY TickFacts
<1>2. tick \in Nat /\ a \in 0..h /\ 1 \in 0..h /\ a < h  BY <1>1
<1>3. PICK x : x = (((tick + 1) % TickMod) - ((tick + a) % TickMod)) % TickMod  OBVIOUS
<1>4. x \in Nat /\ (1 >= a => x = 1 - a) /\ (1 < a => x = (1 - a) + TickMod)
  BY <1>1, <1>2, <1>3, TicksApart
<1>5. Due(u, (tick + 1) % TickMod) <=> x < h  BY <1>1, <1>3 DEF Due
<1>6. a <= 1 \/ a > 1  BY <1>1
<1> QED  BY <1>1, <1>2, <1>4, <1>5, <1>6

\* rt_timer_stop.
LEMMA TimerStopKeeps ==
    ASSUME TimerInv, NEW t \in Task, TimerStop(t), tick' = tick
    PROVE  TimerInv' /\ \A u \in Task : Started(u)' <=> u # t /\ Started(u)
<1> USE DEF TimerInv
<1>1. PICK l, r : l = timers /\ r = timers'  OBVIOUS
<1>2. l \in Seq(Task) /\ \A j, k \in 1..Len(l) : l[j] = l[k] => j = k  BY <1>1 DEF TimersTyped, TimersOnce
<1>3. /\ r = RemoveFirst(l, t) /\ timeout' = [timeout EXCEPT ![t] = 0] /\ left' = [left EXCEPT ![t] = 0]
  BY <1>1 DEF TimerStop
<1>4. /\ r \in Seq(Task) /\ \A j, k \in 1..Len(r) : r[j] = r[k] => j = k
      /\ \A y \in Task : (\E k \in 1..Len(r) : r[k] = y) <=> y # t /\ \E k \in 1..Len(l) : l[k] = y
  BY <1>2, <1>3, RemoveFirstSeq
<1>5. \A u \in Task : Started(u)' <=> u # t /\ Started(u)  BY <1>1, <1>4, ZenonT(40) DEF Started
<1>6. TimersTyped' /\ TimersOnce'  BY <1>1, <1>3, <1>4 DEF TimersTyped, TimersOnce
<1>7. \A u \in Task : u # t => left'[u] = left[u] /\ timeout'[u] = timeout[u]  BY <1>3 DEF TimersTyped
<1>8. \A k \in 1..Len(r) : r[k] \in Task /\ r[k] # t /\ \E j \in 1..Len(l) : l[j] = r[k]
  <2>1. \A k \in 1..Len(r) : r[k] \in Task  BY <1>4, ElementOfSeq
  <2> QED  BY <2>1, <1>4
<1>9. \A j, k \in 1..Len(r) : j < k => left'[r[j]] <= left'[r[k]]
  <2>1. CASE ~ \E k \in 1..Len(l) : l[k] = t
    <3>1. r = l  BY <2>1, <1>3, RemoveFirstNone
    <3>2. ASSUME NEW j \in 1..Len(r), NEW k \in 1..Len(r), j < k PROVE left'[r[j]] <= left'[r[k]]
      <4>1. left[l[j]] <= left[l[k]]  BY <3>1, <3>2, <1>1 DEF TimesInv
      <4>2. left'[r[j]] = left[l[j]] /\ left'[r[k]] = left[l[k]]  BY <3>1, <1>7, <1>8
      <4> QED  BY <4>1, <4>2
    <3> QED  BY <3>2
  <2>2. CASE \E k \in 1..Len(l) : l[k] = t
    <3>1. PICK p \in 1..Len(l) : l[p] = t  BY <2>2
    <3>2. \A k \in 1..Len(l) : l[k] = l[p] => k = p  BY <1>2
    <3>3. PICK n \in Nat : n = Len(l)  BY <1>2, LenProperties
    <3>4. /\ Len(RemoveFirst(l, l[p])) = Len(l) - 1
          /\ \A k \in 1..(Len(l) - 1) : RemoveFirst(l, l[p])[k] = l[IF k < p THEN k ELSE k + 1]
      BY <3>2, <1>2, RemoveFirstIs
    <3>5. Len(r) = n - 1 /\ \A k \in 1..(n - 1) : r[k] = l[IF k < p THEN k ELSE k + 1]
      BY <3>1, <3>3, <3>4, <1>3
    <3>6. ASSUME NEW j \in 1..(n - 1), NEW k \in 1..(n - 1), j < k PROVE left'[r[j]] <= left'[r[k]]
      <4>1. PICK x, y \in 1..n : /\ x = (IF j < p THEN j ELSE j + 1) /\ y = (IF k < p THEN k ELSE k + 1)
        BY <3>3
      <4>2. x < y  BY <4>1, <3>3, <3>6
      <4>3. r[j] = l[x] /\ r[k] = l[y]  BY <4>1, <3>5
      <4>4. left[l[x]] <= left[l[y]]  BY <4>2, <3>3, <1>1 DEF TimesInv
      <4> QED  BY <4>3, <4>4, <3>5, <1>7, <1>8
    <3> QED  BY <3>5, <3>6
  <2> QED  BY <2>1, <2>2
<1>10. ASSUME NEW k \in 1..Len(r)
       PROVE  /\ left'[r[k]] \in 0..(TickMax \div 2) - 1
              /\ timeout'[r[k]] = (tick + left'[r[k]]) % TickMod
  <2>1. PICK u \in Task : u = r[k] /\ u # t  BY <1>8
  <2>2. PICK j \in 1..Len(l) : l[j] = u  BY <2>1, <1>8
  <2>3. left[u] \in 0..(TickMax \div 2) - 1 /\ timeout[u] = (tick + left[u]) % TickMod
    BY <2>2, <1>1 DEF TimesInv
  <2> QED  BY <2>1, <2>3, <1>7
<1>11. TimesInv'  BY <1>1, <1>9, <1>10 DEF TimesInv
<1> QED  BY <1>5, <1>6, <1>11

\* rt_timer_start finds the place.
LEMMA TimerStartKeeps ==
    ASSUME TimerInv, NEW t \in Task, NEW d \in Delays, TimerStart(t, d), ~Started(t), tick' = tick
    PROVE  TimerInv' /\ \A u \in Task : Started(u)' <=> u = t \/ Started(u)
<1> USE DEF TimerInv
<1>1. PICK l, r : l = timers /\ r = timers'  OBVIOUS
<1>2. PICK m \in Nat : m = Len(l)  BY <1>1, LenProperties DEF TimersTyped
<1>3. PICK at : at = (tick + d) % TickMod  OBVIOUS
<1>4. PICK later : later = {k \in 1..m : Later(l[k], at)}  OBVIOUS
<1>5. PICK n : n = IF later = {} THEN m + 1 ELSE Min(later)  OBVIOUS
<1>6. /\ r = InsertAt(l, n, t) /\ timeout' = [timeout EXCEPT ![t] = at] /\ left' = [left EXCEPT ![t] = d]
  BY <1>1, <1>2, <1>3, <1>4, <1>5 DEF TimerStart
<1>7. l \in Seq(Task) /\ \A k \in 1..m : l[k] \in Task /\ l[k] # t
  BY <1>1, <1>2, ElementOfSeq DEF TimersTyped, Started
<1>8. /\ \A j, k \in 1..m : j < k => left[l[j]] <= left[l[k]]
      /\ \A j \in 1..m : /\ left[l[j]] \in 0..(TickMax \div 2) - 1
                         /\ timeout[l[j]] = (tick + left[l[j]]) % TickMod
  BY <1>1, <1>2 DEF TimesInv
<1>9. \A k \in 1..m : k \in later <=> left[l[k]] > d
  <2>1. ASSUME NEW k \in 1..m PROVE Later(l[k], at) <=> left[l[k]] > d
    <3>1. PICK u \in Task, a \in 0..(TickMax \div 2) - 1 : u = l[k] /\ a = left[u]  BY <1>7, <1>8
    <3>2. timeout[u] = (tick + a) % TickMod /\ tick \in 0..TickMax  BY <3>1, <1>8 DEF TimersTyped
    <3>3. Later(u, (tick + d) % TickMod) <=> a > d  BY <3>2, LaterIs
    <3> QED  BY <3>1, <3>3, <1>3
  <2> QED  BY <2>1, <1>4
<1>10. d \in Nat /\ d \in 0..(TickMax \div 2) - 1  BY TickFacts
<1>11. \A k \in 1..m : left[l[k]] \in Int  BY <1>7 DEF TimersTyped
<1>12. /\ n \in 1..(m + 1) /\ \A k \in 1..m : k < n => left[l[k]] <= d
       /\ \A k \in 1..m : ~(k < n) => d <= left[l[k]]
  <2>1. CASE later = {}
    <3>1. n = m + 1  BY <2>1, <1>5
    <3> QED  BY <3>1, <2>1, <1>2, <1>9, <1>10, <1>11
  <2>2. CASE later # {}
    <3>1. later \in SUBSET Nat  BY <1>2, <1>4
    <3>2. n \in later /\ \A k \in later : n <= k  BY <3>1, <2>2, <1>5, MinIsLeast
    <3>3. n \in 1..m  BY <3>2, <1>4
    <3>4. ASSUME NEW k \in 1..m, k < n PROVE left[l[k]] <= d
      <4>1. k \notin later  BY <3>2, <3>3, <3>4, <1>2
      <4> QED  BY <4>1, <1>9, <1>10, <1>11
    <3>5. ASSUME NEW k \in 1..m, ~(k < n) PROVE d <= left[l[k]]
      <4>1. left[l[n]] > d  BY <3>2, <3>3, <1>9
      <4>2. left[l[n]] <= left[l[k]]
        <5>1. CASE k = n  BY <5>1, <3>3, <1>11
        <5>2. CASE n < k  BY <5>2, <3>3, <1>8
        <5>3. k = n \/ n < k  BY <3>3, <3>5, <1>2
        <5> QED  BY <5>1, <5>2, <5>3
      <4> QED  BY <4>1, <4>2, <3>3, <1>10, <1>11
    <3>6. n \in 1..(m + 1)  BY <3>3, <1>2
    <3> QED  BY <3>4, <3>5, <3>6
  <2> QED  BY <2>1, <2>2
<1> DEFINE up(k) == IF k < n THEN k ELSE k + 1
<1>13. /\ r \in Seq(Task) /\ Len(r) = m + 1 /\ r[n] = t
       /\ \A k \in 1..m : r[up(k)] = l[k]
  <2>1. n \in 1..(Len(l) + 1)  BY <1>2, <1>12
  <2>2. /\ r \in Seq(Task) /\ Len(r) = Len(l) + 1 /\ r[n] = t
        /\ \A k \in 1..Len(l) : r[IF k < n THEN k ELSE k + 1] = l[k]
    BY <2>1, <1>6, <1>7, InsertedIs
  <2> QED  BY <2>2, <1>2
<1>14. ASSUME NEW i \in 1..(m + 1), i # n PROVE \E k \in 1..m : up(k) = i
  <2>1. CASE i < n
    <3>1. i \in 1..m /\ up(i) = i  BY <2>1, <1>2, <1>12
    <3> QED  BY <3>1
  <2>2. CASE i > n
    <3>1. PICK k : k = i - 1  OBVIOUS
    <3>2. k \in 1..m /\ up(k) = i  BY <3>1, <2>2, <1>2, <1>12
    <3> QED  BY <3>2
  <2>3. i < n \/ i > n  BY <1>2, <1>12, <1>14
  <2> QED  BY <2>1, <2>2, <2>3
<1>15. \A k \in 1..m : up(k) \in 1..(m + 1) /\ up(k) # n  BY <1>2, <1>12
<1>16. \A j, k \in 1..m : up(j) < up(k) => j < k  BY <1>2, <1>12
<1>17. \A k \in 1..m : (up(k) < n <=> k < n)  BY <1>2, <1>12
<1> HIDE DEF up
<1>18. ASSUME NEW i \in 1..(m + 1), i # n PROVE \E k \in 1..m : up(k) = i /\ r[i] = l[k]
  <2>1. PICK k \in 1..m : up(k) = i  BY <1>14, <1>18
  <2>2. r[up(k)] = l[k]  BY <1>13
  <2> QED  BY <2>1, <2>2
<1>19. left'[t] = d /\ timeout'[t] = at /\ \A u \in Task : u # t => left'[u] = left[u] /\ timeout'[u] = timeout[u]
  BY <1>6 DEF TimersTyped
<1>20. TimersTyped'
  <2>1. at \in Int
    <3>1. PICK x \in Int, y \in Nat \ {0} : x = tick + d /\ y = TickMod  BY <1>10, TickFacts DEF TimersTyped
    <3>2. x % y \in Int  OBVIOUS
    <3> QED  BY <3>1, <3>2, <1>3
  <2> QED  BY <2>1, <1>1, <1>6, <1>10, <1>13 DEF TimersTyped
<1>21. TimersOnce'
  <2>1. \A j, k \in 1..m : l[j] = l[k] => j = k  BY <1>1, <1>2 DEF TimersOnce
  <2>2. ASSUME NEW i \in 1..(m + 1), NEW j \in 1..(m + 1), r[i] = r[j] PROVE i = j
    <3>1. CASE i = n /\ j = n  BY <3>1
    <3>2. CASE i # n /\ j = n  BY <3>2, <2>2, <1>7, <1>13, <1>18
    <3>3. CASE i = n /\ j # n  BY <3>3, <2>2, <1>7, <1>13, <1>18
    <3>4. CASE i # n /\ j # n
      <4>1. PICK x \in 1..m : up(x) = i /\ r[i] = l[x]  BY <3>4, <1>18
      <4>2. PICK y \in 1..m : up(y) = j /\ r[j] = l[y]  BY <3>4, <1>18
      <4> QED  BY <4>1, <4>2, <2>1, <2>2
    <3> QED  BY <3>1, <3>2, <3>3, <3>4
  <2> QED  BY <2>2, <1>1, <1>13 DEF TimersOnce
<1>22. ASSUME NEW i \in 1..(m + 1)
       PROVE  /\ left'[r[i]] \in 0..(TickMax \div 2) - 1
              /\ timeout'[r[i]] = (tick + left'[r[i]]) % TickMod
  <2>1. CASE i = n  BY <2>1, <1>3, <1>10, <1>13, <1>19
  <2>2. CASE i # n
    <3>1. PICK x \in 1..m : r[i] = l[x]  BY <2>2, <1>18
    <3>2. PICK u \in Task : u = r[i] /\ u = l[x] /\ u # t  BY <3>1, <1>7
    <3>3. left[u] \in 0..(TickMax \div 2) - 1 /\ timeout[u] = (tick + left[u]) % TickMod
      BY <3>2, <1>8
    <3> QED  BY <3>2, <3>3, <1>19
  <2> QED  BY <2>1, <2>2
<1>23. ASSUME NEW i \in 1..(m + 1), NEW j \in 1..(m + 1), i < j PROVE left'[r[i]] <= left'[r[j]]
  <2>1. CASE i = n
    <3>1. j # n  BY <2>1, <1>23, <1>2, <1>12
    <3>2. PICK y \in 1..m : up(y) = j /\ r[j] = l[y]  BY <3>1, <1>18
    <3>3. ~(y < n)  BY <3>2, <2>1, <1>2, <1>12, <1>17, <1>23
    <3>4. d <= left[l[y]] /\ left'[r[j]] = left[l[y]]  BY <3>2, <3>3, <1>7, <1>12, <1>19
    <3> QED  BY <3>4, <2>1, <1>13, <1>19
  <2>2. CASE j = n
    <3>1. i # n  BY <2>2, <1>23, <1>2, <1>12
    <3>2. PICK x \in 1..m : up(x) = i /\ r[i] = l[x]  BY <3>1, <1>18
    <3>3. x < n  BY <3>2, <2>2, <1>17, <1>23
    <3>4. left[l[x]] <= d /\ left'[r[i]] = left[l[x]]  BY <3>2, <3>3, <1>7, <1>12, <1>19
    <3> QED  BY <3>4, <2>2, <1>13, <1>19
  <2>3. CASE i # n /\ j # n
    <3>1. PICK x \in 1..m : up(x) = i /\ r[i] = l[x]  BY <2>3, <1>18
    <3>2. PICK y \in 1..m : up(y) = j /\ r[j] = l[y]  BY <2>3, <1>18
    <3>3. x < y  BY <3>1, <3>2, <1>16, <1>23
    <3>4. left[l[x]] <= left[l[y]]  BY <3>3, <1>8
    <3> QED  BY <3>1, <3>2, <3>4, <1>7, <1>19
  <2> QED  BY <2>1, <2>2, <2>3
<1>24. TimesInv'  BY <1>1, <1>13, <1>22, <1>23 DEF TimesInv
<1>25. ASSUME NEW u \in Task PROVE Started(u)' <=> u = t \/ Started(u)
  <2>1. Started(u)' <=> \E i \in 1..(m + 1) : r[i] = u  BY <1>1, <1>13 DEF Started
  <2>2. Started(u) <=> \E k \in 1..m : l[k] = u  BY <1>1, <1>2 DEF Started
  <2>3. ASSUME NEW i \in 1..(m + 1), r[i] = u PROVE u = t \/ Started(u)  BY <2>2, <2>3, <1>13, <1>18
  <2>4. ASSUME NEW k \in 1..m, l[k] = u PROVE Started(u)'  BY <2>1, <2>4, <1>13, <1>15
  <2>5. u = t => Started(u)'  BY <2>1, <1>12, <1>13
  <2> QED  BY <2>1, <2>2, <2>3, <2>4, <2>5
<1> QED  BY <1>20, <1>21, <1>24, <1>25

\* rt_timer_check fires the timers that run out, which are the first of the list.
LEMMA TimerCheckIs ==
    ASSUME TimerInv, NEW s, SchTyped(s), Listed(s), s.stat[IdleTask] = "READY",
           \A j \in 1..Len(timers) : s.stat[timers[j]] = "SUSPEND",
           tick' = (tick + 1) % TickMod, TimerCheck(s, (tick + 1) % TickMod)
    PROVE  /\ TimerInv' /\ \A u \in Task : Started(u)' <=> Started(u) /\ left[u] > 1
           /\ SchTyped(sch') /\ Listed(sch') /\ sch'.stat[IdleTask] = "READY"
           /\ \A j \in 1..Len(timers') : sch'.stat[timers'[j]] = "SUSPEND"
           /\ \A u \in Task : s.stat[u] = "READY" => sch'.stat[u] = "READY"
           /\ nest = 0 /\ sch' # s => Best(sch')
           /\ nest # 0 => sch'.current = s.current
<1> USE DEF TimerInv
<1>1. PICK l, r : l = timers /\ r = timers'  OBVIOUS
<1>2. PICK m \in Nat : m = Len(l)  BY <1>1, LenProperties DEF TimersTyped
<1>3. PICK now : now = (tick + 1) % TickMod  OBVIOUS
<1>4. PICK waits : waits = {k \in 1..m : ~Due(l[k], now)}  OBVIOUS
<1>5. PICK last : last = IF waits = {} THEN m ELSE Min(waits) - 1  OBVIOUS
<1>6. PICK fired : fired = {l[k] : k \in 1..last}  OBVIOUS
<1>7. /\ sch' = TimedOut(s, last) /\ r = SubSeq(l, last + 1, m)
      /\ timeout' = [t \in Task |-> IF t \in fired THEN 0 ELSE timeout[t]]
      /\ left' = [t \in Task |-> IF t \in Running \ fired THEN left[t] - 1 ELSE 0]
  BY <1>1, <1>2, <1>3, <1>4, <1>5, <1>6 DEF TimerCheck
<1>8. l \in Seq(Task) /\ \A k \in 1..m : l[k] \in Task
  BY <1>1, <1>2, ElementOfSeq DEF TimersTyped
<1>9. /\ \A j, k \in 1..m : j < k => left[l[j]] <= left[l[k]]
      /\ \A j \in 1..m : /\ left[l[j]] \in 0..(TickMax \div 2) - 1
                         /\ timeout[l[j]] = (tick + left[l[j]]) % TickMod
  BY <1>1, <1>2 DEF TimesInv
<1>10. \A j, k \in 1..m : l[j] = l[k] => j = k  BY <1>1, <1>2 DEF TimersOnce
<1>11. \A k \in 1..m : left[l[k]] \in Int  BY <1>8 DEF TimersTyped
<1>12. \A k \in 1..m : k \in waits <=> left[l[k]] > 1
  <2>1. ASSUME NEW k \in 1..m PROVE Due(l[k], now) <=> left[l[k]] <= 1
    <3>1. PICK u \in Task, a \in 0..(TickMax \div 2) - 1 : u = l[k] /\ a = left[u]  BY <1>8, <1>9
    <3>2. timeout[u] = (tick + a) % TickMod /\ tick \in 0..TickMax  BY <3>1, <1>9 DEF TimersTyped
    <3>3. Due(u, (tick + 1) % TickMod) <=> a <= 1  BY <3>2, DueIs
    <3> QED  BY <3>1, <3>3, <1>3
  <2> QED  BY <2>1, <1>4, <1>11
<1>13. last \in 0..m /\ \A k \in 1..m : k <= last <=> left[l[k]] <= 1
  <2>1. CASE waits = {}
    <3>1. last = m  BY <2>1, <1>5
    <3> QED  BY <3>1, <2>1, <1>2, <1>11, <1>12
  <2>2. CASE waits # {}
    <3>1. waits \in SUBSET Nat  BY <1>2, <1>4
    <3>2. PICK w : w = Min(waits)  OBVIOUS
    <3>3. w \in waits /\ \A k \in waits : w <= k  BY <3>1, <3>2, <2>2, MinIsLeast
    <3>4. w \in 1..m /\ last = w - 1  BY <3>2, <3>3, <2>2, <1>4, <1>5
    <3>5. ASSUME NEW k \in 1..m, k < w PROVE left[l[k]] <= 1
      <4>1. k \notin waits  BY <3>3, <3>4, <3>5, <1>2
      <4> QED  BY <4>1, <1>11, <1>12
    <3>6. ASSUME NEW k \in 1..m, ~(k < w) PROVE left[l[k]] > 1
      <4>1. left[l[w]] > 1  BY <3>3, <3>4, <1>12
      <4>2. CASE k = w  BY <4>1, <4>2
      <4>3. CASE w < k
        <5>1. left[l[w]] <= left[l[k]]  BY <4>3, <3>4, <1>9
        <5> QED  BY <5>1, <4>1, <3>4, <1>11
      <4>4. k = w \/ w < k  BY <3>4, <3>6, <1>2
      <4> QED  BY <4>2, <4>3, <4>4
    <3>7. \A k \in 1..m : k <= last <=> k < w  BY <3>4, <1>2
    <3>8. last \in 0..m  BY <3>4, <1>2
    <3> QED  BY <3>5, <3>6, <3>7, <3>8, <1>11
  <2> QED  BY <2>1, <2>2
<1>14. /\ r \in Seq(Task) /\ Len(r) = m - last
       /\ \A k \in 1..(m - last) : r[k] = l[last + k]
  BY <1>2, <1>7, <1>8, <1>13, RestIs
<1>15. \A k \in 1..(m - last) : last + k \in 1..m /\ last + k > last  BY <1>2, <1>13
<1>16. \A u \in Task : u \in Running <=> \E k \in 1..m : l[k] = u
  <2>1. DOMAIN timers = 1..m  BY <1>1, <1>2, <1>8
  <2> QED  BY <2>1, <1>1 DEF Running, Range
<1>17. \A i \in 1..m : l[i] \in fired <=> i <= last
  <2>1. \A k \in 1..last : k \in 1..m  BY <1>2, <1>13
  <2>2. \A i \in 1..m : i <= last => i \in 1..last  BY <1>2, <1>13
  <2>3. \A k \in 1..last : k <= last  BY <1>13
  <2> QED  BY <2>1, <2>2, <2>3, <1>6, <1>10
<1>18. ASSUME NEW k \in 1..(m - last)
       PROVE  /\ left[r[k]] > 1 /\ left'[r[k]] = left[r[k]] - 1 /\ left'[r[k]] \in 0..(TickMax \div 2) - 1
              /\ timeout'[r[k]] = (tick' + left'[r[k]]) % TickMod
  <2>1. PICK i \in 1..m : i = last + k /\ ~(i <= last)  BY <1>2, <1>13, <1>15
  <2>2. PICK u \in Task : u = l[i] /\ u = r[k]  BY <2>1, <1>8, <1>14
  <2>3. u \in Running /\ u \notin fired  BY <2>1, <2>2, <1>13, <1>16, <1>17
  <2>4. left'[u] = left[u] - 1 /\ timeout'[u] = timeout[u]  BY <2>3, <1>7
  <2>5. PICK a \in Int : a = left[u]  BY <2>2, <1>11
  <2>6. a > 1
    <3>1. ~(left[l[i]] <= 1)  BY <2>1, <1>13
    <3>2. left[l[i]] = a  BY <2>2, <2>5
    <3> QED  BY <3>1, <3>2
  <2>7. a \in 0..(TickMax \div 2) - 1 /\ timeout[u] = (tick + a) % TickMod  BY <2>2, <2>5, <1>9
  <2>8. a - 1 \in 0..(TickMax \div 2) - 1  BY <2>6, <2>7, TickFacts
  <2>9. (tick' + (a - 1)) % TickMod = (tick + a) % TickMod
    <3>1. PICK x \in Int, b \in Int, y \in Nat \ {0} : x = tick + 1 /\ b = a - 1 /\ y = TickMod
      BY <2>5, TickFacts DEF TimersTyped
    <3>2. ((x % y) + b) % y = (x + b) % y  BY ModSum
    <3>3. x + b = tick + a
      <4>1. tick \in Int  BY TickFacts DEF TimersTyped
      <4> QED  BY <4>1, <3>1
    <3> QED  BY <3>1, <3>2, <3>3
  <2> QED  BY <2>2, <2>4, <2>5, <2>6, <2>7, <2>8, <2>9
<1>19. TimersTyped'
  <2>1. tick' \in 0..TickMax
    <3>1. PICK x \in Int, y \in Nat \ {0} : x = tick + 1 /\ y = TickMod /\ TickMax = y - 1
      BY TickFacts DEF TimersTyped
    <3>2. x % y \in 0..(y - 1)  BY ModFact
    <3> QED  BY <3>1, <3>2
  <2>2. timeout' \in [Task -> Int] /\ left' \in [Task -> Int]  BY <1>7 DEF TimersTyped
  <2> QED  BY <2>1, <2>2, <1>1, <1>14 DEF TimersTyped
<1>20. TimersOnce'
  <2>1. ASSUME NEW j \in 1..(m - last), NEW k \in 1..(m - last), r[j] = r[k] PROVE j = k
    <3>1. last + j = last + k  BY <2>1, <1>10, <1>14, <1>15
    <3> QED  BY <3>1, <1>2, <1>13
  <2> QED  BY <2>1, <1>1, <1>14 DEF TimersOnce
<1>21. ASSUME NEW j \in 1..(m - last), NEW k \in 1..(m - last), j < k PROVE left'[r[j]] <= left'[r[k]]
  <2>1. PICK x, y \in 1..m : x = last + j /\ y = last + k  BY <1>15
  <2>2. x < y  BY <2>1, <1>2, <1>13, <1>21
  <2>3. left[r[j]] <= left[r[k]]  BY <2>1, <2>2, <1>9, <1>14
  <2>4. left[r[j]] \in Int /\ left[r[k]] \in Int  BY <2>1, <1>11, <1>14
  <2> QED  BY <2>3, <2>4, <1>18
<1>22. TimesInv'  BY <1>1, <1>14, <1>18, <1>21 DEF TimesInv
<1>23. ASSUME NEW u \in Task PROVE Started(u)' <=> Started(u) /\ left[u] > 1
  <2>1. Started(u)' <=> \E k \in 1..(m - last) : r[k] = u  BY <1>1, <1>14 DEF Started
  <2>2. Started(u) <=> \E i \in 1..m : l[i] = u  BY <1>1, <1>2 DEF Started
  <2>3. ASSUME NEW k \in 1..(m - last), r[k] = u PROVE Started(u) /\ left[u] > 1
    BY <2>2, <2>3, <1>14, <1>15, <1>18
  <2>4. ASSUME NEW i \in 1..m, l[i] = u, left[u] > 1 PROVE Started(u)'
    <3>1. ~(i <= last)  BY <2>4, <1>11, <1>13
    <3>2. PICK k : k = i - last  OBVIOUS
    <3>3. k \in 1..(m - last) /\ last + k = i  BY <3>1, <3>2, <1>2, <1>13
    <3> QED  BY <3>3, <2>1, <2>4, <1>14
  <2> QED  BY <2>1, <2>2, <2>3, <2>4
<1>24. /\ SchTyped(sch') /\ Listed(sch') /\ sch'.stat[IdleTask] = "READY"
       /\ \A t \in Task : sch'.stat[t] = IF \E n \in 1..last : timers[n] = t THEN "READY" ELSE s.stat[t]
       /\ last = 0 => sch' = s
       /\ nest = 0 /\ last # 0 => Best(sch')
       /\ nest # 0 => sch'.current = s.current
  <2>1. timers \in Seq(Task) /\ last \in 0..Len(timers)  BY <1>1, <1>2, <1>13 DEF TimersTyped
  <2> QED  BY <2>1, <1>7, TimedOutIs DEF TimersOnce
<1>25. ASSUME NEW k \in 1..(m - last) PROVE sch'.stat[r[k]] = "SUSPEND"
  <2>1. PICK i \in 1..m : i = last + k /\ ~(i <= last)  BY <1>2, <1>13, <1>15
  <2>2. PICK u \in Task : u = l[i] /\ u = r[k]  BY <2>1, <1>8, <1>14
  <2>3. ~ \E n \in 1..last : timers[n] = u
    <3>1. u \notin fired  BY <2>1, <2>2, <1>13, <1>17
    <3> QED  BY <3>1, <1>1, <1>6
  <2>4. s.stat[u] = "SUSPEND"  BY <2>2, <1>1, <1>2
  <2> QED  BY <2>2, <2>3, <2>4, <1>24
<1>26. \A u \in Task : s.stat[u] = "READY" => sch'.stat[u] = "READY"  BY <1>24
<1>27. nest = 0 /\ sch' # s => Best(sch')  BY <1>24
<1> QED  BY <1>1, <1>14, <1>19, <1>20, <1>22, <1>23, <1>24, <1>25, <1>26, <1>27

-----------------------------------------------------------------------------
(* The scheduler: its invariant.                                           *)

\* A thread that is suspended and still runs is about to call rt_schedule, and may.
GoesSoon ==
    sch.stat[sch.current] # "READY" => nest = 0 /\ pc[sch.current] = "rt_schedule"

\* Who has a timer that runs waits.
TimersWait == \A j \in 1..Len(timers) : sch.stat[timers[j]] = "SUSPEND"

SchedInv ==
    /\ SchTyped(sch) /\ nest \in Nat /\ pc \in [Task -> {"run", "rt_schedule"}]
    /\ Listed(sch) /\ sch.stat[IdleTask] = "READY"
    /\ GoesSoon /\ TimerInv /\ TimersWait /\ HighestRuns

LEMMA RunningIsReady ==
    ASSUME SchedInv, NEW t \in Task, Runs(t)
    PROVE  sch.current = t /\ sch.stat[t] = "READY" /\ ~Started(t)
<1>1. sch.current = t /\ pc[t] = "run"  BY DEF Runs
<1>2. sch.stat[t] = "READY"  BY <1>1 DEF SchedInv, GoesSoon
<1> QED  BY <1>1, <1>2 DEF SchedInv, TimersWait, Started

\* A call of the running thread that ends with rt_schedule: until then nothing is promised.
LEMMA CallsStep ==
    ASSUME SchedInv, NEW t \in Task, Calls(t), nest' = nest, SchTyped(sch'), Listed(sch'),
           sch'.current = t, sch'.stat[IdleTask] = "READY", sch'.stat[t] = "READY" \/ nest = 0,
           TimerInv', \A u \in Task : Started(u)' => sch'.stat[u] = "SUSPEND"
    PROVE  SchedInv'
<1>1. pc \in [Task -> {"run", "rt_schedule"}] /\ pc' = [pc EXCEPT ![t] = "rt_schedule"]
  BY DEF SchedInv, Calls
<1>2. pc' \in [Task -> {"run", "rt_schedule"}] /\ pc'[t] = "rt_schedule"  BY <1>1
<1>3. GoesSoon' /\ HighestRuns'  BY <1>2 DEF GoesSoon, HighestRuns
<1>4. TimersWait'
  <2>1. \A j \in 1..Len(timers') : timers'[j] \in Task  BY ElementOfSeq DEF TimerInv, TimersTyped
  <2> QED  BY <2>1 DEF TimersWait, Started
<1> QED  BY <1>2, <1>3, <1>4 DEF SchedInv

LEMMA WaitsKeeps ==
    ASSUME TimerInv, NEW t \in Task, NEW d \in Delays \cup {Forever}, Waits(t, d), ~Started(t), tick' = tick
    PROVE  TimerInv' /\ \A u \in Task : Started(u)' => u = t \/ Started(u)
<1>1. CASE d = Forever
  <2>1. TimerStop(t)  BY <1>1 DEF Waits
  <2> QED  BY <2>1, TimerStopKeeps
<1>2. CASE d # Forever
  <2>1. TimerStart(t, d) /\ d \in Delays  BY <1>2 DEF Waits
  <2> QED  BY <2>1, TimerStartKeeps
<1> QED  BY <1>1, <1>2

LEMMA StartedWait ==
    ASSUME SchedInv
    PROVE  \A u \in Task : Started(u) => sch.stat[u] = "SUSPEND"
  BY DEF SchedInv, TimersWait, Started

LEMMA ThreadSleepStep ==
    ASSUME SchedInv, NEW t \in Task, NEW d \in Delays \cup {Forever}, ThreadSleep(t, d)
    PROVE  SchedInv'
<1>1. /\ Calls(t) /\ Runs(t) /\ t # IdleTask /\ nest = 0 /\ sch' = Suspended(sch, t) /\ Waits(t, d)
      /\ nest' = nest /\ tick' = tick
  BY DEF ThreadSleep, Calls
<1>2. sch.current = t /\ ~Started(t)  BY <1>1, RunningIsReady
<1>3. SchTyped(sch) /\ Listed(sch) /\ TimerInv /\ sch.stat[IdleTask] = "READY"  BY DEF SchedInv
<1>4. PICK r : r = sch'  OBVIOUS
<1>5. /\ SchTyped(r) /\ Listed(r) /\ r.stat = [sch.stat EXCEPT ![t] = "SUSPEND"] /\ r.current = sch.current
  BY <1>1, <1>2, <1>3, <1>4, SuspendedIs
<1>6. /\ r.stat[t] = "SUSPEND" /\ \A u \in Task : u # t => r.stat[u] = sch.stat[u]
  BY <1>3, <1>5 DEF SchTyped
<1>7. TimerInv' /\ \A u \in Task : Started(u)' => u = t \/ Started(u)  BY <1>1, <1>2, <1>3, WaitsKeeps
<1>8. \A u \in Task : Started(u)' => r.stat[u] = "SUSPEND"  BY <1>6, <1>7, StartedWait
<1>9. r.stat[IdleTask] = "READY"  BY <1>1, <1>3, <1>6, SchedAssumption
<1> QED  BY <1>1, <1>2, <1>4, <1>5, <1>7, <1>8, <1>9, CallsStep

LEMMA ThreadWakesStep ==
    ASSUME SchedInv, NEW t \in Task, NEW u \in Task, ThreadWakes(t, u)
    PROVE  SchedInv'
<1>1. /\ Calls(t) /\ Runs(t) /\ sch.stat[u] = "SUSPEND" /\ sch' = ScheduleInsert(sch, u) /\ TimerStop(u)
      /\ nest' = nest /\ tick' = tick
  BY DEF ThreadWakes, ThreadResume, Calls
<1>2. sch.current = t /\ sch.stat[t] = "READY"  BY <1>1, RunningIsReady
<1>3. SchTyped(sch) /\ Listed(sch) /\ TimerInv /\ sch.stat[IdleTask] = "READY"  BY DEF SchedInv
<1>4. PICK r : r = sch'  OBVIOUS
<1>5. SchTyped(r) /\ Listed(r) /\ r.stat = [sch.stat EXCEPT ![u] = "READY"] /\ r.current = sch.current
  BY <1>1, <1>3, <1>4, InsertIs, InsertListed
<1>6. r.stat[u] = "READY" /\ \A v \in Task : v # u => r.stat[v] = sch.stat[v]
  BY <1>3, <1>5 DEF SchTyped
<1>7. TimerInv' /\ \A v \in Task : Started(v)' <=> v # u /\ Started(v)  BY <1>1, <1>3, TimerStopKeeps
<1>8. \A v \in Task : Started(v)' => r.stat[v] = "SUSPEND"  BY <1>6, <1>7, StartedWait
<1>9. r.stat[IdleTask] = "READY" /\ r.stat[t] = "READY"  BY <1>2, <1>3, <1>6, SchedAssumption
<1> QED  BY <1>1, <1>2, <1>4, <1>5, <1>7, <1>8, <1>9, CallsStep

LEMMA MutexWaitsStep ==
    ASSUME SchedInv, NEW t \in Task, NEW u \in Task, NEW d \in Delays \cup {Forever}, MutexWaits(t, u, d)
    PROVE  SchedInv'
<1>1. PICK v : v = ChangedPriority(sch, u, sch.prio[t])  OBVIOUS
<1>2. /\ Calls(t) /\ Runs(t) /\ t # IdleTask /\ nest = 0 /\ sch' = Suspended(v, t) /\ Waits(t, d)
      /\ nest' = nest /\ tick' = tick
  BY <1>1 DEF MutexWaits, Calls
<1>3. sch.current = t /\ ~Started(t)  BY <1>2, RunningIsReady
<1>4. SchTyped(sch) /\ Listed(sch) /\ TimerInv /\ sch.stat[IdleTask] = "READY"  BY DEF SchedInv
<1>5. sch.prio[t] \in Priorities  BY <1>4 DEF SchTyped
<1>6. SchTyped(v) /\ Listed(v) /\ v.stat = sch.stat /\ v.current = sch.current
  BY <1>1, <1>4, <1>5, ChangedPriorityIs, ZenonT(40)
<1>7. PICK r : r = sch'  OBVIOUS
<1>8. /\ SchTyped(r) /\ Listed(r) /\ r.stat = [v.stat EXCEPT ![t] = "SUSPEND"] /\ r.current = v.current
  BY <1>2, <1>3, <1>6, <1>7, SuspendedIs
<1>9. /\ r.stat[t] = "SUSPEND" /\ \A w \in Task : w # t => r.stat[w] = sch.stat[w]
  BY <1>4, <1>6, <1>8 DEF SchTyped
<1>10. TimerInv' /\ \A w \in Task : Started(w)' => w = t \/ Started(w)  BY <1>2, <1>3, <1>4, WaitsKeeps
<1>11. \A w \in Task : Started(w)' => r.stat[w] = "SUSPEND"  BY <1>9, <1>10, StartedWait
<1>12. r.stat[IdleTask] = "READY"  BY <1>2, <1>4, <1>9, SchedAssumption
<1> QED  BY <1>2, <1>3, <1>6, <1>7, <1>8, <1>10, <1>11, <1>12, CallsStep

LEMMA MutexReleasesStep ==
    ASSUME SchedInv, NEW t \in Task, NEW u \in Task, MutexReleases(t, u)
    PROVE  SchedInv'
<1>1. PICK v : v = ChangedPriority(sch, t, TaskPrio[t])  OBVIOUS
<1>2. /\ Calls(t) /\ Runs(t) /\ sch.stat[u] = "SUSPEND" /\ sch' = ScheduleInsert(v, u) /\ TimerStop(u)
      /\ nest' = nest /\ tick' = tick
  BY <1>1 DEF MutexReleases, Calls
<1>3. sch.current = t /\ sch.stat[t] = "READY"  BY <1>2, RunningIsReady
<1>4. SchTyped(sch) /\ Listed(sch) /\ TimerInv /\ sch.stat[IdleTask] = "READY"  BY DEF SchedInv
<1>5. SchTyped(v) /\ Listed(v) /\ v.stat = sch.stat /\ v.current = sch.current
  BY <1>1, <1>4, PrioritiesNat, ChangedPriorityIs
<1>6. PICK r : r = sch'  OBVIOUS
<1>7. SchTyped(r) /\ Listed(r) /\ r.stat = [v.stat EXCEPT ![u] = "READY"] /\ r.current = v.current
  BY <1>2, <1>5, <1>6, InsertIs, InsertListed
<1>8. r.stat[u] = "READY" /\ \A w \in Task : w # u => r.stat[w] = sch.stat[w]
  BY <1>4, <1>5, <1>7 DEF SchTyped
<1>9. TimerInv' /\ \A w \in Task : Started(w)' <=> w # u /\ Started(w)  BY <1>2, <1>4, TimerStopKeeps
<1>10. \A w \in Task : Started(w)' => r.stat[w] = "SUSPEND"  BY <1>8, <1>9, StartedWait
<1>11. r.stat[IdleTask] = "READY" /\ r.stat[t] = "READY"  BY <1>3, <1>4, <1>8, SchedAssumption
<1> QED  BY <1>2, <1>3, <1>5, <1>6, <1>7, <1>9, <1>10, <1>11, CallsStep

\* The timers are left alone.
LEMMA TimersKept ==
    ASSUME UNCHANGED <<tick, timers, timeout, left>>
    PROVE  (TimerInv <=> TimerInv') /\ \A u \in Task : Started(u)' <=> Started(u)
  BY DEF TimerInv, TimersTyped, TimersOnce, TimesInv, Started

LEMMA MutexReleasesAloneStep ==
    ASSUME SchedInv, NEW t \in Task, MutexReleasesAlone(t)
    PROVE  SchedInv'
<1>1. PICK v : v = ChangedPriority(sch, t, TaskPrio[t])  OBVIOUS
<1>2. /\ Runs(t) /\ sch' = [v EXCEPT !.lowered = TRUE] /\ UNCHANGED <<nest, pc, isr, tick, timers, timeout, left>>
  BY <1>1 DEF MutexReleasesAlone
<1>3. SchTyped(sch) /\ Listed(sch) /\ TimerInv /\ sch.stat[IdleTask] = "READY"  BY DEF SchedInv
<1>4. SchTyped(v) /\ Listed(v) /\ v.stat = sch.stat /\ v.current = sch.current
  BY <1>1, <1>3, PrioritiesNat, ChangedPriorityIs
<1>5. PICK r : r = sch'  OBVIOUS
<1>6. /\ SchTyped(r) /\ r.stat = sch.stat /\ r.current = sch.current /\ r.lowered
      /\ r.table = v.table /\ r.group = v.group /\ r.prio = v.prio
  BY <1>2, <1>4, <1>5 DEF SchTyped
<1>7. Listed(r)
  <2>1. Ready(r) = Ready(v)  BY <1>4, <1>6 DEF Ready
  <2> QED  BY <2>1, <1>4, <1>6 DEF Listed, On
<1>8. TimerInv' /\ TimersWait'  BY <1>2, <1>3, <1>5, <1>6, TimersKept DEF SchedInv, TimersWait
<1>9. GoesSoon' /\ HighestRuns'  BY <1>2, <1>5, <1>6 DEF SchedInv, GoesSoon, HighestRuns
<1> QED  BY <1>2, <1>3, <1>5, <1>6, <1>7, <1>8, <1>9 DEF SchedInv

LEMMA CriticalStep ==
    ASSUME SchedInv, NEW t \in Task, ThreadYield(t) \/ EnterCritical(t) \/ ExitCritical(t)
    PROVE  SchedInv'
<1>1. Runs(t) /\ UNCHANGED <<sch, isr, tick, timers, timeout, left>>
  BY DEF ThreadYield, EnterCritical, ExitCritical, Calls
<1>2. sch.current = t /\ sch.stat[t] = "READY"  BY <1>1, RunningIsReady
<1>3. nest \in Nat /\ pc \in [Task -> {"run", "rt_schedule"}]  BY DEF SchedInv
<1>4. /\ nest' \in Nat /\ pc' \in [Task -> {"run", "rt_schedule"}]
      /\ nest' # 0 \/ pc'[t] = "rt_schedule"
  <2>1. CASE ThreadYield(t)  BY <2>1, <1>3 DEF ThreadYield, Calls
  <2>2. CASE EnterCritical(t)  BY <2>2, <1>3 DEF EnterCritical
  <2>3. CASE ExitCritical(t)
    <3>1. /\ nest > 0 /\ nest' = nest - 1
          /\ pc' = IF nest = 1 THEN [pc EXCEPT ![t] = "rt_schedule"] ELSE pc
      BY <2>3 DEF ExitCritical
    <3>2. CASE nest = 1  BY <3>1, <3>2, <1>3
    <3>3. CASE nest # 1  BY <3>1, <3>3, <1>3
    <3> QED  BY <3>2, <3>3
  <2> QED  BY <2>1, <2>2, <2>3
<1>5. TimerInv' /\ TimersWait'  BY <1>1, TimersKept DEF SchedInv, TimersWait
<1>6. GoesSoon' /\ HighestRuns'  BY <1>1, <1>2, <1>4 DEF GoesSoon, HighestRuns
<1> QED  BY <1>1, <1>4, <1>5, <1>6 DEF SchedInv

\* rt_schedule, in a thread or in a handler.
LEMMA SchedulesStep ==
    ASSUME SchedInv, IsrSchedules \/ \E t \in Task : ThreadSchedules(t)
    PROVE  SchedInv'
<1>1. sch' = Schedule(sch) /\ UNCHANGED <<nest, tick, timers, timeout, left>>
  BY DEF IsrSchedules, ThreadSchedules
<1>2. SchTyped(sch) /\ Listed(sch) /\ TimerInv /\ sch.stat[IdleTask] = "READY" /\ nest \in Nat
      /\ pc \in [Task -> {"run", "rt_schedule"}] /\ sch.current \in Task
  BY DEF SchedInv, SchTyped
<1>3. PICK r : r = sch'  OBVIOUS
<1>4. /\ SchTyped(r) /\ Listed(r) /\ r.stat = sch.stat
      /\ nest = 0 => Best(r)
      /\ nest # 0 => r = sch
  BY <1>1, <1>2, <1>3, ScheduleIs
<1>5. pc' \in [Task -> {"run", "rt_schedule"}]  BY <1>2 DEF IsrSchedules, ThreadSchedules
<1>6. GoesSoon'
  <2>1. nest = 0 => r.stat[r.current] = "READY"  BY <1>4 DEF Best
  <2>2. nest # 0 => sch.stat[sch.current] = "READY"  BY DEF SchedInv, GoesSoon
  <2> QED  BY <2>1, <2>2, <1>3, <1>4 DEF GoesSoon
<1>7. HighestRuns'  BY <1>1, <1>3, <1>4 DEF HighestRuns, Best
<1>8. TimerInv' /\ TimersWait'  BY <1>1, <1>3, <1>4, TimersKept DEF SchedInv, TimersWait
<1> QED  BY <1>1, <1>2, <1>3, <1>4, <1>5, <1>6, <1>7, <1>8 DEF SchedInv

LEMMA IsrWakesStep ==
    ASSUME SchedInv, NEW u \in Task, IsrWakes(u)
    PROVE  SchedInv'
<1>1. /\ isr' = "rt_schedule" /\ sch.stat[u] = "SUSPEND" /\ sch' = ScheduleInsert(sch, u) /\ TimerStop(u)
      /\ UNCHANGED <<nest, pc, tick>>
  BY DEF IsrWakes, ThreadResume
<1>2. SchTyped(sch) /\ Listed(sch) /\ TimerInv /\ sch.stat[IdleTask] = "READY"  BY DEF SchedInv
<1>3. PICK r : r = sch'  OBVIOUS
<1>4. SchTyped(r) /\ Listed(r) /\ r.stat = [sch.stat EXCEPT ![u] = "READY"] /\ r.current = sch.current
  BY <1>1, <1>2, <1>3, InsertIs, InsertListed
<1>5. r.stat[u] = "READY" /\ \A v \in Task : v # u => r.stat[v] = sch.stat[v]
  BY <1>2, <1>4 DEF SchTyped
<1>6. TimerInv' /\ \A v \in Task : Started(v)' <=> v # u /\ Started(v)  BY <1>1, <1>2, TimerStopKeeps
<1>7. TimersWait'
  <2>1. \A j \in 1..Len(timers') : timers'[j] \in Task  BY <1>6, ElementOfSeq DEF TimerInv, TimersTyped
  <2>2. \A v \in Task : Started(v)' => r.stat[v] = "SUSPEND"  BY <1>5, <1>6, StartedWait
  <2> QED  BY <2>1, <2>2, <1>3 DEF TimersWait, Started
<1>8. r.stat[IdleTask] = "READY"  BY <1>2, <1>5, SchedAssumption
<1>9. GoesSoon'
  <2>1. sch.current \in Task  BY <1>2 DEF SchTyped
  <2>2. r.stat[r.current] # "READY" => sch.stat[sch.current] # "READY"  BY <2>1, <1>4, <1>5
  <2> QED  BY <2>2, <1>1, <1>3, <1>4 DEF SchedInv, GoesSoon
<1>10. HighestRuns'  BY <1>1 DEF HighestRuns
<1> QED  BY <1>1, <1>3, <1>4, <1>6, <1>7, <1>8, <1>9, <1>10 DEF SchedInv

\* rt_tick_increase: the time slice may end, and timers fire, the ones whose time has come.
LEMMA TickStep ==
    ASSUME SchedInv, TickIncrease
    PROVE  SchedInv' /\ \A u \in Task : Started(u)' <=> Started(u) /\ left[u] > 1
<1>1. PICK s : s = IF remaining[sch.current] = 1 THEN Schedule(sch) ELSE sch  OBVIOUS
<1>2. /\ tick' = (tick + 1) % TickMod /\ TimerCheck(s, (tick + 1) % TickMod) /\ UNCHANGED <<nest, pc, isr>>
  BY <1>1 DEF TickIncrease
<1>3. SchTyped(sch) /\ Listed(sch) /\ TimerInv /\ sch.stat[IdleTask] = "READY" /\ sch.current \in Task
  BY DEF SchedInv, SchTyped
<1>4. /\ SchTyped(s) /\ Listed(s) /\ s.stat = sch.stat
      /\ nest = 0 => s = sch \/ Best(s)
      /\ nest # 0 => s = sch
  BY <1>1, <1>3, ScheduleIs
<1>5. \A j \in 1..Len(timers) : s.stat[timers[j]] = "SUSPEND"  BY <1>4 DEF SchedInv, TimersWait
<1>6. PICK r : r = sch'  OBVIOUS
<1>7. /\ TimerInv' /\ \A u \in Task : Started(u)' <=> Started(u) /\ left[u] > 1
      /\ SchTyped(r) /\ Listed(r) /\ r.stat[IdleTask] = "READY"
      /\ \A j \in 1..Len(timers') : r.stat[timers'[j]] = "SUSPEND"
      /\ \A u \in Task : s.stat[u] = "READY" => r.stat[u] = "READY"
      /\ nest = 0 /\ r # s => Best(r)
      /\ nest # 0 => r.current = s.current
  BY <1>2, <1>3, <1>4, <1>5, <1>6, TimerCheckIs
<1>8. nest = 0 => r = sch \/ Best(r)  BY <1>4, <1>7
<1>9. GoesSoon'
  <2>1. CASE nest = 0 /\ Best(r)  BY <2>1, <1>6 DEF Best, GoesSoon
  <2>2. CASE nest = 0 /\ r = sch  BY <2>2, <1>2, <1>6 DEF SchedInv, GoesSoon
  <2>3. CASE nest # 0
    <3>1. sch.stat[sch.current] = "READY"  BY <2>3 DEF SchedInv, GoesSoon
    <3>2. r.stat[r.current] = "READY"  BY <3>1, <2>3, <1>3, <1>4, <1>7
    <3> QED  BY <3>2, <1>6 DEF GoesSoon
  <2> QED  BY <2>1, <2>2, <2>3, <1>8
<1>10. HighestRuns'
  <2>1. CASE nest = 0 /\ Best(r)  BY <2>1, <1>6 DEF Best, HighestRuns
  <2>2. CASE nest = 0 /\ r = sch  BY <2>2, <1>2, <1>6 DEF SchedInv, HighestRuns
  <2>3. CASE nest # 0  BY <2>3, <1>2 DEF HighestRuns
  <2> QED  BY <2>1, <2>2, <2>3, <1>8
<1>11. TimersWait'  BY <1>6, <1>7 DEF TimersWait
<1> QED  BY <1>2, <1>6, <1>7, <1>9, <1>10, <1>11 DEF SchedInv

LEMMA SchedInvInit ==
    ASSUME InitSched
    PROVE  SchedInv
<1> DEFINE others(first, p) == {t \in Task \ {first} : TaskPrio[t] = p}
<1>1. PICK first \in Task :
         /\ \A u \in Task : TaskPrio[first] <= TaskPrio[u]
         /\ LET table == [p \in Priorities |-> SetToSeq(others(first, p))] IN
            sch = [current |-> first, stat |-> [t \in Task |-> "READY"], prio |-> TaskPrio, table |-> table,
                   group |-> {p \in Priorities : table[p] # <<>>}, lowered |-> FALSE]
  BY DEF InitSched
<1>2. PICK table : table = [p \in Priorities |-> SetToSeq(others(first, p))]  OBVIOUS
<1>3. sch = [current |-> first, stat |-> [t \in Task |-> "READY"], prio |-> TaskPrio, table |-> table,
             group |-> {p \in Priorities : table[p] # <<>>}, lowered |-> FALSE]
  BY <1>1, <1>2
<1>4. ASSUME NEW p \in Priorities
      PROVE  /\ table[p] \in Seq(Task)
             /\ \A j, k \in 1..Len(table[p]) : table[p][j] = table[p][k] => j = k
             /\ \A x \in Task : (\E k \in 1..Len(table[p]) : table[p][k] = x) <=> x # first /\ TaskPrio[x] = p
  <2>1. PICK S : S = others(first, p)  OBVIOUS
  <2>2. S \in SUBSET Task /\ IsFiniteSet(Task)  BY <2>1, SchedAssumption
  <2>3. IsFiniteSet(S)  BY <2>2, FS_Subset
  <2>4. PICK l : l = SetToSeq(S)  OBVIOUS
  <2>5. /\ l \in Seq(S) /\ \A j, k \in 1..Len(l) : l[j] = l[k] => j = k
        /\ \A x : x \in S <=> \E k \in 1..Len(l) : l[k] = x
    BY <2>3, <2>4, SetToSeqIs
  <2>6. l \in Seq(Task)  BY <2>2, <2>5
  <2>7. table[p] = l  BY <2>1, <2>4, <1>2
  <2> QED  BY <2>1, <2>5, <2>6, <2>7
<1>5. table \in [Priorities -> Seq(Task)]  BY <1>2, <1>4
<1>6. TaskPrio \in [Task -> Priorities]  BY SchedAssumption DEF Priorities
<1>7. /\ SchTyped(sch) /\ sch.current = first /\ sch.prio = TaskPrio /\ sch.table = table
      /\ sch.group = {p \in Priorities : table[p] # <<>>} /\ \A t \in Task : sch.stat[t] = "READY"
  BY <1>3, <1>5, <1>6 DEF SchTyped
<1> HIDE DEF others
<1>8. Listed(sch)
  <2>1. \A x \in Task : x \in Ready(sch) <=> x # first  BY <1>7 DEF Ready
  <2>2. ASSUME NEW x \in Task, NEW p \in Priorities
        PROVE  (\E k \in 1..Len(table[p]) : table[p][k] = x) <=> x \in Ready(sch) /\ TaskPrio[x] = p
    BY <2>1, <1>4
  <2> QED  BY <2>2, <1>4, <1>7 DEF Listed, On
<1>9. /\ nest = 0 /\ pc = [t \in Task |-> "run"] /\ tick = 0 /\ timers = <<>>
      /\ timeout = [t \in Task |-> 0] /\ left = [t \in Task |-> 0]
  BY DEF InitSched
<1>10. Len(timers) = 0 /\ timers \in Seq(Task) /\ 1..0 = {}  BY <1>9
<1>11. TimerInv /\ TimersWait
  <2>1. tick \in 0..TickMax  BY <1>9, TickFacts
  <2>2. TimersTyped  BY <2>1, <1>9, <1>10 DEF TimersTyped
  <2>3. TimersOnce /\ TimesInv /\ TimersWait  BY <1>10 DEF TimersOnce, TimesInv, TimersWait
  <2> QED  BY <2>2, <2>3 DEF TimerInv
<1>12. GoesSoon /\ sch.stat[IdleTask] = "READY"  BY <1>7, SchedAssumption DEF GoesSoon
<1>13. HighestRuns  BY <1>1, <1>7 DEF HighestRuns
<1> QED  BY <1>7, <1>8, <1>9, <1>11, <1>12, <1>13 DEF SchedInv

\* Nothing of the scheduler changes.
LEMMA SchedInvKept ==
    ASSUME SchedInv, UNCHANGED schedVars
    PROVE  SchedInv' /\ \A u \in Task : Started(u)' <=> Started(u)
<1>1. UNCHANGED <<sch, nest, pc, isr, tick, timers, timeout, left>>  BY DEF schedVars
<1>2. TimerInv' /\ \A u \in Task : Started(u)' <=> Started(u)  BY <1>1, TimersKept DEF SchedInv
<1>3. GoesSoon' /\ TimersWait' /\ HighestRuns'
  BY <1>1 DEF SchedInv, GoesSoon, TimersWait, HighestRuns
<1> QED  BY <1>1, <1>2, <1>3 DEF SchedInv

LEMMA SchedInvStep ==
    ASSUME SchedInv, [Next]_vars
    PROVE  SchedInv'
<1>1. ASSUME UNCHANGED schedVars PROVE SchedInv'  BY <1>1, SchedInvKept
<1>2. CASE NextSched
  <2>1. ASSUME NEW t \in Task, NEW d \in Delays \cup {Forever}, ThreadSleep(t, d) PROVE SchedInv'
    BY <2>1, ThreadSleepStep
  <2>2. ASSUME NEW t \in Task, NEW u \in Task, ThreadWakes(t, u) PROVE SchedInv'
    BY <2>2, ThreadWakesStep
  <2>3. ASSUME NEW t \in Task, NEW u \in Task, NEW d \in Delays \cup {Forever}, MutexWaits(t, u, d) PROVE SchedInv'
    BY <2>3, MutexWaitsStep
  <2>4. ASSUME NEW t \in Task, NEW u \in Task, MutexReleases(t, u) PROVE SchedInv'
    BY <2>4, MutexReleasesStep
  <2>5. ASSUME NEW t \in Task, MutexReleasesAlone(t) PROVE SchedInv'  BY <2>5, MutexReleasesAloneStep
  <2>6. ASSUME NEW t \in Task, ThreadYield(t) \/ EnterCritical(t) \/ ExitCritical(t) PROVE SchedInv'
    BY <2>6, CriticalStep
  <2>7. ASSUME IsrSchedules \/ \E t \in Task : ThreadSchedules(t) PROVE SchedInv'  BY <2>7, SchedulesStep
  <2>8. ASSUME NEW u \in Task, IsrWakes(u) PROVE SchedInv'  BY <2>8, IsrWakesStep
  <2>9. ASSUME TickIncrease PROVE SchedInv'  BY <2>9, TickStep
  <2> QED  BY <1>2, <2>1, <2>2, <2>3, <2>4, <2>5, <2>6, <2>7, <2>8, <2>9 DEF NextSched
<1>3. UNCHANGED schedVars \/ NextSched  BY DEF Next, vars
<1> QED  BY <1>1, <1>2, <1>3

LEMMA SchedInvListed ==
    ASSUME SchedInv
    PROVE  ReadyListed
<1>1. SchTyped(sch) /\ On(sch, Ready(sch))  BY DEF SchedInv, Listed
<1>2. ASSUME NEW t \in Task, NEW p \in Priorities
      PROVE  Cardinality({n \in 1..Len(sch.table[p]) : sch.table[p][n] = t})
               = IF sch.stat[t] = "READY" /\ t # sch.current /\ sch.prio[t] = p THEN 1 ELSE 0
  <2>1. PICK l : l = sch.table[p]  OBVIOUS
  <2>2. \A j, k \in 1..Len(l) : l[j] = t /\ l[k] = t => j = k  BY <2>1, <1>1 DEF On
  <2>3. Cardinality({n \in 1..Len(l) : l[n] = t}) = IF \E n \in 1..Len(l) : l[n] = t THEN 1 ELSE 0
    BY <2>2, CountIs
  <2>4. (\E n \in 1..Len(l) : l[n] = t) <=> sch.stat[t] = "READY" /\ t # sch.current /\ sch.prio[t] = p
    BY <2>1, <1>1 DEF On, Ready
  <2> QED  BY <2>1, <2>3, <2>4
<1>3. sch.group = {p \in Priorities : sch.table[p] # <<>>}  BY <1>1 DEF On
<1> QED  BY <1>2, <1>3 DEF ReadyListed

\* The ready lists and the bit group have the ready threads (ReadyListed), for any threads,
\* priorities and delays: what rt_schedule, rt_thread_control, rt_thread_timeout and the
\* others do to them, in whatever order interrupts mix them.
THEOREM ReadyThreadsListed == Spec => []ReadyListed
<1>1. Init => SchedInv  BY SchedInvInit DEF Init
<1>2. SchedInv /\ [Next]_vars => SchedInv'  BY SchedInvStep
<1>3. SchedInv => ReadyListed  BY SchedInvListed
<1> QED  BY <1>1, <1>2, <1>3, PTL DEF Spec

\* rt_schedule is called often enough, and finds the right thread (HighestRuns): whenever it
\* is not about to be called, the thread that runs is ready and none goes before it.
THEOREM HighestAlwaysRuns == Spec => []HighestRuns
<1>1. Init => SchedInv  BY SchedInvInit DEF Init
<1>2. SchedInv /\ [Next]_vars => SchedInv'  BY SchedInvStep
<1>3. SchedInv => HighestRuns  BY DEF SchedInv
<1> QED  BY <1>1, <1>2, <1>3, PTL DEF Spec

LEMMA TimersFireStep ==
    ASSUME SchedInv, [Next]_vars
    PROVE  [tick' # tick => \A t \in Running : t \notin Range(timers') <=> left[t] <= 1]_schedVars
<1>1. SchedInv'  BY SchedInvStep
<1>2. timers \in Seq(Task) /\ timers' \in Seq(Task) /\ left \in [Task -> Int]
  BY <1>1 DEF SchedInv, TimerInv, TimersTyped
<1>3. SUFFICES ASSUME tick' # tick
               PROVE  \A t \in Running : t \notin Range(timers') <=> left[t] <= 1
  OBVIOUS
<1>4. TickIncrease
  <2>1. UNCHANGED schedVars \/ NextSched  BY DEF Next, vars
  <2>2. CASE UNCHANGED schedVars  BY <2>2, <1>3 DEF schedVars
  <2>3. CASE NextSched
    BY <2>3, <1>3 DEF NextSched, ThreadSleep, ThreadWakes, MutexWaits, MutexReleases, MutexReleasesAlone,
      ThreadYield, EnterCritical, ExitCritical, ThreadSchedules, IsrWakes, IsrSchedules
  <2> QED  BY <2>1, <2>2, <2>3
<1>5. \A u \in Task : Started(u)' <=> Started(u) /\ left[u] > 1  BY <1>4, TickStep
<1>6. DOMAIN timers = 1..Len(timers) /\ DOMAIN timers' = 1..Len(timers')  BY <1>2
<1>7. \A u : u \in Running <=> Started(u)  BY <1>6 DEF Running, Range, Started
<1>8. \A u : u \in Range(timers') <=> Started(u)'  BY <1>6 DEF Range, Started
<1>9. \A u : Started(u) => u \in Task  BY <1>2, ElementOfSeq DEF Started
<1>10. ASSUME NEW t \in Running PROVE t \notin Range(timers') <=> left[t] <= 1
  <2>1. t \in Task /\ Started(t) /\ left[t] \in Int  BY <1>2, <1>7, <1>9
  <2>2. t \notin Range(timers') <=> ~(left[t] > 1)  BY <2>1, <1>5, <1>8
  <2> QED  BY <2>1, <2>2
<1> QED  BY <1>10

\* A timer fires at the tick at which its time has come and at no other (OnTime), for every
\* modulus of the tick counter, any delays below half of it and any number of timers.
THEOREM TimersFireOnTime == Spec => OnTime
<1>1. Init => SchedInv  BY SchedInvInit DEF Init
<1>2. SchedInv /\ [Next]_vars => SchedInv'  BY SchedInvStep
<1>3. SchedInv /\ [Next]_vars
        => [tick' # tick => \A t \in Running : t \notin Range(timers') <=> left[t] <= 1]_schedVars
  BY TimersFireStep
<1> QED  BY <1>1, <1>2, <1>3, PTL DEF Spec, OnTime

-----------------------------------------------------------------------------
(* The heap: the chain of headers.                                         *)

HeapBlock == [used : BOOLEAN, next : Nat, prev : Nat]

\* The headers b tile the heap and are linked both ways.
Chained(b) ==
    /\ DOMAIN b \subseteq Nat /\ b \in [DOMAIN b -> HeapBlock]
    /\ \A p \in DOMAIN b : p < HeapEnd /\ p + Header < b[p].next
    /\ \A p \in DOMAIN b : b[p].next \in DOMAIN b \/ b[p].next = HeapEnd
    /\ \A p, q \in DOMAIN b : q <= p \/ b[p].next <= q
    /\ \A p \in DOMAIN b : b[p].next \in DOMAIN b => b[b[p].next].prev = p
    /\ 0 \in DOMAIN b /\ b[0].prev = 0
    /\ \A p \in DOMAIN b : p # 0 => b[p].prev \in DOMAIN b /\ b[b[p].prev].next = p

LEMMA HeapFacts ==
    /\ Header \in Nat /\ Header > 0 /\ MinSize \in Nat /\ MinSize > 0 /\ HeapSize \in Nat
    /\ HeapEnd \in Nat /\ HeapEnd > Header /\ HeapEnd = HeapSize + Header
BY HeapAssumption DEF HeapEnd

\* What Split does to every header.
IsSplit(b, c, p, q) ==
    /\ DOMAIN c = DOMAIN b \cup {q} /\ c \in [DOMAIN c -> HeapBlock]
    /\ c[q].used = FALSE /\ c[q].next = b[p].next /\ c[q].prev = p
    /\ c[p].used = b[p].used /\ c[p].next = q
    /\ \A x \in DOMAIN b : x # p => c[x].used = b[x].used /\ c[x].next = b[x].next
    /\ b[p].next \in DOMAIN b => c[b[p].next].prev = q
    /\ \A x \in DOMAIN b : x # b[p].next => c[x].prev = b[x].prev

LEMMA SetPrevIs ==
    ASSUME NEW b, b \in [DOMAIN b -> HeapBlock], NEW p, NEW q \in Nat, p \in DOMAIN b \/ p = HeapEnd,
           HeapEnd \notin DOMAIN b
    PROVE  /\ DOMAIN SetPrev(b, p, q) = DOMAIN b
           /\ SetPrev(b, p, q) \in [DOMAIN b -> HeapBlock]
           /\ \A x \in DOMAIN b : /\ SetPrev(b, p, q)[x].used = b[x].used
                                  /\ SetPrev(b, p, q)[x].next = b[x].next
                                  /\ SetPrev(b, p, q)[x].prev = IF x = p THEN q ELSE b[x].prev
<1>1. CASE p = HeapEnd  BY <1>1 DEF SetPrev
<1>2. CASE p # HeapEnd
  <2>1. SetPrev(b, p, q) = [b EXCEPT ![p].prev = q] /\ p \in DOMAIN b  BY <1>2 DEF SetPrev
  <2> QED  BY <2>1 DEF HeapBlock
<1> QED  BY <1>1, <1>2

LEMMA SplitIs ==
    ASSUME NEW b, Chained(b), NEW p \in DOMAIN b, NEW q \in Nat, q \notin DOMAIN b, q # HeapEnd
    PROVE  IsSplit(b, Split(b, p, q), p, q)
<1>1. PICK n : n = b[p].next  OBVIOUS
<1>2. PICK c : c = [x \in DOMAIN b \cup {q} |->
                IF x = q THEN [used |-> FALSE, next |-> n, prev |-> p]
                ELSE IF x = p THEN [b[p] EXCEPT !.next = q] ELSE b[x]]
  OBVIOUS
<1>3. Split(b, p, q) = SetPrev(c, n, q)  BY <1>1, <1>2 DEF Split
<1>4. n \in Nat /\ (n \in DOMAIN b \/ n = HeapEnd) /\ n # p /\ p \in Nat /\ HeapEnd \notin DOMAIN b
  BY <1>1, HeapFacts DEF Chained, HeapBlock
<1>5. DOMAIN c = DOMAIN b \cup {q}  BY <1>2
<1>6. /\ c[q] = [used |-> FALSE, next |-> n, prev |-> p]
      /\ c[p] = [b[p] EXCEPT !.next = q]
      /\ \A x \in DOMAIN b : x # p => c[x] = b[x]
  BY <1>2
<1>7. \A x \in DOMAIN b : b[x] \in HeapBlock  BY DEF Chained
<1>8. /\ c[q] \in HeapBlock /\ c[q].used = FALSE /\ c[q].next = n /\ c[q].prev = p
  BY <1>4, <1>6 DEF HeapBlock
<1>9. /\ c[p] \in HeapBlock /\ c[p].used = b[p].used /\ c[p].next = q /\ c[p].prev = b[p].prev
  BY <1>6, <1>7 DEF HeapBlock
<1>10. c \in [DOMAIN c -> HeapBlock]
  <2>1. \A x \in DOMAIN c : c[x] \in HeapBlock  BY <1>5, <1>6, <1>7, <1>8, <1>9
  <2> QED  BY <2>1, <1>2
<1>11. PICK d : d = SetPrev(c, n, q)  OBVIOUS
<1>12. n \in DOMAIN c \/ n = HeapEnd  BY <1>4, <1>5
<1>13. HeapEnd \notin DOMAIN c  BY <1>4, <1>5
<1>14. /\ DOMAIN d = DOMAIN c /\ d \in [DOMAIN c -> HeapBlock]
       /\ \A x \in DOMAIN c : /\ d[x].used = c[x].used /\ d[x].next = c[x].next
                              /\ d[x].prev = IF x = n THEN q ELSE c[x].prev
  BY <1>10, <1>11, <1>12, <1>13, SetPrevIs
<1>15. n # q  BY <1>4
<1>16. \A x \in DOMAIN b : c[x].prev = b[x].prev  BY <1>6, <1>9
<1>17. \A x \in DOMAIN b : x # p => c[x].used = b[x].used /\ c[x].next = b[x].next  BY <1>6
<1>18. IsSplit(b, d, p, q)
  BY <1>1, <1>4, <1>5, <1>8, <1>9, <1>14, <1>15, <1>16, <1>17 DEF IsSplit
<1> QED  BY <1>3, <1>11, <1>18

LEMMA SplitChained ==
    ASSUME NEW b, NEW c, Chained(b), NEW p \in DOMAIN b, NEW q \in Nat, IsSplit(b, c, p, q),
           p + Header < q, q + Header < b[p].next
    PROVE  Chained(c)
<1>1. PICK n \in Nat : n = b[p].next  BY DEF Chained, HeapBlock
<1>2. /\ \A x \in DOMAIN b : x \in Nat /\ b[x].next \in Nat /\ b[x].prev \in Nat
      /\ Header \in Nat /\ HeapEnd \in Nat
  BY HeapFacts DEF Chained, HeapBlock
<1>3. n <= HeapEnd /\ q < n /\ p < q /\ q < HeapEnd /\ q # 0 BY <1>1, <1>2 DEF Chained
<1>4. DOMAIN c = DOMAIN b \cup {q} /\ c \in [DOMAIN c -> HeapBlock]  BY DEF IsSplit
<1>5. DOMAIN c \subseteq Nat  BY <1>2, <1>4
<1>6. \A x \in DOMAIN c : x < HeapEnd /\ x + Header < c[x].next
  BY <1>1, <1>2, <1>3, <1>4 DEF Chained, IsSplit
<1>7. \A x \in DOMAIN c : c[x].next \in DOMAIN c \/ c[x].next = HeapEnd
  BY <1>1, <1>4 DEF Chained, IsSplit
<1>8. q \notin DOMAIN b  BY <1>1, <1>2, <1>3 DEF Chained
<1>9. ASSUME NEW x \in DOMAIN c, NEW y \in DOMAIN c PROVE y <= x \/ c[x].next <= y
  <2>1. CASE x # p /\ x # q
    <3>1. x \in DOMAIN b /\ c[x].next = b[x].next  BY <2>1, <1>4 DEF IsSplit
    <3>2. CASE y # q  BY <3>1, <3>2, <1>4 DEF Chained
    <3>3. CASE y = q
      <4>1. p <= x \/ b[x].next <= p  BY <3>1 DEF Chained
      <4>2. x <= p \/ n <= x  BY <3>1, <1>1 DEF Chained
      <4> QED  BY <4>1, <4>2, <3>1, <3>3, <1>2, <1>3, <2>1
    <3> QED  BY <3>2, <3>3
  <2>2. CASE x = p
    <3>1. c[x].next = q  BY <2>2 DEF IsSplit
    <3>2. CASE y # q
      <4>1. y \in DOMAIN b /\ (y <= p \/ n <= y)  BY <3>2, <1>1, <1>4 DEF Chained
      <4> QED  BY <4>1, <3>1, <1>2, <1>3, <2>2
    <3>3. CASE y = q  BY <3>1, <3>3
    <3> QED  BY <3>2, <3>3
  <2>3. CASE x = q
    <3>1. c[x].next = n  BY <2>3, <1>1 DEF IsSplit
    <3>2. CASE y # q
      <4>1. y \in DOMAIN b /\ (y <= p \/ n <= y)  BY <3>2, <1>1, <1>4 DEF Chained
      <4> QED  BY <4>1, <3>1, <1>2, <1>3, <2>3
    <3>3. CASE y = q  BY <2>3, <3>3
    <3> QED  BY <3>2, <3>3
  <2> QED  BY <2>1, <2>2, <2>3
<1>10. ASSUME NEW x \in DOMAIN c, c[x].next \in DOMAIN c PROVE c[c[x].next].prev = x
  <2>1. CASE x # p /\ x # q
    <3>1. PICK m : m = b[x].next  OBVIOUS
    <3>2. x \in DOMAIN b /\ c[x].next = m  BY <2>1, <3>1, <1>4 DEF IsSplit
    <3>3. m # q
      <4>1. p <= x \/ b[x].next <= p  BY <3>2 DEF Chained
      <4>2. x <= p \/ n <= x  BY <3>2, <1>1 DEF Chained
      <4> QED  BY <4>1, <4>2, <3>1, <3>2, <1>2, <1>3, <2>1 DEF Chained
    <3>4. m \in DOMAIN b /\ b[m].prev = x  BY <3>1, <3>2, <3>3, <1>4, <1>10 DEF Chained
    <3>5. m # n  BY <3>1, <3>2, <3>4, <1>1, <2>1 DEF Chained
    <3> QED  BY <3>2, <3>4, <3>5, <1>1 DEF IsSplit
  <2>2. CASE x = p  BY <2>2 DEF IsSplit
  <2>3. CASE x = q
    <3>1. c[x].next = n  BY <2>3, <1>1 DEF IsSplit
    <3>2. n \in DOMAIN b  BY <3>1, <1>3, <1>4, <1>10
    <3> QED  BY <3>1, <3>2, <2>3, <1>1 DEF IsSplit
  <2> QED  BY <2>1, <2>2, <2>3
<1>11. 0 \in DOMAIN c /\ c[0].prev = 0
  <2>1. 0 \in DOMAIN b /\ b[0].prev = 0 /\ 0 # n  BY <1>3 DEF Chained
  <2> QED  BY <2>1, <1>1, <1>4 DEF IsSplit
<1>12. ASSUME NEW x \in DOMAIN c, x # 0 PROVE c[x].prev \in DOMAIN c /\ c[c[x].prev].next = x
  <2>1. CASE x # n /\ x # q
    <3>1. x \in DOMAIN b /\ c[x].prev = b[x].prev  BY <2>1, <1>1, <1>4 DEF IsSplit
    <3>2. PICK m : m = b[x].prev  OBVIOUS
    <3>3. m \in DOMAIN b /\ b[m].next = x  BY <3>1, <3>2, <1>12 DEF Chained
    <3>4. m # p  BY <3>3, <2>1, <1>1
    <3> QED  BY <3>1, <3>2, <3>3, <3>4, <1>4 DEF IsSplit
  <2>2. CASE x = n
    <3>1. n \in DOMAIN b  BY <2>2, <1>3, <1>4
    <3> QED  BY <2>2, <3>1, <1>1, <1>4 DEF IsSplit
  <2>3. CASE x = q  BY <2>3, <1>4 DEF IsSplit
  <2> QED  BY <2>1, <2>2, <2>3
<1> QED  BY <1>4, <1>5, <1>6, <1>7, <1>9, <1>10, <1>11, <1>12 DEF Chained

\* What Join does to every header, if n is the block behind p.
IsJoin(b, c, p, n) ==
    /\ DOMAIN c = DOMAIN b \ {n} /\ c \in [DOMAIN c -> HeapBlock]
    /\ c[p].next = b[n].next
    /\ \A x \in DOMAIN c : c[x].used = b[x].used
    /\ \A x \in DOMAIN c : x # p => c[x].next = b[x].next
    /\ b[n].next \in DOMAIN b => c[b[n].next].prev = p
    /\ \A x \in DOMAIN c : x # b[n].next => c[x].prev = b[x].prev

LEMMA JoinIs ==
    ASSUME NEW b, Chained(b), NEW p \in DOMAIN b, NEW n \in DOMAIN b, n = b[p].next
    PROVE  IsJoin(b, Join(b, p), p, n)
<1>1. PICK m \in Nat : m = b[n].next  BY DEF Chained, HeapBlock
<1>2. PICK c : c = [x \in DOMAIN b \ {n} |-> IF x = p THEN [b[p] EXCEPT !.next = m] ELSE b[x]]
  OBVIOUS
<1>3. Join(b, p) = SetPrev(c, m, p)  BY <1>1, <1>2 DEF Join
<1>4. /\ m \in DOMAIN b \/ m = HeapEnd
      /\ n # p /\ p \in Nat /\ HeapEnd \notin DOMAIN b /\ m # n
  BY <1>1, HeapFacts DEF Chained, HeapBlock
<1>5. DOMAIN c = DOMAIN b \ {n}  BY <1>2
<1>6. /\ c[p] = [b[p] EXCEPT !.next = m]
      /\ \A x \in DOMAIN c : x # p => c[x] = b[x]
  BY <1>2, <1>4, <1>5
<1>7. \A x \in DOMAIN b : b[x] \in HeapBlock  BY DEF Chained
<1>8. /\ c[p] \in HeapBlock /\ c[p].used = b[p].used /\ c[p].next = m /\ c[p].prev = b[p].prev
  BY <1>6, <1>7 DEF HeapBlock
<1>9. c \in [DOMAIN c -> HeapBlock]
  <2>1. \A x \in DOMAIN c : c[x] \in HeapBlock  BY <1>5, <1>6, <1>7, <1>8
  <2> QED  BY <2>1, <1>2
<1>10. PICK d : d = SetPrev(c, m, p)  OBVIOUS
<1>11. (m \in DOMAIN c \/ m = HeapEnd) /\ HeapEnd \notin DOMAIN c /\ p \in DOMAIN c  BY <1>4, <1>5
<1>12. /\ DOMAIN d = DOMAIN c /\ d \in [DOMAIN c -> HeapBlock]
       /\ \A x \in DOMAIN c : /\ d[x].used = c[x].used /\ d[x].next = c[x].next
                              /\ d[x].prev = IF x = m THEN p ELSE c[x].prev
  BY <1>4, <1>9, <1>10, <1>11, SetPrevIs
<1>13. \A x \in DOMAIN c : c[x].prev = b[x].prev /\ c[x].used = b[x].used  BY <1>6, <1>8
<1>14. \A x \in DOMAIN c : x # p => c[x].next = b[x].next  BY <1>6
<1>15. IsJoin(b, d, p, n)
  BY <1>1, <1>4, <1>5, <1>8, <1>11, <1>12, <1>13, <1>14 DEF IsJoin
<1> QED  BY <1>3, <1>10, <1>15

LEMMA JoinChained ==
    ASSUME NEW b, NEW c, Chained(b), NEW p \in DOMAIN b, NEW n \in DOMAIN b, n = b[p].next,
           IsJoin(b, c, p, n)
    PROVE  Chained(c)
<1>1. PICK m \in Nat : m = b[n].next  BY DEF Chained, HeapBlock
<1>2. /\ \A x \in DOMAIN b : x \in Nat /\ b[x].next \in Nat /\ b[x].prev \in Nat
      /\ Header \in Nat /\ HeapEnd \in Nat
  BY HeapFacts DEF Chained, HeapBlock
<1>3. p + Header < n /\ n + Header < m /\ (m \in DOMAIN b \/ m = HeapEnd) /\ n \notin {p, m, 0}
  BY <1>1, <1>2 DEF Chained
<1>4. DOMAIN c = DOMAIN b \ {n} /\ c \in [DOMAIN c -> HeapBlock] /\ p \in DOMAIN c
  BY <1>3 DEF IsJoin
<1>5. c[p].next = m /\ \A x \in DOMAIN c : x # p => c[x].next = b[x].next  BY <1>1 DEF IsJoin
<1>6. \A x \in DOMAIN b : x # p => b[x].next # n
  BY <1>3 DEF Chained
<1>7. \A x \in DOMAIN c : x < HeapEnd /\ x + Header < c[x].next
  BY <1>2, <1>3, <1>4, <1>5 DEF Chained
<1>8. \A x \in DOMAIN c : c[x].next \in DOMAIN c \/ c[x].next = HeapEnd
  BY <1>3, <1>4, <1>5, <1>6 DEF Chained
<1>9. ASSUME NEW x \in DOMAIN c, NEW y \in DOMAIN c PROVE y <= x \/ c[x].next <= y
  <2>1. x \in DOMAIN b /\ y \in DOMAIN b /\ y # n  BY <1>4
  <2>2. CASE x # p  BY <2>1, <2>2, <1>5 DEF Chained
  <2>3. CASE x = p
    <3>1. y <= p \/ n <= y  BY <2>1 DEF Chained
    <3>2. y <= n \/ m <= y  BY <2>1, <1>1 DEF Chained
    <3> QED  BY <2>1, <2>3, <3>1, <3>2, <1>2, <1>5
  <2> QED  BY <2>2, <2>3
<1>10. ASSUME NEW x \in DOMAIN c, c[x].next \in DOMAIN c PROVE c[c[x].next].prev = x
  <2>1. CASE x # p
    <3>1. PICK k : k = b[x].next  OBVIOUS
    <3>2. x \in DOMAIN b /\ c[x].next = k /\ k \in DOMAIN b /\ b[k].prev = x
      BY <2>1, <3>1, <1>4, <1>5, <1>10 DEF Chained
    <3>3. k # m  BY <3>1, <3>2, <1>1, <1>4 DEF Chained
    <3> QED  BY <3>2, <3>3, <1>1, <1>10 DEF IsJoin
  <2>2. CASE x = p  BY <2>2, <1>1, <1>4, <1>5, <1>10 DEF IsJoin
  <2> QED  BY <2>1, <2>2
<1>11. 0 \in DOMAIN c /\ c[0].prev = 0
  <2>1. 0 \in DOMAIN b /\ b[0].prev = 0 /\ 0 # m  BY <1>2, <1>3 DEF Chained
  <2> QED  BY <2>1, <1>1, <1>3, <1>4 DEF IsJoin
<1>12. ASSUME NEW x \in DOMAIN c, x # 0 PROVE c[x].prev \in DOMAIN c /\ c[c[x].prev].next = x
  <2>1. CASE x # m
    <3>1. x \in DOMAIN b /\ x # n /\ c[x].prev = b[x].prev  BY <2>1, <1>1, <1>4 DEF IsJoin
    <3>2. PICK k : k = b[x].prev  OBVIOUS
    <3>3. k \in DOMAIN b /\ b[k].next = x  BY <3>1, <3>2, <1>12 DEF Chained
    <3>4. k # n /\ k # p  BY <3>1, <3>3, <2>1, <1>1
    <3> QED  BY <3>1, <3>2, <3>3, <3>4, <1>4, <1>5
  <2>2. CASE x = m  BY <2>2, <1>1, <1>4, <1>5 DEF IsJoin
  <2> QED  BY <2>1, <2>2
<1>13. DOMAIN c \subseteq Nat  BY <1>2, <1>4
<1> QED  BY <1>4, <1>7, <1>8, <1>9, <1>10, <1>11, <1>12, <1>13 DEF Chained

\* No two free blocks are side by side; or none but for p.
Merged(b) == \A x \in DOMAIN b : b[x].next \in DOMAIN b => b[x].used \/ b[b[x].next].used
MergedBut(b, p) ==
    \A x \in DOMAIN b : b[x].next \in DOMAIN b /\ x # p /\ b[x].next # p => b[x].used \/ b[b[x].next].used

\* The used blocks are the same.
SameUsed(b, d) ==
    /\ Free(d) \subseteq Free(b)
    /\ \A x \in DOMAIN b : b[x].used => x \in DOMAIN d /\ d[x].used /\ d[x].next = b[x].next
    /\ \A x \in DOMAIN d : d[x].used => x \in DOMAIN b /\ b[x].used

LEMMA JoinSame ==
    ASSUME NEW b, NEW c, Chained(b), NEW p \in DOMAIN b, NEW n \in DOMAIN b, n = b[p].next,
           IsJoin(b, c, p, n), ~b[p].used, ~b[n].used
    PROVE  SameUsed(b, c)
BY DEF IsJoin, SameUsed, Free

\* lfree after the block n was made part of p.
Moved(l, n, p) == IF l = n THEN p ELSE l

LEMMA JoinMoves ==
    ASSUME NEW b, NEW c, Chained(b), NEW p \in DOMAIN b, NEW n \in DOMAIN b, n = b[p].next,
           IsJoin(b, c, p, n), ~b[p].used, NEW l, l \in Free(b) \/ l = HeapEnd
    PROVE  /\ Moved(l, n, p) \in Free(c) \/ Moved(l, n, p) = HeapEnd
           /\ Moved(l, n, p) <= l /\ l \in Nat
<1>1. p \in Nat /\ n \in Nat /\ p < n /\ l \in Nat /\ HeapEnd # n /\ p \in DOMAIN c
  BY HeapFacts DEF Chained, Free, IsJoin
<1>2. CASE l = n  BY <1>1, <1>2 DEF Moved, Free, IsJoin
<1>3. CASE l # n  BY <1>1, <1>3 DEF Moved, Free, IsJoin
<1> QED  BY <1>2, <1>3

LEMMA SameUsedTrans ==
    ASSUME NEW b, NEW c, NEW d, SameUsed(b, c), SameUsed(c, d)
    PROVE  SameUsed(b, d)
BY DEF SameUsed

\* What plug_holes does to the free block p.
Plugged(b, l, p, c, m) ==
    /\ Chained(c) /\ Merged(c) /\ SameUsed(b, c)
    /\ m \in Free(c) \/ m = HeapEnd
    /\ m <= l /\ m \in Nat

LEMMA PlugHolesIs ==
    ASSUME NEW b, Chained(b), NEW p \in DOMAIN b, ~b[p].used, MergedBut(b, p),
           NEW l, l \in Free(b) \/ l = HeapEnd
    PROVE  Plugged(b, l, p, PlugHoles(b, l, p).block, PlugHoles(b, l, p).lfree)
<1>1. PICK n \in Nat : n = b[p].next  BY DEF Chained, HeapBlock
<1>2. PICK forward \in BOOLEAN : forward <=> (n # HeapEnd /\ ~b[n].used)  OBVIOUS
<1>3. PICK b1 : b1 = IF forward THEN Join(b, p) ELSE b  OBVIOUS
<1>4. PICK l1 : l1 = IF forward THEN Moved(l, n, p) ELSE l  OBVIOUS
<1>5. (n \in DOMAIN b \/ n = HeapEnd) /\ p \in Nat /\ l \in Nat /\ HeapEnd \notin DOMAIN b
  BY <1>1, HeapFacts DEF Chained, Free
<1>6. /\ Chained(b1) /\ MergedBut(b1, p) /\ SameUsed(b, b1) /\ p \in DOMAIN b1 /\ ~b1[p].used
      /\ b1[p].next \in DOMAIN b1 => b1[b1[p].next].used
      /\ l1 \in Free(b1) \/ l1 = HeapEnd
      /\ l1 <= l /\ l1 \in Nat
  <2>1. CASE forward
    <3>1. n \in DOMAIN b /\ ~b[n].used /\ b1 = Join(b, p)  BY <2>1, <1>2, <1>3, <1>5
    <3>2. IsJoin(b, b1, p, n)  BY <3>1, <1>1, JoinIs
    <3>3. Chained(b1) /\ SameUsed(b, b1)  BY <3>1, <3>2, <1>1, JoinChained, JoinSame
    <3>4. l1 \in Free(b1) \/ l1 = HeapEnd  BY <2>1, <3>1, <3>2, <1>1, <1>4, JoinMoves
    <3>9. l1 <= l /\ l1 \in Nat
      <4>1. l1 <= l  BY <2>1, <3>1, <3>2, <1>1, <1>4, JoinMoves
      <4> QED  BY <4>1, <1>1, <1>4, <1>5 DEF Moved
    <3>5. n # p /\ p \in DOMAIN b1 /\ ~b1[p].used  BY <3>1, <3>2, <1>1, <1>5, HeapFacts DEF Chained, IsJoin
    <3>6. MergedBut(b1, p)
      <4>1. SUFFICES ASSUME NEW x \in DOMAIN b1, b1[x].next \in DOMAIN b1, x # p, b1[x].next # p
                     PROVE  b1[x].used \/ b1[b1[x].next].used
        BY DEF MergedBut
      <4>2. b1[x].next = b[x].next  BY <4>1, <3>2 DEF IsJoin
      <4>3. x \in DOMAIN b /\ b[x].next \in DOMAIN b  BY <4>1, <4>2, <3>2 DEF IsJoin
      <4>4. b[x].used \/ b[b[x].next].used  BY <4>1, <4>2, <4>3 DEF MergedBut
      <4> QED  BY <4>1, <4>2, <4>4, <3>2 DEF IsJoin
    <3>7. ASSUME b1[p].next \in DOMAIN b1 PROVE b1[b1[p].next].used
      <4>1. PICK m \in Nat : m = b[n].next  BY <3>1 DEF Chained, HeapBlock
      <4>2. b1[p].next = m /\ m \in DOMAIN b1 /\ m \in DOMAIN b  BY <3>2, <3>7, <4>1 DEF IsJoin
      <4>3. p < n /\ n < m  BY <3>1, <4>1, <1>1, <1>5, HeapFacts DEF Chained
      <4>4. b[m].used  BY <3>1, <3>5, <4>1, <4>2, <4>3, <1>5 DEF MergedBut
      <4> QED  BY <3>2, <4>2, <4>4 DEF IsJoin
    <3> QED  BY <3>3, <3>4, <3>5, <3>6, <3>7, <3>9
  <2>2. CASE ~forward
    <3>1. b1 = b /\ l1 = l  BY <2>2, <1>3, <1>4
    <3>2. b[p].next \in DOMAIN b => b[b[p].next].used  BY <2>2, <1>1, <1>2, <1>5
    <3>3. SameUsed(b, b)  BY DEF SameUsed
    <3> QED  BY <3>1, <3>2, <3>3, <1>5
  <2> QED  BY <2>1, <2>2
<1>7. PICK q \in Nat : q = b1[p].prev  BY <1>6 DEF Chained, HeapBlock
<1>8. PICK backward \in BOOLEAN : backward <=> (q # p /\ ~b1[q].used)  OBVIOUS
<1>9. PICK b2 : b2 = IF backward THEN Join(b1, q) ELSE b1  OBVIOUS
<1>10. PICK l2 : l2 = IF backward THEN Moved(l1, p, q) ELSE l1  OBVIOUS
<1>11. Plugged(b, l, p, b2, l2)
  <2>1. CASE backward
    <3>1. p # 0  BY <2>1, <1>6, <1>7, <1>8 DEF Chained
    <3>2. q \in DOMAIN b1 /\ b1[q].next = p /\ ~b1[q].used /\ b2 = Join(b1, q) /\ q < p
      BY <2>1, <3>1, <1>5, <1>6, <1>7, <1>8, <1>9, HeapFacts DEF Chained
    <3>3. IsJoin(b1, b2, q, p)  BY <3>2, <1>6, JoinIs
    <3>4. Chained(b2) /\ SameUsed(b1, b2)  BY <3>2, <3>3, <1>6, JoinChained, JoinSame
    <3>5. (l2 \in Free(b2) \/ l2 = HeapEnd) /\ l2 <= l1
      BY <2>1, <3>2, <3>3, <1>6, <1>10, JoinMoves
    <3>6. l2 \in Nat /\ l2 <= l  BY <3>5, <1>5, <1>6, <1>7, <1>10 DEF Moved
    <3>7. Merged(b2)
      <4>1. SUFFICES ASSUME NEW x \in DOMAIN b2, b2[x].next \in DOMAIN b2
                     PROVE  b2[x].used \/ b2[b2[x].next].used
        BY DEF Merged
      <4>2. CASE x = q
        <5>1. b2[x].next = b1[p].next /\ b1[p].next \in DOMAIN b1  BY <4>1, <4>2, <3>3 DEF IsJoin
        <5> QED  BY <4>1, <5>1, <1>6, <3>3 DEF IsJoin
      <4>3. CASE x # q
        <5>1. b2[x].next = b1[x].next /\ x # p /\ b1[x].next # p /\ x \in DOMAIN b1 /\ b1[x].next \in DOMAIN b1
          BY <4>1, <4>3, <3>3 DEF IsJoin
        <5>2. b1[x].used \/ b1[b1[x].next].used  BY <5>1, <1>6 DEF MergedBut
        <5> QED  BY <5>1, <5>2, <4>1, <3>3 DEF IsJoin
      <4> QED  BY <4>2, <4>3
    <3>8. SameUsed(b, b2)  BY <3>4, <1>6, SameUsedTrans
    <3> QED  BY <3>4, <3>5, <3>6, <3>7, <3>8 DEF Plugged
  <2>2. CASE ~backward
    <3>1. b2 = b1 /\ l2 = l1  BY <2>2, <1>9, <1>10
    <3>2. Merged(b1)
      <4>1. SUFFICES ASSUME NEW x \in DOMAIN b1, b1[x].next \in DOMAIN b1
                     PROVE  b1[x].used \/ b1[b1[x].next].used
        BY DEF Merged
      <4>2. CASE x = p  BY <4>1, <4>2, <1>6
      <4>3. CASE b1[x].next = p
        <5>1. b1[p].prev = x /\ x \in Nat /\ x < p  BY <4>1, <4>3, <1>5, <1>6, HeapFacts DEF Chained
        <5> QED  BY <5>1, <2>2, <1>5, <1>7, <1>8
      <4>4. CASE x # p /\ b1[x].next # p  BY <4>1, <4>4, <1>6 DEF MergedBut
      <4> QED  BY <4>2, <4>3, <4>4
    <3> QED  BY <3>1, <3>2, <1>6 DEF Plugged
  <2> QED  BY <2>1, <2>2
<1>12. PlugHoles(b, l, p).block = b2 /\ PlugHoles(b, l, p).lfree = l2
  <2>1. /\ b1 = IF n # HeapEnd /\ ~b[n].used THEN Join(b, p) ELSE b
        /\ l1 = IF (n # HeapEnd /\ ~b[n].used) /\ l = n THEN p ELSE l
    BY <1>2, <1>3, <1>4 DEF Moved
  <2>2. /\ b2 = IF q # p /\ ~b1[q].used THEN Join(b1, q) ELSE b1
        /\ l2 = IF (q # p /\ ~b1[q].used) /\ l1 = p THEN q ELSE l1
    BY <1>8, <1>9, <1>10 DEF Moved
  <2>3. PlugHoles(b, l, p) = [block |-> b2, lfree |-> l2]  BY <2>1, <2>2, <1>1, <1>7 DEF PlugHoles
  <2> QED  BY <2>3
<1> QED  BY <1>11, <1>12

-----------------------------------------------------------------------------
(* The heap: the units in use.                                             *)

LEMMA UnitsIs ==
    ASSUME NEW b, NEW x
    PROVE  x \in UsedUnits(b) <=> \E p \in DOMAIN b : b[p].used /\ x \in p..(b[p].next - 1)
BY DEF UsedUnits, Free

LEMMA SameUnits ==
    ASSUME NEW b, NEW d, SameUsed(b, d)
    PROVE  UsedUnits(d) = UsedUnits(b)
<1>1. ASSUME NEW x PROVE x \in UsedUnits(d) <=> x \in UsedUnits(b)
  <2>1. ASSUME x \in UsedUnits(d) PROVE x \in UsedUnits(b)
    <3>1. PICK p \in DOMAIN d : d[p].used /\ x \in p..(d[p].next - 1)  BY <2>1, UnitsIs
    <3>2. p \in DOMAIN b /\ b[p].used /\ b[p].next = d[p].next  BY <3>1 DEF SameUsed
    <3> QED  BY <3>1, <3>2, UnitsIs
  <2>2. ASSUME x \in UsedUnits(b) PROVE x \in UsedUnits(d)
    <3>1. PICK p \in DOMAIN b : b[p].used /\ x \in p..(b[p].next - 1)  BY <2>2, UnitsIs
    <3>2. p \in DOMAIN d /\ d[p].used /\ b[p].next = d[p].next  BY <3>1 DEF SameUsed
    <3> QED  BY <3>1, <3>2, UnitsIs
  <2> QED  BY <2>1, <2>2
<1> QED  BY <1>1

LEMMA UnitsFinite ==
    ASSUME NEW b, Chained(b)
    PROVE  IsFiniteSet(UsedUnits(b))
<1>1. ASSUME NEW x \in UsedUnits(b) PROVE x \in 0..HeapEnd
  <2>1. PICK p \in DOMAIN b : b[p].used /\ x \in p..(b[p].next - 1)  BY UnitsIs
  <2>2. p \in Nat /\ b[p].next \in Nat /\ b[p].next <= HeapEnd /\ HeapEnd \in Nat
    BY HeapFacts DEF Chained, HeapBlock
  <2> QED  BY <2>1, <2>2
<1>2. UsedUnits(b) \in SUBSET (0..HeapEnd)  BY <1>1
<1>3. IsFiniteSet(0..HeapEnd)  BY HeapFacts, FS_Interval
<1> QED  BY <1>2, <1>3, FS_Subset

\* The units lo..hi - 1 are added to S.
LEMMA AddUnits ==
    ASSUME NEW S, IsFiniteSet(S), NEW T, NEW lo \in Nat, NEW hi \in Nat, lo < hi,
           \A x : x \in T <=> x \in S \/ x \in lo..(hi - 1),
           \A x \in S : x \notin lo..(hi - 1)
    PROVE  Cardinality(T) = Cardinality(S) + (hi - lo)
<1>1. PICK I : I = lo..(hi - 1)  OBVIOUS
<1>2. IsFiniteSet(I) /\ Cardinality(I) = (hi - 1) - lo + 1  BY <1>1, FS_Interval
<1>3. S \cap I = {} /\ T = S \cup I  BY <1>1
<1>4. Cardinality({}) = 0 /\ Cardinality(S) \in Nat  BY FS_EmptySet, FS_CardinalityType
<1>5. Cardinality(S \cup I) = Cardinality(S) + Cardinality(I) - Cardinality(S \cap I)
  BY <1>2, FS_Union
<1> QED  BY <1>2, <1>3, <1>4, <1>5

\* The header p is marked used or free.
IsMarked(b, d, p, u) ==
    /\ DOMAIN d = DOMAIN b /\ Chained(d) /\ d[p].used = u
    /\ \A x \in DOMAIN b : d[x].next = b[x].next /\ (x # p => d[x].used = b[x].used)

LEMMA MarkedIs ==
    ASSUME NEW b, Chained(b), NEW p \in DOMAIN b, NEW u \in BOOLEAN
    PROVE  IsMarked(b, [b EXCEPT ![p].used = u], p, u)
<1>1. PICK d : d = [b EXCEPT ![p].used = u]  OBVIOUS
<1>2. \A x \in DOMAIN b : b[x] \in HeapBlock  BY DEF Chained
<1>3. /\ DOMAIN d = DOMAIN b /\ d \in [DOMAIN d -> HeapBlock] /\ d[p].used = u
      /\ \A x \in DOMAIN b : d[x].next = b[x].next /\ d[x].prev = b[x].prev
      /\ \A x \in DOMAIN b : x # p => d[x].used = b[x].used
  <2>1. /\ DOMAIN d = DOMAIN b /\ d[p] = [b[p] EXCEPT !.used = u]
        /\ \A x \in DOMAIN b : x # p => d[x] = b[x]
    BY <1>1 DEF Chained
  <2>2. d[p] \in HeapBlock /\ d[p].used = u /\ d[p].next = b[p].next /\ d[p].prev = b[p].prev
    BY <2>1, <1>2 DEF HeapBlock
  <2>3. d = [x \in DOMAIN d |-> d[x]]  BY <1>1 DEF Chained
  <2> QED  BY <2>1, <2>2, <2>3, <1>2
<1>4. Chained(d)  BY <1>3 DEF Chained
<1> QED  BY <1>1, <1>3, <1>4 DEF IsMarked

LEMMA MarkedUnits ==
    ASSUME NEW b, Chained(b), NEW p \in DOMAIN b, ~b[p].used, NEW d, IsMarked(b, d, p, TRUE)
    PROVE  Cardinality(UsedUnits(d)) = Cardinality(UsedUnits(b)) + (b[p].next - p)
<1>1. PICK n \in Nat : n = b[p].next  BY DEF Chained, HeapBlock
<1>2. /\ p \in Nat /\ p < n
      /\ \A x \in DOMAIN b : x \in Nat /\ b[x].next \in Nat /\ (p <= x \/ b[x].next <= p) /\ (x <= p \/ n <= x)
  BY <1>1, HeapFacts DEF Chained, HeapBlock
<1>3. ASSUME NEW x PROVE x \in UsedUnits(d) <=> x \in UsedUnits(b) \/ x \in p..(n - 1)
  <2>1. ASSUME x \in UsedUnits(d) PROVE x \in UsedUnits(b) \/ x \in p..(n - 1)
    <3>1. PICK y \in DOMAIN d : d[y].used /\ x \in y..(d[y].next - 1)  BY <2>1, UnitsIs
    <3>2. CASE y = p  BY <3>1, <3>2, <1>1 DEF IsMarked
    <3>3. CASE y # p
      <4>1. y \in DOMAIN b /\ b[y].used /\ b[y].next = d[y].next  BY <3>1, <3>3 DEF IsMarked
      <4> QED  BY <3>1, <4>1, UnitsIs
    <3> QED  BY <3>2, <3>3
  <2>2. ASSUME x \in UsedUnits(b) PROVE x \in UsedUnits(d)
    <3>1. PICK y \in DOMAIN b : b[y].used /\ x \in y..(b[y].next - 1)  BY <2>2, UnitsIs
    <3>2. y \in DOMAIN d /\ d[y].used /\ d[y].next = b[y].next  BY <3>1 DEF IsMarked
    <3> QED  BY <3>1, <3>2, UnitsIs
  <2>3. ASSUME x \in p..(n - 1) PROVE x \in UsedUnits(d)
    <3>1. p \in DOMAIN d /\ d[p].used /\ d[p].next = n  BY <1>1 DEF IsMarked
    <3> QED  BY <2>3, <3>1, UnitsIs
  <2> QED  BY <2>1, <2>2, <2>3
<1>4. ASSUME NEW x \in UsedUnits(b) PROVE x \notin p..(n - 1)
  <2>1. PICK y \in DOMAIN b : b[y].used /\ x \in y..(b[y].next - 1)  BY UnitsIs
  <2>2. y # p  BY <2>1
  <2>3. y \in Nat /\ b[y].next \in Nat /\ (p <= y \/ b[y].next <= p) /\ (y <= p \/ n <= y)  BY <1>2
  <2>4. x \in Int /\ y <= x /\ x < b[y].next  BY <2>1, <2>3
  <2> QED  BY <2>2, <2>3, <2>4, <1>2
<1>5. IsFiniteSet(UsedUnits(b))  BY UnitsFinite
<1> QED  BY <1>1, <1>2, <1>3, <1>4, <1>5, AddUnits

\* Splitting a free block, or the end off a used one.
LEMMA SplitUnits ==
    ASSUME NEW b, Chained(b), NEW p \in DOMAIN b, NEW q \in Nat, p < q, q < b[p].next,
           NEW c, Chained(c), IsSplit(b, c, p, q)
    PROVE  Cardinality(UsedUnits(b)) =
              Cardinality(UsedUnits(c)) + IF b[p].used THEN b[p].next - q ELSE 0
<1>1. PICK n \in Nat : n = b[p].next  BY DEF Chained, HeapBlock
<1>2. /\ p \in Nat /\ q < n
      /\ \A x \in DOMAIN b : x \in Nat /\ b[x].next \in Nat /\ (p <= x \/ b[x].next <= p) /\ (x <= p \/ n <= x)
  BY <1>1, HeapFacts DEF Chained, HeapBlock
<1>3. /\ DOMAIN c = DOMAIN b \cup {q} /\ ~c[q].used /\ c[p].used = b[p].used /\ c[p].next = q
      /\ \A x \in DOMAIN b : x # p => c[x].used = b[x].used /\ c[x].next = b[x].next
  BY DEF IsSplit
<1>7. q \notin DOMAIN b  BY <1>2
<1>4. CASE b[p].used
  <2>1. ASSUME NEW x PROVE x \in UsedUnits(b) <=> x \in UsedUnits(c) \/ x \in q..(n - 1)
    <3>1. ASSUME x \in UsedUnits(b) PROVE x \in UsedUnits(c) \/ x \in q..(n - 1)
      <4>1. PICK y \in DOMAIN b : b[y].used /\ x \in y..(b[y].next - 1)  BY <3>1, UnitsIs
      <4>2. CASE y = p
        <5>1. x \in p..(n - 1)  BY <4>1, <4>2, <1>1
        <5>2. x \in p..(q - 1) \/ x \in q..(n - 1)  BY <5>1, <1>2
        <5>3. ASSUME x \in p..(q - 1) PROVE x \in UsedUnits(c)
          <6>1. p \in DOMAIN c /\ c[p].used /\ c[p].next = q  BY <1>3, <1>4
          <6> QED  BY <5>3, <6>1, UnitsIs
        <5> QED  BY <5>2, <5>3
      <4>3. CASE y # p
        <5>1. y \in DOMAIN c /\ c[y].used /\ c[y].next = b[y].next  BY <4>1, <4>3, <1>3
        <5> QED  BY <4>1, <5>1, UnitsIs
      <4> QED  BY <4>2, <4>3
    <3>2. ASSUME x \in UsedUnits(c) PROVE x \in UsedUnits(b)
      <4>1. PICK y \in DOMAIN c : c[y].used /\ x \in y..(c[y].next - 1)  BY <3>2, UnitsIs
      <4>2. CASE y = p
        <5>1. x \in p..(q - 1)  BY <4>1, <4>2, <1>3
        <5>2. x \in p..(b[p].next - 1)  BY <5>1, <1>1, <1>2
        <5> QED  BY <5>2, <1>4, UnitsIs
      <4>3. CASE y # p
        <5>1. y \in DOMAIN b /\ b[y].used /\ c[y].next = b[y].next  BY <4>1, <4>3, <1>3
        <5> QED  BY <4>1, <5>1, UnitsIs
      <4> QED  BY <4>2, <4>3
    <3>3. ASSUME x \in q..(n - 1) PROVE x \in UsedUnits(b)
      <4>1. x \in p..(b[p].next - 1)  BY <3>3, <1>1, <1>2
      <4> QED  BY <4>1, <1>4, UnitsIs
    <3> QED  BY <3>1, <3>2, <3>3
  <2>2. ASSUME NEW x \in UsedUnits(c) PROVE x \notin q..(n - 1)
    <3>1. PICK y \in DOMAIN c : c[y].used /\ x \in y..(c[y].next - 1)  BY UnitsIs
    <3>2. CASE y = p  BY <3>1, <3>2, <1>2, <1>3
    <3>3. CASE y # p
      <4>1. y \in DOMAIN b /\ c[y].next = b[y].next  BY <3>1, <3>3, <1>3
      <4>2. y \in Nat /\ b[y].next \in Nat /\ (p <= y \/ b[y].next <= p) /\ (y <= p \/ n <= y)  BY <4>1, <1>2
      <4>3. x \in Int /\ y <= x /\ x < b[y].next  BY <3>1, <4>1, <4>2
      <4> QED  BY <3>3, <4>2, <4>3, <1>2
    <3> QED  BY <3>2, <3>3
  <2>3. IsFiniteSet(UsedUnits(c))  BY UnitsFinite
  <2>4. Cardinality(UsedUnits(b)) = Cardinality(UsedUnits(c)) + (n - q)
    BY <2>1, <2>2, <2>3, <1>2, AddUnits
  <2> QED  BY <2>4, <1>1, <1>4
<1>5. CASE ~b[p].used
  <2>1. ASSUME NEW x PROVE x \in UsedUnits(b) <=> x \in UsedUnits(c)
    <3>1. ASSUME x \in UsedUnits(b) PROVE x \in UsedUnits(c)
      <4>1. PICK y \in DOMAIN b : b[y].used /\ x \in y..(b[y].next - 1)  BY <3>1, UnitsIs
      <4>2. y \in DOMAIN c /\ c[y].used /\ c[y].next = b[y].next  BY <4>1, <1>3, <1>5
      <4> QED  BY <4>1, <4>2, UnitsIs
    <3>2. ASSUME x \in UsedUnits(c) PROVE x \in UsedUnits(b)
      <4>1. PICK y \in DOMAIN c : c[y].used /\ x \in y..(c[y].next - 1)  BY <3>2, UnitsIs
      <4>2. y \in DOMAIN b /\ b[y].used /\ c[y].next = b[y].next  BY <4>1, <1>3, <1>5
      <4> QED  BY <4>1, <4>2, UnitsIs
    <3> QED  BY <3>1, <3>2
  <2>2. UsedUnits(b) = UsedUnits(c)  BY <2>1
  <2>3. Cardinality(UsedUnits(c)) \in Nat  BY UnitsFinite, FS_CardinalityType
  <2> QED  BY <2>2, <2>3, <1>5
<1> QED  BY <1>4, <1>5

-----------------------------------------------------------------------------
(* The heap: who has which block.                                          *)

HeldRecord == [at : Nat, size : Nat]

\* The used blocks of b and the blocks hs that the clients have are the same.
HeldOn(b, hs) ==
    /\ hs \in [Client -> SUBSET HeldRecord]
    /\ \A c \in Client : \A h \in hs[c] :
          h.at \in DOMAIN b /\ b[h.at].used /\ h.at + Header + h.size <= b[h.at].next
    /\ \A p \in DOMAIN b : b[p].used => \E c \in Client : \E h \in hs[c] : h.at = p
    /\ \A c, d \in Client : \A h \in hs[c], g \in hs[d] : h.at = g.at => c = d /\ h = g

LEMMA HeldSame ==
    ASSUME NEW b, NEW d, SameUsed(b, d), NEW hs, HeldOn(b, hs)
    PROVE  HeldOn(d, hs)
<1>1. \A c \in Client : \A h \in hs[c] :
          h.at \in DOMAIN d /\ d[h.at].used /\ h.at + Header + h.size <= d[h.at].next
  BY DEF SameUsed, HeldOn
<1>2. \A p \in DOMAIN d : d[p].used => \E c \in Client : \E h \in hs[c] : h.at = p
  BY DEF SameUsed, HeldOn
<1> QED  BY <1>1, <1>2 DEF HeldOn

\* d has the used blocks of b and p.
OneMoreUsed(b, d, p) ==
    /\ p \in DOMAIN d /\ d[p].used
    /\ \A x \in DOMAIN b : b[x].used => x # p /\ x \in DOMAIN d /\ d[x].used /\ d[x].next = b[x].next
    /\ \A x \in DOMAIN d : d[x].used /\ x # p => x \in DOMAIN b /\ b[x].used

Given(hs, c, p, s) == [hs EXCEPT ![c] = @ \cup {[at |-> p, size |-> s]}]

LEMMA HeldMore ==
    ASSUME NEW b, NEW d, NEW p \in Nat, OneMoreUsed(b, d, p), NEW hs, HeldOn(b, hs), NEW c \in Client,
           NEW s \in Nat, p + Header + s <= d[p].next, NEW gs,
           gs = Given(hs, c, p, s)
    PROVE  HeldOn(d, gs)
<1>1. PICK r : r = [at |-> p, size |-> s]  OBVIOUS
<1>2. r \in HeldRecord /\ r.at = p /\ r.size = s  BY <1>1 DEF HeldRecord
<1>3. gs = [hs EXCEPT ![c] = @ \cup {r}]  BY <1>1 DEF Given
<1>4. /\ gs \in [Client -> SUBSET HeldRecord] /\ gs[c] = hs[c] \cup {r}
      /\ \A k \in Client : k # c => gs[k] = hs[k]
  BY <1>2, <1>3 DEF HeldOn
<1>5. ASSUME NEW k \in Client, NEW h \in gs[k]
      PROVE  (k = c /\ h = r) \/ (h \in hs[k] /\ h.at # p)
  <2>1. (k = c /\ h = r) \/ h \in hs[k]  BY <1>4, <1>5
  <2> QED  BY <2>1 DEF HeldOn, OneMoreUsed
<1>6. ASSUME NEW k \in Client, NEW h \in gs[k]
      PROVE  h.at \in DOMAIN d /\ d[h.at].used /\ h.at + Header + h.size <= d[h.at].next
  <2>1. CASE h = r  BY <2>1, <1>2 DEF OneMoreUsed
  <2>2. CASE h \in hs[k]  BY <2>2 DEF HeldOn, OneMoreUsed
  <2> QED  BY <2>1, <2>2, <1>5
<1>7. ASSUME NEW x \in DOMAIN d, d[x].used PROVE \E k \in Client : \E h \in gs[k] : h.at = x
  <2>1. CASE x = p  BY <2>1, <1>2, <1>4
  <2>2. CASE x # p
    <3>1. x \in DOMAIN b /\ b[x].used  BY <2>2, <1>7 DEF OneMoreUsed
    <3>2. PICK k \in Client : \E h \in hs[k] : h.at = x  BY <3>1 DEF HeldOn
    <3>3. PICK h \in hs[k] : h.at = x  BY <3>2
    <3>4. h \in gs[k]  BY <3>3, <1>4
    <3> QED  BY <3>3, <3>4
  <2> QED  BY <2>1, <2>2
<1>8. ASSUME NEW k \in Client, NEW m \in Client, NEW h \in gs[k], NEW g \in gs[m], h.at = g.at
      PROVE  k = m /\ h = g
  <2>1. (k = c /\ h = r) \/ (h \in hs[k] /\ h.at # p)  BY <1>5
  <2>2. (m = c /\ g = r) \/ (g \in hs[m] /\ g.at # p)  BY <1>5
  <2> QED  BY <2>1, <2>2, <1>2, <1>8 DEF HeldOn
<1> QED  BY <1>4, <1>6, <1>7, <1>8 DEF HeldOn

LEMMA HeldLess ==
    ASSUME NEW b, NEW d, NEW hs, HeldOn(b, hs), NEW c \in Client, NEW h \in hs[c], OneMoreUsed(d, b, h.at),
           NEW gs, gs = [hs EXCEPT ![c] = @ \ {h}]
    PROVE  HeldOn(d, gs)
<1>1. /\ gs \in [Client -> SUBSET HeldRecord] /\ gs[c] = hs[c] \ {h}
      /\ \A k \in Client : k # c => gs[k] = hs[k]
  BY DEF HeldOn
<1>2. \A k \in Client : gs[k] \subseteq hs[k]  BY <1>1
<1>3. ASSUME NEW k \in Client, NEW g \in gs[k] PROVE g \in hs[k] /\ g.at # h.at
  <2>1. g \in hs[k] /\ ~(k = c /\ g = h)  BY <1>1, <1>2
  <2> QED  BY <2>1 DEF HeldOn
<1>4. ASSUME NEW k \in Client, NEW g \in gs[k]
      PROVE  g.at \in DOMAIN d /\ d[g.at].used /\ g.at + Header + g.size <= d[g.at].next
  <2>1. g \in hs[k] /\ g.at # h.at  BY <1>3
  <2>2. g.at \in DOMAIN b /\ b[g.at].used /\ g.at + Header + g.size <= b[g.at].next  BY <2>1 DEF HeldOn
  <2>3. g.at \in DOMAIN d /\ d[g.at].used  BY <2>1, <2>2 DEF OneMoreUsed
  <2> QED  BY <2>2, <2>3 DEF OneMoreUsed
<1>5. ASSUME NEW x \in DOMAIN d, d[x].used PROVE \E k \in Client : \E g \in gs[k] : g.at = x
  <2>1. x # h.at /\ x \in DOMAIN b /\ b[x].used  BY <1>5 DEF OneMoreUsed
  <2>2. PICK k \in Client : \E g \in hs[k] : g.at = x  BY <2>1 DEF HeldOn
  <2>3. PICK g \in hs[k] : g.at = x  BY <2>2
  <2>4. g \in gs[k]  BY <2>1, <2>3, <1>1
  <2> QED  BY <2>3, <2>4
<1>6. \A k, m \in Client : \A f \in gs[k], g \in gs[m] : f.at = g.at => k = m /\ f = g
  BY <1>2 DEF HeldOn
<1> QED  BY <1>1, <1>4, <1>5, <1>6 DEF HeldOn

\* The block h is kept with another size.
LEMMA HeldResized ==
    ASSUME NEW b, NEW d, NEW hs, HeldOn(b, hs), NEW c \in Client, NEW h \in hs[c], NEW s \in Nat,
           \A x \in DOMAIN b : b[x].used => x \in DOMAIN d /\ d[x].used /\ (x # h.at => d[x].next = b[x].next),
           \A x \in DOMAIN d : d[x].used => x \in DOMAIN b /\ b[x].used,
           h.at + Header + s <= d[h.at].next,
           NEW gs, gs = [hs EXCEPT ![c] = (@ \ {h}) \cup {[h EXCEPT !.size = s]}]
    PROVE  HeldOn(d, gs)
<1>1. PICK r : r = [h EXCEPT !.size = s]  OBVIOUS
<1>2. h \in HeldRecord /\ r \in HeldRecord /\ r.at = h.at /\ r.size = s  BY <1>1 DEF HeldOn, HeldRecord
<1>3. gs = [hs EXCEPT ![c] = (@ \ {h}) \cup {r}]  BY <1>1
<1>4. /\ gs \in [Client -> SUBSET HeldRecord] /\ gs[c] = (hs[c] \ {h}) \cup {r}
      /\ \A k \in Client : k # c => gs[k] = hs[k]
  BY <1>2, <1>3 DEF HeldOn
<1>5. ASSUME NEW k \in Client, NEW g \in gs[k]
      PROVE  (k = c /\ g = r) \/ (g \in hs[k] /\ g.at # h.at)
  <2>1. (k = c /\ g = r) \/ (g \in hs[k] /\ ~(k = c /\ g = h))  BY <1>4, <1>5
  <2> QED  BY <2>1 DEF HeldOn
<1>6. ASSUME NEW k \in Client, NEW g \in gs[k]
      PROVE  g.at \in DOMAIN d /\ d[g.at].used /\ g.at + Header + g.size <= d[g.at].next
  <2>0. h.at \in DOMAIN b /\ b[h.at].used  BY DEF HeldOn
  <2>1. CASE g = r  BY <2>0, <2>1, <1>2
  <2>2. CASE g \in hs[k] /\ g.at # h.at
    <3>1. g.at \in DOMAIN b /\ b[g.at].used /\ g.at + Header + g.size <= b[g.at].next
      BY <2>2 DEF HeldOn
    <3> QED  BY <3>1, <2>2
  <2> QED  BY <2>1, <2>2, <1>5
<1>7. ASSUME NEW x \in DOMAIN d, d[x].used PROVE \E k \in Client : \E g \in gs[k] : g.at = x
  <2>1. x \in DOMAIN b /\ b[x].used  BY <1>7
  <2>2. CASE x = h.at  BY <2>2, <1>2, <1>4
  <2>3. CASE x # h.at
    <3>1. PICK k \in Client : \E g \in hs[k] : g.at = x  BY <2>1 DEF HeldOn
    <3>2. PICK g \in hs[k] : g.at = x  BY <3>1
    <3>3. g \in gs[k]  BY <3>2, <2>3, <1>4
    <3> QED  BY <3>2, <3>3
  <2> QED  BY <2>2, <2>3
<1>8. ASSUME NEW k \in Client, NEW m \in Client, NEW f \in gs[k], NEW g \in gs[m], f.at = g.at
      PROVE  k = m /\ f = g
  <2>1. (k = c /\ f = r) \/ (f \in hs[k] /\ f.at # h.at)  BY <1>5
  <2>2. (m = c /\ g = r) \/ (g \in hs[m] /\ g.at # h.at)  BY <1>5
  <2> QED  BY <2>1, <2>2, <1>2, <1>8 DEF HeldOn
<1> QED  BY <1>4, <1>6, <1>7, <1>8 DEF HeldOn

-----------------------------------------------------------------------------
(* The heap: its sections.                                                 *)

LfreeOk(b, l) == l \in Free(b) \/ l = HeapEnd

\* What is free below lfree, rt_realloc has cut off.
CutOk(b, l, k) == \A p \in Free(b) : p < l => p \in k

Sound(b, l, used, hs, k) ==
    /\ Chained(b) /\ Merged(b) /\ LfreeOk(b, l) /\ CutOk(b, l, k)
    /\ used = Cardinality(UsedUnits(b)) /\ HeldOn(b, hs)

\* rt_malloc has split p, or not.
Prepared(b, d, p, n) ==
    /\ Chained(d) /\ p \in DOMAIN d /\ ~d[p].used /\ p + Header + n <= d[p].next
    /\ Cardinality(UsedUnits(d)) = Cardinality(UsedUnits(b))
    /\ MergedBut(d, p)
    /\ Free(b) \subseteq Free(d) /\ \A x \in Free(d) : x <= p => x \in Free(b)
    /\ \A x \in DOMAIN b : b[x].used => x \in DOMAIN d /\ d[x].used /\ d[x].next = b[x].next
    /\ \A x \in DOMAIN d : d[x].used => x \in DOMAIN b /\ b[x].used

LEMMA SplitPrepared ==
    ASSUME NEW b, Chained(b), Merged(b), NEW p \in Free(b), NEW n \in Nat, n >= MinSize,
           NEW d, Room(b, p) >= n,
           d = IF Room(b, p) >= n + Header + MinSize THEN Split(b, p, p + Header + n) ELSE b
    PROVE  Prepared(b, d, p, n)
<1>1. PICK m \in Nat : m = b[p].next  BY DEF Chained, HeapBlock, Free
<1>2. p \in DOMAIN b /\ ~b[p].used /\ p \in Nat /\ Room(b, p) = m - p - Header  BY <1>1 DEF Chained, Free, Room
<1>3. MergedBut(b, p)  BY DEF Merged, MergedBut
<1>4. CASE Room(b, p) >= n + Header + MinSize
  <2>1. PICK q \in Nat : q = p + Header + n  BY <1>2, HeapFacts
  <2>2. p + Header < q /\ q + Header < m /\ p < q /\ q < m /\ d = Split(b, p, q)
    BY <2>1, <1>2, <1>4, HeapFacts
  <2>3. q \notin DOMAIN b /\ q # HeapEnd
    BY <2>2, <1>1, <1>2, HeapFacts DEF Chained
  <2>4. IsSplit(b, d, p, q)  BY <2>2, <2>3, <1>2, SplitIs
  <2>5. Chained(d)  BY <2>2, <2>4, <1>1, <1>2, SplitChained
  <2>6. Cardinality(UsedUnits(b)) = Cardinality(UsedUnits(d)) + 0
    BY <2>2, <2>4, <2>5, <1>1, <1>2, SplitUnits
  <2>7. Cardinality(UsedUnits(d)) \in Nat  BY <2>5, UnitsFinite, FS_CardinalityType
  <2>8. MergedBut(d, p)
    <3>1. SUFFICES ASSUME NEW x \in DOMAIN d, d[x].next \in DOMAIN d, x # p, d[x].next # p
                   PROVE  d[x].used \/ d[d[x].next].used
      BY DEF MergedBut
    <3>2. CASE x = q
      <4>1. d[x].next = m /\ m \in DOMAIN b /\ m # q  BY <3>1, <3>2, <2>2, <2>4, <1>1 DEF IsSplit
      <4>2. b[m].used  BY <4>1, <1>1, <1>2 DEF Merged
      <4> QED  BY <4>1, <4>2, <2>4, <3>1 DEF IsSplit
    <3>3. CASE x # q
      <4>1. x \in DOMAIN b /\ d[x].next = b[x].next /\ d[x].used = b[x].used  BY <3>1, <3>3, <2>4 DEF IsSplit
      <4>2. b[x].next \in DOMAIN b  BY <4>1, <3>1, <2>3, <2>4 DEF IsSplit, Chained
      <4>3. b[x].used \/ b[b[x].next].used  BY <4>1, <4>2 DEF Merged
      <4> QED  BY <4>1, <4>2, <4>3, <3>1, <2>4 DEF IsSplit
    <3> QED  BY <3>2, <3>3
  <2>9. Free(b) \subseteq Free(d) /\ \A x \in Free(d) : x <= p => x \in Free(b)
    BY <2>2, <2>4, <1>2 DEF IsSplit, Free
  <2>10. /\ \A x \in DOMAIN b : b[x].used => x \in DOMAIN d /\ d[x].used /\ d[x].next = b[x].next
         /\ \A x \in DOMAIN d : d[x].used => x \in DOMAIN b /\ b[x].used
    BY <2>4, <1>2 DEF IsSplit
  <2>11. p \in DOMAIN d /\ ~d[p].used /\ p + Header + n <= d[p].next
    BY <2>1, <2>4, <1>2 DEF IsSplit
  <2> QED  BY <2>5, <2>6, <2>7, <2>8, <2>9, <2>10, <2>11 DEF Prepared
<1>5. CASE ~(Room(b, p) >= n + Header + MinSize)
  <2>1. d = b  BY <1>5
  <2>2. p + Header + n <= m  BY <1>2, HeapFacts
  <2> QED  BY <2>1, <2>2, <1>1, <1>2, <1>3 DEF Prepared
<1> QED  BY <1>4, <1>5

\* FreeFrom is the first free block from p on.
LEMMA FreeFromIs ==
    ASSUME NEW b, Chained(b), NEW p \in Nat
    PROVE  /\ LfreeOk(b, FreeFrom(b, p))
           /\ \A x \in Free(b) : x < FreeFrom(b, p) => x < p
<1>1. PICK F : F = {q \in Free(b) : q >= p}  OBVIOUS
<1>2. F \in SUBSET Nat /\ \A x \in Free(b) : x \in Nat  BY <1>1 DEF Chained, Free
<1>3. FreeFrom(b, p) = IF F = {} THEN HeapEnd ELSE Min(F)  BY <1>1 DEF FreeFrom
<1>4. CASE F = {}  BY <1>1, <1>2, <1>3, <1>4 DEF LfreeOk
<1>5. CASE F # {}
  <2>1. PICK m : m = Min(F)  OBVIOUS
  <2>2. m \in F /\ \A y \in F : m <= y  BY <2>1, <1>2, <1>5, MinIsLeast
  <2>3. FreeFrom(b, p) = m  BY <2>1, <1>3, <1>5
  <2>4. ASSUME NEW x \in Free(b), x < m PROVE x < p
    <3>1. x \in Nat /\ m \in Nat  BY <1>2, <2>2
    <3>2. x \in F => m <= x  BY <2>2
    <3> QED  BY <3>1, <3>2, <2>4, <1>1
  <2> QED  BY <2>2, <2>3, <2>4, <1>1 DEF LfreeOk
<1> QED  BY <1>4, <1>5

LEMMA AllocateKeeps ==
    ASSUME Sound(block, lfree, used_mem, held, cut), NEW n \in Nat, n >= MinSize, NEW p \in Fits(n),
           Allocate(p, n), NEW c \in Client, NEW s \in Nat, s <= n,
           held' = [held EXCEPT ![c] = @ \cup {[at |-> p, size |-> s]}]
    PROVE  Sound(block', lfree', used_mem', held', cut')
<1>1. PICK b : b = block  OBVIOUS
<1>2. PICK d : d = IF Room(b, p) >= n + Header + MinSize THEN Split(b, p, p + Header + n) ELSE b
  OBVIOUS
<1>3. PICK e : e = [d EXCEPT ![p].used = TRUE]  OBVIOUS
<1>4. /\ block' = e /\ used_mem' = used_mem + (e[p].next - p)
      /\ lfree' = IF p = lfree THEN FreeFrom(e, p) ELSE lfree
      /\ cut' = cut \ {p}
  BY <1>1, <1>2, <1>3 DEF Allocate
<1>5. /\ Chained(b) /\ Merged(b) /\ LfreeOk(b, lfree) /\ CutOk(b, lfree, cut)
      /\ used_mem = Cardinality(UsedUnits(b)) /\ HeldOn(b, held)
  BY <1>1 DEF Sound
<1>6. p \in Free(b) /\ p >= lfree /\ Room(b, p) >= n  BY <1>1 DEF Fits
<1>7. Prepared(b, d, p, n)  BY <1>2, <1>5, <1>6, SplitPrepared
<1>8. p \in DOMAIN d /\ Chained(d) /\ ~d[p].used /\ p \in Nat /\ lfree \in Nat
  BY <1>5, <1>6, <1>7, HeapFacts DEF Prepared, Chained, Free, LfreeOk
<1>9. IsMarked(d, e, p, TRUE)  BY <1>3, <1>8, MarkedIs
<1>10. Chained(e) /\ e[p].next = d[p].next  BY <1>8, <1>9 DEF IsMarked
<1>11. Merged(e)
  <2>1. ASSUME NEW x \in DOMAIN e, e[x].next \in DOMAIN e PROVE e[x].used \/ e[e[x].next].used
    <3>1. CASE x = p \/ e[x].next = p  BY <3>1, <1>9 DEF IsMarked
    <3>2. CASE x # p /\ e[x].next # p
      <4>1. x \in DOMAIN d /\ e[x].next = d[x].next /\ d[x].next \in DOMAIN d  BY <2>1, <1>9 DEF IsMarked
      <4>2. d[x].used \/ d[d[x].next].used  BY <4>1, <3>2, <1>7 DEF Prepared, MergedBut
      <4> QED  BY <4>1, <4>2, <3>2, <1>9 DEF IsMarked
    <3> QED  BY <3>1, <3>2
  <2> QED  BY <2>1 DEF Merged
<1>12. \A x : x \in Free(e) <=> x \in Free(d) /\ x # p  BY <1>9 DEF IsMarked, Free
<1>13. LfreeOk(e, lfree') /\ CutOk(e, lfree', cut')
  <2>1. CASE p = lfree
    <3>1. lfree' = FreeFrom(e, p)  BY <2>1, <1>4
    <3>2. LfreeOk(e, lfree') /\ \A x \in Free(e) : x < lfree' => x < p  BY <3>1, <1>8, <1>10, FreeFromIs
    <3>3. ASSUME NEW x \in Free(e), x < lfree' PROVE x \in cut'
      <4>1. x < p /\ x \in Free(d) /\ x # p /\ x \in Nat  BY <3>2, <3>3, <1>10, <1>12 DEF Chained, Free
      <4>2. x \in Free(b)  BY <4>1, <1>7, <1>8 DEF Prepared
      <4> QED  BY <4>1, <4>2, <2>1, <1>4, <1>5 DEF CutOk
    <3> QED  BY <3>2, <3>3 DEF CutOk
  <2>2. CASE p # lfree
    <3>1. lfree' = lfree /\ lfree < p  BY <2>2, <1>4, <1>6, <1>8
    <3>2. LfreeOk(e, lfree)  BY <2>2, <1>5, <1>7, <1>12 DEF LfreeOk, Prepared
    <3>3. ASSUME NEW x \in Free(e), x < lfree' PROVE x \in cut'
      <4>1. x \in Free(d) /\ x # p /\ x \in Nat  BY <1>10, <1>12 DEF Chained, Free
      <4>2. x \in Free(b)  BY <4>1, <3>1, <3>3, <1>7, <1>8 DEF Prepared
      <4> QED  BY <4>1, <4>2, <3>1, <3>3, <1>4, <1>5 DEF CutOk
    <3> QED  BY <3>1, <3>2, <3>3 DEF CutOk
  <2> QED  BY <2>1, <2>2
<1>14. used_mem' = Cardinality(UsedUnits(e))
  <2>1. Cardinality(UsedUnits(e)) = Cardinality(UsedUnits(d)) + (d[p].next - p)
    BY <1>8, <1>9, MarkedUnits
  <2> QED  BY <2>1, <1>4, <1>5, <1>7, <1>10 DEF Prepared
<1>15. OneMoreUsed(b, e, p)
  <2>1. p \in DOMAIN e /\ e[p].used  BY <1>8, <1>9 DEF IsMarked
  <2>2. ASSUME NEW x \in DOMAIN b, b[x].used
        PROVE  x # p /\ x \in DOMAIN e /\ e[x].used /\ e[x].next = b[x].next
    <3>1. x \in DOMAIN d /\ d[x].used /\ d[x].next = b[x].next  BY <2>2, <1>7 DEF Prepared
    <3>2. x # p  BY <3>1, <1>8
    <3> QED  BY <3>1, <3>2, <1>9 DEF IsMarked
  <2>3. ASSUME NEW x \in DOMAIN e, e[x].used, x # p PROVE x \in DOMAIN b /\ b[x].used
    BY <2>3, <1>7, <1>9 DEF IsMarked, Prepared
  <2> QED  BY <2>1, <2>2, <2>3 DEF OneMoreUsed
<1>16. p + Header + s <= e[p].next
  <2>1. p + Header + n <= d[p].next /\ d[p].next \in Nat  BY <1>7, <1>8 DEF Prepared, Chained, HeapBlock
  <2> QED  BY <2>1, <1>8, <1>10, HeapFacts
<1>17. HeldOn(e, held')
  <2>1. PICK hs : hs = held  OBVIOUS
  <2>2. PICK gs : gs = held'  OBVIOUS
  <2>3. gs = Given(hs, c, p, s)  BY <2>1, <2>2 DEF Given
  <2>4. HeldOn(b, hs)  BY <2>1, <1>5
  <2>5. HeldOn(e, gs)  BY <2>3, <2>4, <1>8, <1>15, <1>16, HeldMore
  <2> QED  BY <2>2, <2>5
<1> QED  BY <1>4, <1>10, <1>11, <1>13, <1>14, <1>17 DEF Sound

LEMMA ReleaseKeeps ==
    ASSUME Sound(block, lfree, used_mem, held, cut), NEW c \in Client, NEW h \in held[c], Release(h.at),
           held' = [held EXCEPT ![c] = @ \ {h}]
    PROVE  Sound(block', lfree', used_mem', held', cut')
<1>1. PICK b : b = block  OBVIOUS
<1>2. PICK p : p = h.at  OBVIOUS
<1>3. /\ Chained(b) /\ Merged(b) /\ LfreeOk(b, lfree) /\ CutOk(b, lfree, cut)
      /\ used_mem = Cardinality(UsedUnits(b)) /\ HeldOn(b, held)
  BY <1>1 DEF Sound
<1>4. p \in DOMAIN b /\ b[p].used /\ p \in Nat /\ lfree \in Nat
  BY <1>2, <1>3, HeapFacts DEF HeldOn, Chained, LfreeOk, Free
<1>5. PICK d : d = [b EXCEPT ![p].used = FALSE]  OBVIOUS
<1>6. IsMarked(b, d, p, FALSE)  BY <1>3, <1>4, <1>5, MarkedIs
<1>7. Chained(d) /\ p \in DOMAIN d /\ ~d[p].used /\ d[p].next = b[p].next /\ b[p].next \in Nat
  BY <1>3, <1>4, <1>6 DEF IsMarked, Chained, HeapBlock
<1>8. PICK l \in Nat : l = IF p < lfree THEN p ELSE lfree  BY <1>4
<1>9. PICK r : r = PlugHoles(d, l, p)  OBVIOUS
<1>10. /\ block' = r.block /\ lfree' = r.lfree
       /\ used_mem' = used_mem - (b[p].next - p)
       /\ cut' = cut \cap Free(r.block)
  BY <1>1, <1>2, <1>5, <1>8, <1>9 DEF Release
<1>11. \A x : x \in Free(d) <=> x \in Free(b) \/ x = p  BY <1>4, <1>6 DEF IsMarked, Free
<1>12. l \in Free(d) \/ l = HeapEnd  BY <1>3, <1>8, <1>11 DEF LfreeOk
<1>13. MergedBut(d, p)
  <2>1. ASSUME NEW x \in DOMAIN d, d[x].next \in DOMAIN d, x # p, d[x].next # p
        PROVE  d[x].used \/ d[d[x].next].used
    <3>1. x \in DOMAIN b /\ d[x].next = b[x].next /\ b[x].next \in DOMAIN b  BY <2>1, <1>6 DEF IsMarked
    <3>2. b[x].used \/ b[b[x].next].used  BY <3>1, <1>3 DEF Merged
    <3> QED  BY <3>1, <3>2, <2>1, <1>6 DEF IsMarked
  <2> QED  BY <2>1 DEF MergedBut
<1>14. Plugged(d, l, p, r.block, r.lfree)  BY <1>7, <1>9, <1>12, <1>13, PlugHolesIs
<1>15. PICK e : e = r.block  OBVIOUS
<1>16. PICK m : m = r.lfree  OBVIOUS
<1>17. /\ Chained(e) /\ Merged(e) /\ SameUsed(d, e) /\ LfreeOk(e, m) /\ m <= l /\ m \in Nat
  BY <1>14, <1>15, <1>16 DEF Plugged, LfreeOk
<1>18. CutOk(e, m, cut \cap Free(e))
  <2>1. SUFFICES ASSUME NEW x \in Free(e), x < m PROVE x \in cut
    BY DEF CutOk
  <2>2. x \in Free(d) /\ x \in Nat  BY <1>17 DEF SameUsed, Chained, Free
  <2>3. x < p /\ x < lfree  BY <2>1, <2>2, <1>4, <1>8, <1>17
  <2>4. x \in Free(b)  BY <2>2, <2>3, <1>4, <1>11
  <2> QED  BY <2>3, <2>4, <1>3 DEF CutOk
<1>19. used_mem' = Cardinality(UsedUnits(e))
  <2>1. IsMarked(d, b, p, TRUE)  BY <1>3, <1>4, <1>6 DEF IsMarked
  <2>2. Cardinality(UsedUnits(b)) = Cardinality(UsedUnits(d)) + (d[p].next - p)
    BY <2>1, <1>7, MarkedUnits
  <2>3. UsedUnits(e) = UsedUnits(d)  BY <1>17, SameUnits
  <2>4. Cardinality(UsedUnits(d)) \in Nat  BY <1>7, UnitsFinite, FS_CardinalityType
  <2> QED  BY <2>2, <2>3, <2>4, <1>3, <1>4, <1>7, <1>10
<1>20. OneMoreUsed(d, b, p)  BY <1>4, <1>6 DEF OneMoreUsed, IsMarked
<1>21. HeldOn(e, held')
  <2>1. HeldOn(d, held')  BY <1>2, <1>3, <1>20, HeldLess
  <2> QED  BY <2>1, <1>17, HeldSame
<1> QED  BY <1>10, <1>15, <1>16, <1>17, <1>18, <1>19, <1>21 DEF Sound

\* rt_realloc cuts the end off the block at h.at: a free block begins at q.
Resized(hs, c, h, s) == [hs EXCEPT ![c] = (@ \ {h}) \cup {[h EXCEPT !.size = s]}]

LEMMA ShrinkKeeps ==
    ASSUME NEW b, NEW l, NEW used, NEW hs, NEW k, Sound(b, l, used, hs, k),
           NEW c \in Client, NEW h \in hs[c], NEW s \in Nat, s > 0, s + Header + MinSize < Room(b, h.at),
           NEW q, q = h.at + Header + s, NEW e, NEW m,
           e = PlugHoles(Split(b, h.at, q), l, q).block, m = PlugHoles(Split(b, h.at, q), l, q).lfree,
           NEW gs, gs = Resized(hs, c, h, s), NEW j, j = (k \cup IF q < m THEN {q} ELSE {}) \cap Free(e)
    PROVE  Sound(e, m, used - (Room(b, h.at) - s), gs, j)
<1>1. PICK p : p = h.at  OBVIOUS
<1>2. /\ Chained(b) /\ Merged(b) /\ LfreeOk(b, l) /\ CutOk(b, l, k)
      /\ used = Cardinality(UsedUnits(b)) /\ HeldOn(b, hs)
  BY DEF Sound
<1>3. p \in DOMAIN b /\ b[p].used /\ p \in Nat /\ l \in Nat
  BY <1>1, <1>2, HeapFacts DEF HeldOn, Chained, LfreeOk, Free
<1>4. PICK n \in Nat : n = b[p].next  BY <1>2, <1>3 DEF Chained, HeapBlock
<1>5. Room(b, p) = n - p - Header  BY <1>4 DEF Room
<1>6. q \in Nat /\ q = p + Header + s /\ p + Header < q /\ q + Header < n /\ p < q /\ q < n
  BY <1>1, <1>3, <1>5, HeapFacts
<1>7. q \notin DOMAIN b /\ q # HeapEnd  BY <1>2, <1>3, <1>4, <1>6, HeapFacts DEF Chained
<1>8. PICK d : d = Split(b, p, q)  OBVIOUS
<1>9. IsSplit(b, d, p, q)  BY <1>2, <1>3, <1>6, <1>7, <1>8, SplitIs
<1>10. Chained(d)  BY <1>2, <1>3, <1>4, <1>6, <1>9, SplitChained
<1>11. q \in DOMAIN d /\ ~d[q].used /\ \A x : x \in Free(d) <=> x \in Free(b) \/ x = q
  BY <1>3, <1>9 DEF IsSplit, Free
<1>12. MergedBut(d, q)
  <2>1. SUFFICES ASSUME NEW x \in DOMAIN d, d[x].next \in DOMAIN d, x # q, d[x].next # q
                 PROVE  d[x].used \/ d[d[x].next].used
    BY DEF MergedBut
  <2>2. x # p /\ x \in DOMAIN b /\ d[x].next = b[x].next /\ d[x].used = b[x].used /\ b[x].next \in DOMAIN b
    BY <2>1, <1>9 DEF IsSplit
  <2>3. b[x].used \/ b[b[x].next].used  BY <2>2, <1>2 DEF Merged
  <2> QED  BY <2>2, <2>3, <1>9 DEF IsSplit
<1>13. l \in Free(d) \/ l = HeapEnd  BY <1>2, <1>11 DEF LfreeOk
<1>14. Plugged(d, l, q, e, m)
  <2>1. e = PlugHoles(d, l, q).block /\ m = PlugHoles(d, l, q).lfree  BY <1>1, <1>8
  <2> QED  BY <2>1, <1>10, <1>11, <1>12, <1>13, PlugHolesIs
<1>15. Chained(e) /\ Merged(e) /\ SameUsed(d, e) /\ LfreeOk(e, m) /\ m <= l /\ m \in Nat
  BY <1>14 DEF Plugged, LfreeOk
<1>16. CutOk(e, m, j)
  <2>1. SUFFICES ASSUME NEW x \in Free(e), x < m PROVE x \in j
    BY DEF CutOk
  <2>2. x \in Free(d) /\ x \in Nat  BY <1>15 DEF SameUsed, Chained, Free
  <2>3. CASE x = q  BY <2>1, <2>3
  <2>4. CASE x # q
    <3>1. x \in Free(b) /\ x < l  BY <2>1, <2>2, <2>4, <1>3, <1>11, <1>15
    <3> QED  BY <2>1, <3>1, <1>2 DEF CutOk
  <2> QED  BY <2>3, <2>4
<1>17. used - (Room(b, p) - s) = Cardinality(UsedUnits(e))
  <2>1. Cardinality(UsedUnits(b)) = Cardinality(UsedUnits(d)) + (n - q)
    BY <1>2, <1>3, <1>4, <1>6, <1>9, <1>10, SplitUnits
  <2>2. UsedUnits(e) = UsedUnits(d)  BY <1>15, SameUnits
  <2>3. Cardinality(UsedUnits(d)) \in Nat  BY <1>10, UnitsFinite, FS_CardinalityType
  <2> QED  BY <2>1, <2>2, <2>3, <1>2, <1>3, <1>5, <1>6, HeapFacts
<1>18. HeldOn(e, gs)
  <2>1. /\ \A x \in DOMAIN b : b[x].used => x \in DOMAIN d /\ d[x].used /\ (x # h.at => d[x].next = b[x].next)
        /\ \A x \in DOMAIN d : d[x].used => x \in DOMAIN b /\ b[x].used
    BY <1>1, <1>3, <1>9 DEF IsSplit
  <2>2. h.at + Header + s <= d[h.at].next  BY <1>1, <1>6, <1>9 DEF IsSplit
  <2>3. HeldOn(d, gs)  BY <2>1, <2>2, <1>2, HeldResized DEF Resized
  <2> QED  BY <2>3, <1>15, HeldSame
<1> QED  BY <1>1, <1>15, <1>16, <1>17, <1>18 DEF Sound

\* rt_realloc in progress: the old block is still the thread's.
ReOk(r, hs) ==
    /\ r = [c \in Client |-> r[c]]
    /\ \A c \in Client : \/ r[c].pc = "none"
                         \/ \E stage \in {"malloc", "free"}, h \in hs[c], s \in Requests :
                               r[c] = [pc |-> stage, old |-> h, size |-> s]

HeapInv ==
    /\ Sound(block, lfree, used_mem, held, cut)
    /\ ReOk(re, held) /\ RefusedOnlyWhenFull

LEMMA HeapInvInit ==
    ASSUME InitHeap
    PROVE  HeapInv
<1>1. PICK b : b = block  OBVIOUS
<1>2. b = [p \in {0} |-> [used |-> FALSE, next |-> HeapEnd, prev |-> 0]]  BY <1>1 DEF InitHeap
<1>3. DOMAIN b = {0} /\ b[0] = [used |-> FALSE, next |-> HeapEnd, prev |-> 0]  BY <1>2
<1>4. b[0].used = FALSE /\ b[0].next = HeapEnd /\ b[0].prev = 0 /\ b[0] \in HeapBlock
  BY <1>3, HeapFacts DEF HeapBlock
<1>5. b \in [DOMAIN b -> HeapBlock]  BY <1>2, <1>3, <1>4
<1>6. HeapEnd # 0 /\ 0 + Header < HeapEnd /\ 0 < HeapEnd  BY HeapFacts
<1>7. Chained(b)  BY <1>3, <1>4, <1>5, <1>6 DEF Chained
<1>8. Merged(b) /\ Free(b) = {0}  BY <1>3, <1>4, <1>6 DEF Merged, Free
<1>9. lfree = 0 /\ used_mem = 0 /\ held = [c \in Client |-> {}] /\ re = [c \in Client |-> NoRealloc]
      /\ cut = {} /\ missed = {}
  BY DEF InitHeap
<1>10. LfreeOk(b, lfree) /\ CutOk(b, lfree, cut)  BY <1>8, <1>9 DEF LfreeOk, CutOk
<1>11. Cardinality(UsedUnits(b)) = 0
  <2>1. UsedUnits(b) = {}  BY <1>3, <1>4, UnitsIs
  <2> QED  BY <2>1, FS_EmptySet
<1>12. HeldOn(b, held)  BY <1>3, <1>4, <1>9 DEF HeldOn
<1>13. ReOk(re, held)  BY <1>9 DEF ReOk, NoRealloc
<1> QED  BY <1>1, <1>7, <1>8, <1>9, <1>10, <1>11, <1>12, <1>13 DEF HeapInv, Sound, RefusedOnlyWhenFull

LEMMA RoundedIs ==
    ASSUME NEW size \in Requests
    PROVE  /\ size \in Nat /\ size > 0
           /\ Rounded(size) \in Nat /\ Rounded(size) >= MinSize /\ size <= Rounded(size)
BY HeapAssumption DEF Rounded

LEMMA FitsIs ==
    ASSUME Chained(block), NEW n, Fits(n) # {}
    PROVE  Min(Fits(n)) \in Fits(n)
<1>1. Fits(n) \in SUBSET Nat  BY DEF Fits, Free, Chained
<1> QED  BY <1>1, MinIsLeast

\* Nothing was refused that a free block could have held, but for the two kinds.
LEMMA RefuseIs ==
    ASSUME Sound(block, lfree, used_mem, held, cut), NEW n \in Nat, Fits(n) = {}, Refuse(n)
    PROVE  RefusedOnlyWhenFull'
<1>1. ASSUME NEW p \in Free(block), Room(block, p) >= n
      PROVE  p \in cut \/ (Room(block, p) = n /\ p + Header + Room(block, p) = HeapEnd)
  <2>1. PICK m \in Nat : m = block[p].next /\ m <= HeapEnd
    BY HeapFacts DEF Sound, Chained, HeapBlock, Free
  <2>2. p \in Nat /\ lfree \in Nat /\ Room(block, p) = m - p - Header
    BY <2>1, HeapFacts DEF Sound, Chained, Free, Room, LfreeOk
  <2>3. CASE p < lfree  BY <2>3 DEF Sound, CutOk
  <2>4. CASE p >= lfree
    <3>1. ~(p < HeapSize - n)  BY <2>4, <1>1 DEF Fits
    <3> QED  BY <3>1, <2>1, <2>2, <1>1, HeapFacts
  <2> QED  BY <2>2, <2>3, <2>4
<1>2. ASSUME NEW r \in missed' PROVE r.cut \/ (r.room = r.size /\ r.at + Header + r.room = HeapEnd)
  <2>1. PICK p \in Free(block) : /\ Room(block, p) >= n
                                 /\ r = [at |-> p, room |-> Room(block, p), size |-> n, cut |-> p \in cut]
    BY <1>2 DEF Refuse
  <2>2. r.at = p /\ r.room = Room(block, p) /\ r.size = n /\ (r.cut <=> p \in cut)  BY <2>1
  <2> QED  BY <2>1, <2>2, <1>1
<1> QED  BY <1>2 DEF RefusedOnlyWhenFull

ReSet(r, c, v) == [r EXCEPT ![c] = v]

\* Another's reallocation does not care.
LEMMA ReKept ==
    ASSUME NEW r, NEW hs, ReOk(r, hs), NEW gs, NEW c \in Client, NEW v, NEW w,
           w = ReSet(r, c, v), \A k \in Client : k # c => gs[k] = hs[k],
           \/ v.pc = "none"
           \/ \E stage \in {"malloc", "free"}, h \in gs[c], s \in Requests : v = [pc |-> stage, old |-> h, size |-> s]
    PROVE  ReOk(w, gs)
<1>1. w[c] = v /\ w = [k \in Client |-> w[k]] /\ \A k \in Client : k # c => w[k] = r[k]
  BY DEF ReOk, ReSet
<1>2. ASSUME NEW k \in Client
      PROVE  \/ w[k].pc = "none"
             \/ \E stage \in {"malloc", "free"}, h \in gs[k], s \in Requests :
                   w[k] = [pc |-> stage, old |-> h, size |-> s]
  <2>1. CASE k = c  BY <2>1, <1>1
  <2>2. CASE k # c  BY <2>2, <1>1 DEF ReOk
  <2> QED  BY <2>1, <2>2
<1> QED  BY <1>1, <1>2 DEF ReOk

LEMMA ReNone ==
    ASSUME NEW r, NEW hs, ReOk(r, hs), NEW gs, NEW c \in Client, r[c].pc = "none",
           \A k \in Client : k # c => gs[k] = hs[k]
    PROVE  ReOk(r, gs)
<1>1. ASSUME NEW k \in Client
      PROVE  \/ r[k].pc = "none"
             \/ \E stage \in {"malloc", "free"}, h \in gs[k], s \in Requests :
                   r[k] = [pc |-> stage, old |-> h, size |-> s]
  <2>1. CASE k = c  BY <2>1
  <2>2. CASE k # c  BY <2>2 DEF ReOk
  <2> QED  BY <2>1, <2>2
<1> QED  BY <1>1 DEF ReOk

\* What a client has after a call of its own; the others have what they had.
LEMMA HeldOthers ==
    ASSUME HeapInv, NEW c \in Client, NEW S, held' = [held EXCEPT ![c] = S]
    PROVE  held'[c] = S /\ \A k \in Client : k # c => held'[k] = held[k]
BY DEF HeapInv, Sound, HeldOn

LEMMA MallocStep ==
    ASSUME HeapInv, NEW c \in Client, NEW size \in Requests, Malloc(c, size)
    PROVE  HeapInv'
<1>1. PICK n : n = Rounded(size)  OBVIOUS
<1>2. size \in Nat /\ n \in Nat /\ n >= MinSize /\ size <= n  BY <1>1, RoundedIs
<1>3. Sound(block, lfree, used_mem, held, cut) /\ Chained(block)  BY DEF HeapInv, Sound
<1>4. re[c].pc = "none" /\ UNCHANGED re  BY DEF Malloc
<1>5. CASE Fits(n) # {}
  <2>1. PICK p : p = Min(Fits(n))  OBVIOUS
  <2>2. /\ Allocate(p, n) /\ missed' = {}
        /\ held' = [held EXCEPT ![c] = @ \cup {[at |-> p, size |-> size]}]
    BY <2>1, <1>1, <1>5 DEF Malloc
  <2>3. p \in Fits(n)  BY <2>1, <1>3, <1>5, FitsIs
  <2>4. Sound(block', lfree', used_mem', held', cut')  BY <2>2, <2>3, <1>2, <1>3, AllocateKeeps
  <2>5. \A k \in Client : k # c => held'[k] = held[k]  BY <2>2, HeldOthers
  <2>6. ReOk(re', held')  BY <2>5, <1>4, ReNone DEF HeapInv
  <2> QED  BY <2>2, <2>4, <2>6 DEF HeapInv, RefusedOnlyWhenFull
<1>6. CASE Fits(n) = {}
  <2>1. Refuse(n) /\ UNCHANGED held  BY <1>1, <1>6 DEF Malloc
  <2>2. RefusedOnlyWhenFull'  BY <2>1, <1>2, <1>3, <1>6, RefuseIs
  <2>3. UNCHANGED <<block, lfree, used_mem, cut>>  BY <2>1 DEF Refuse
  <2> QED  BY <2>1, <2>2, <2>3, <1>4 DEF HeapInv
<1> QED  BY <1>5, <1>6

LEMMA FreeBlockStep ==
    ASSUME HeapInv, NEW c \in Client, NEW h \in held[c], FreeBlock(c, h)
    PROVE  HeapInv'
<1>1. /\ re[c].pc = "none" /\ Release(h.at) /\ held' = [held EXCEPT ![c] = @ \ {h}]
      /\ missed' = {} /\ UNCHANGED re
  BY DEF FreeBlock
<1>2. Sound(block', lfree', used_mem', held', cut')  BY <1>1, ReleaseKeeps DEF HeapInv
<1>3. \A k \in Client : k # c => held'[k] = held[k]  BY <1>1, HeldOthers
<1>4. ReOk(re', held')
  <2>1. PICK hs : hs = held  OBVIOUS
  <2>2. PICK gs : gs = held'  OBVIOUS
  <2>3. ReOk(re, hs) /\ \A k \in Client : k # c => gs[k] = hs[k]  BY <2>1, <2>2, <1>3 DEF HeapInv
  <2>4. ReOk(re, gs)  BY <2>3, <1>1, ReNone
  <2> QED  BY <2>2, <2>4, <1>1
<1> QED  BY <1>1, <1>2, <1>4 DEF HeapInv, RefusedOnlyWhenFull

LEMMA ReallocStep ==
    ASSUME HeapInv, NEW c \in Client, NEW h \in held[c], NEW size \in Requests, Realloc(c, h, size)
    PROVE  HeapInv'
<1>1. PICK b : b = block  OBVIOUS
<1>2. PICK hs : hs = held  OBVIOUS
<1>3. PICK room : room = Room(b, h.at)  OBVIOUS
<1>4. PICK q : q = h.at + Header + size  OBVIOUS
<1>5. PICK e : e = PlugHoles(Split(b, h.at, q), lfree, q).block  OBVIOUS
<1>6. PICK m : m = PlugHoles(Split(b, h.at, q), lfree, q).lfree  OBVIOUS
<1>7. PICK gs : gs = Resized(hs, c, h, size)  OBVIOUS
<1>8. /\ re[c].pc = "none" /\ missed' = {}
      /\ \/ /\ size = room /\ held' = gs
            /\ UNCHANGED <<block, lfree, used_mem, re, cut>>
         \/ /\ size # room /\ size + Header + MinSize < room
            /\ block' = e /\ lfree' = m
            /\ used_mem' = used_mem - (room - size)
            /\ cut' = (cut \cup IF q < m THEN {q} ELSE {}) \cap Free(e)
            /\ held' = gs /\ UNCHANGED re
         \/ /\ re' = [re EXCEPT ![c] = [pc |-> "malloc", old |-> h, size |-> size]]
            /\ UNCHANGED <<block, lfree, used_mem, held, cut>>
  BY <1>1, <1>2, <1>3, <1>4, <1>5, <1>6, <1>7 DEF Realloc, Resized
<1>9. size \in Nat /\ size > 0  BY RoundedIs
<1>10. Sound(b, lfree, used_mem, hs, cut) /\ HeldOn(b, hs) /\ h \in hs[c]  BY <1>1, <1>2 DEF HeapInv, Sound
<1>11. \A k \in Client : k # c => gs[k] = held[k]  BY <1>2, <1>7, <1>10 DEF Resized, HeldOn
<1>12. RefusedOnlyWhenFull'  BY <1>8 DEF RefusedOnlyWhenFull
<1>13. CASE size = room /\ held' = gs /\ UNCHANGED <<block, lfree, used_mem, re, cut>>
  <2>1. h.at \in DOMAIN b /\ h.at \in Nat /\ b[h.at].next \in Nat
    BY <1>10 DEF Sound, HeldOn, Chained, HeapBlock
  <2>2. h.at + Header + size <= b[h.at].next  BY <2>1, <1>3, <1>9, <1>13, HeapFacts DEF Room
  <2>3. HeldOn(b, gs)  BY <2>2, <1>7, <1>9, <1>10, HeldResized DEF Resized
  <2>4. Sound(b, lfree, used_mem, gs, cut)  BY <2>3, <1>10 DEF Sound
  <2>5. ReOk(re, gs)  BY <1>8, <1>11, ReNone DEF HeapInv
  <2> QED  BY <2>4, <2>5, <1>1, <1>12, <1>13 DEF HeapInv
<1>14. CASE /\ size # room /\ size + Header + MinSize < room
            /\ block' = e /\ lfree' = m
            /\ used_mem' = used_mem - (room - size)
            /\ cut' = (cut \cup IF q < m THEN {q} ELSE {}) \cap Free(e)
            /\ held' = gs /\ UNCHANGED re
  <2>1. PICK j : j = (cut \cup IF q < m THEN {q} ELSE {}) \cap Free(e)  OBVIOUS
  <2>2. Sound(e, m, used_mem - (Room(b, h.at) - size), gs, j)
    BY <2>1, <1>3, <1>4, <1>5, <1>6, <1>7, <1>9, <1>10, <1>14, ShrinkKeeps
  <2>3. ReOk(re, gs)  BY <1>8, <1>11, ReNone DEF HeapInv
  <2> QED  BY <2>1, <2>2, <2>3, <1>3, <1>12, <1>14 DEF HeapInv
<1>15. CASE /\ re' = [re EXCEPT ![c] = [pc |-> "malloc", old |-> h, size |-> size]]
            /\ UNCHANGED <<block, lfree, used_mem, held, cut>>
  <2>1. PICK v : v = [pc |-> "malloc", old |-> h, size |-> size]  OBVIOUS
  <2>2. re' = ReSet(re, c, v)  BY <2>1, <1>15 DEF ReSet
  <2>3. \E stage \in {"malloc", "free"}, g \in held[c], s \in Requests : v = [pc |-> stage, old |-> g, size |-> s]
    BY <2>1
  <2>4. ReOk(re', held)  BY <2>2, <2>3, ReKept DEF HeapInv
  <2> QED  BY <2>4, <1>12, <1>15 DEF HeapInv
<1> QED  BY <1>8, <1>13, <1>14, <1>15

LEMMA ReallocMallocStep ==
    ASSUME HeapInv, NEW c \in Client, ReallocMalloc(c)
    PROVE  HeapInv'
<1>1. re[c].pc = "malloc"  BY DEF ReallocMalloc
<1>2. PICK h \in held[c], size \in Requests : re[c] = [pc |-> "malloc", old |-> h, size |-> size]
  <2>1. PICK stage \in {"malloc", "free"}, h \in held[c], size \in Requests :
           re[c] = [pc |-> stage, old |-> h, size |-> size]
    BY <1>1 DEF HeapInv, ReOk
  <2>2. stage = "malloc"  BY <2>1, <1>1
  <2> QED  BY <2>1, <2>2
<1>3. re[c].size = size  BY <1>2
<1>4. PICK n : n = Rounded(size)  OBVIOUS
<1>5. size \in Nat /\ n \in Nat /\ n >= MinSize /\ size <= n  BY <1>4, RoundedIs
<1>6. Sound(block, lfree, used_mem, held, cut) /\ Chained(block)  BY DEF HeapInv, Sound
<1>7. CASE Fits(n) # {}
  <2>1. PICK p : p = Min(Fits(n))  OBVIOUS
  <2>2. /\ Allocate(p, n) /\ missed' = {} /\ re' = [re EXCEPT ![c].pc = "free"]
        /\ held' = [held EXCEPT ![c] = @ \cup {[at |-> p, size |-> size]}]
    BY <2>1, <1>3, <1>4, <1>7 DEF ReallocMalloc
  <2>3. p \in Fits(n)  BY <2>1, <1>6, <1>7, FitsIs
  <2>4. Sound(block', lfree', used_mem', held', cut')  BY <2>2, <2>3, <1>5, <1>6, AllocateKeeps
  <2>5. PICK S : S = held[c] \cup {[at |-> p, size |-> size]}  OBVIOUS
  <2>6. held'[c] = S /\ \A k \in Client : k # c => held'[k] = held[k]  BY <2>2, <2>5, HeldOthers
  <2>7. PICK v : v = [pc |-> "free", old |-> h, size |-> size]  OBVIOUS
  <2>8. re' = [re EXCEPT ![c] = v]
    <3>1. [re[c] EXCEPT !.pc = "free"] = v  BY <2>7, <1>2
    <3> QED  BY <3>1, <2>2
  <2>9. h \in held'[c]  BY <2>5, <2>6
  <2>10. PICK gs : gs = held'  OBVIOUS
  <2>11. \E stage \in {"malloc", "free"}, g \in gs[c], s \in Requests : v = [pc |-> stage, old |-> g, size |-> s]
    BY <2>7, <2>9, <2>10
  <2>13. PICK w : w = re'  OBVIOUS
  <2>14. PICK hs : hs = held  OBVIOUS
  <2>15. ReOk(re, hs) /\ w = ReSet(re, c, v) /\ \A k \in Client : k # c => gs[k] = hs[k]
    BY <2>6, <2>8, <2>10, <2>13, <2>14 DEF HeapInv, ReSet
  <2>16. ReOk(w, gs)  BY <2>11, <2>15, ReKept
  <2>12. ReOk(re', gs)  BY <2>13, <2>16
  <2> QED  BY <2>2, <2>4, <2>10, <2>12 DEF HeapInv, RefusedOnlyWhenFull
<1>8. CASE Fits(n) = {}
  <2>1. Refuse(n) /\ UNCHANGED held /\ re' = [re EXCEPT ![c] = NoRealloc]
    BY <1>3, <1>4, <1>8 DEF ReallocMalloc
  <2>2. RefusedOnlyWhenFull'  BY <2>1, <1>5, <1>6, <1>8, RefuseIs
  <2>3. UNCHANGED <<block, lfree, used_mem, cut>>  BY <2>1 DEF Refuse
  <2>4. NoRealloc.pc = "none"  BY DEF NoRealloc
  <2>6. re' = ReSet(re, c, NoRealloc)  BY <2>1 DEF ReSet
  <2>5. ReOk(re', held)  BY <2>4, <2>6, ReKept DEF HeapInv
  <2> QED  BY <2>1, <2>2, <2>3, <2>5 DEF HeapInv
<1> QED  BY <1>7, <1>8

LEMMA ReallocFreeStep ==
    ASSUME HeapInv, NEW c \in Client, ReallocFree(c)
    PROVE  HeapInv'
<1>1. /\ re[c].pc = "free" /\ Release(re[c].old.at) /\ held' = [held EXCEPT ![c] = @ \ {re[c].old}]
      /\ re' = [re EXCEPT ![c] = NoRealloc] /\ missed' = {}
  BY DEF ReallocFree
<1>2. PICK h \in held[c] : re[c].old = h
  <2>1. PICK stage \in {"malloc", "free"}, h \in held[c], size \in Requests :
           re[c] = [pc |-> stage, old |-> h, size |-> size]
    BY <1>1 DEF HeapInv, ReOk
  <2> QED  BY <2>1
<1>3. Sound(block', lfree', used_mem', held', cut')  BY <1>1, <1>2, ReleaseKeeps DEF HeapInv
<1>4. \A k \in Client : k # c => held'[k] = held[k]  BY <1>1, HeldOthers
<1>5. NoRealloc.pc = "none"  BY DEF NoRealloc
<1>6. PICK gs : gs = held'  OBVIOUS
<1>8. PICK w : w = re'  OBVIOUS
<1>9. PICK hs : hs = held  OBVIOUS
<1>10. ReOk(re, hs) /\ w = ReSet(re, c, NoRealloc) /\ \A k \in Client : k # c => gs[k] = hs[k]
  BY <1>1, <1>4, <1>6, <1>8, <1>9 DEF HeapInv, ReSet
<1>11. ReOk(w, gs)  BY <1>5, <1>10, ReKept
<1>7. ReOk(re', gs)  BY <1>8, <1>11
<1> QED  BY <1>1, <1>3, <1>6, <1>7 DEF HeapInv, RefusedOnlyWhenFull

LEMMA HeapNextStep ==
    ASSUME HeapInv, NextHeap
    PROVE  HeapInv'
<1>1. PICK c \in Client : \/ \E size \in Requests : Malloc(c, size)
                          \/ \E h \in held[c] : FreeBlock(c, h)
                          \/ \E h \in held[c], size \in Requests : Realloc(c, h, size)
                          \/ ReallocMalloc(c)
                          \/ ReallocFree(c)
  BY DEF NextHeap
<1> QED  BY <1>1, MallocStep, FreeBlockStep, ReallocStep, ReallocMallocStep, ReallocFreeStep

LEMMA HeapInvStep ==
    ASSUME HeapInv, [Next]_vars
    PROVE  HeapInv'
<1>1. ASSUME UNCHANGED heapVars PROVE HeapInv'
  BY <1>1 DEF heapVars, HeapInv, RefusedOnlyWhenFull
<1>2. NextHeap \/ UNCHANGED heapVars  BY DEF Next, vars
<1> QED  BY <1>1, <1>2, HeapNextStep

LEMMA HeapInvIntact ==
    ASSUME HeapInv
    PROVE  HeapIntact
<1>1. /\ Chained(block) /\ Merged(block) /\ LfreeOk(block, lfree)
      /\ used_mem = Cardinality(UsedUnits(block)) /\ HeldOn(block, held)
  BY DEF HeapInv, Sound
<1>2. Tiled
  <2>1. 0 \in DOMAIN block /\ block[0].prev = 0  BY <1>1 DEF Chained
  <2>2. ASSUME NEW p \in DOMAIN block
        PROVE  LET n == block[p].next IN
               /\ n \in DOMAIN block \cup {HeapEnd} /\ p + Header < n
               /\ \A q \in DOMAIN block : q <= p \/ n <= q
               /\ n # HeapEnd => block[n].prev = p /\ (block[p].used \/ block[n].used)
    BY <1>1 DEF Chained, Merged
  <2> QED  BY <2>1, <2>2 DEF Tiled
<1>3. \A h : h \in Held <=> \E c \in Client : h \in held[c]  BY DEF Held
<1>4. {p \in DOMAIN block : block[p].used} = {h.at : h \in Held}
  <2>1. ASSUME NEW p \in DOMAIN block, block[p].used PROVE p \in {h.at : h \in Held}
    <3>1. PICK c \in Client : \E h \in held[c] : h.at = p  BY <2>1, <1>1 DEF HeldOn
    <3> QED  BY <3>1, <1>3
  <2>2. ASSUME NEW h \in Held PROVE h.at \in DOMAIN block /\ block[h.at].used
    BY <1>1, <1>3 DEF HeldOn
  <2> QED  BY <2>1, <2>2
<1>5. ASSUME NEW h \in Held PROVE Room(block, h.at) >= h.size
  <2>1. PICK c \in Client : h \in held[c]  BY <1>3
  <2>2. h.at \in DOMAIN block /\ h.at + Header + h.size <= block[h.at].next /\ h \in HeldRecord
    BY <2>1, <1>1 DEF HeldOn
  <2>3. h.at \in Nat /\ h.size \in Nat /\ block[h.at].next \in Nat
    BY <2>2, <1>1 DEF HeldRecord, Chained, HeapBlock
  <2> QED  BY <2>2, <2>3, HeapFacts DEF Room
<1>6. \A c, d \in Client : \A h \in held[c], g \in held[d] : h.at = g.at => c = d /\ h = g
  BY <1>1 DEF HeldOn
<1>7. lfree \in Free(block) \cup {HeapEnd}  BY <1>1 DEF LfreeOk
<1> QED  BY <1>1, <1>2, <1>4, <1>5, <1>6, <1>7 DEF HeapIntact

\* mem.c keeps the heap whole (HeapIntact), for every size of the heap, of its headers and of
\* requests and any number of threads: rt_malloc, rt_free and the three sections of
\* rt_realloc leave blocks that tile it, each used one with one thread, and count them right.
THEOREM HeapStaysIntact == Spec => []HeapIntact
<1>1. Init => HeapInv  BY HeapInvInit DEF Init
<1>2. HeapInv /\ [Next]_vars => HeapInv'  BY HeapInvStep
<1>3. HeapInv => HeapIntact  BY HeapInvIntact
<1> QED  BY <1>1, <1>2, <1>3, PTL DEF Spec

\* rt_malloc returns RT_NULL with a block large enough at hand only in the two cases that
\* RefusedOnlyWhenFull names, for every size of the heap and of requests.
THEOREM RefusalsHaveCause == Spec => []RefusedOnlyWhenFull
<1>1. Init => HeapInv  BY HeapInvInit DEF Init
<1>2. HeapInv /\ [Next]_vars => HeapInv'  BY HeapInvStep
<1>3. HeapInv => RefusedOnlyWhenFull  BY DEF HeapInv
<1> QED  BY <1>1, <1>2, <1>3, PTL DEF Spec
=============================================================================
