--------------------------- MODULE RingBufferProofs --------------------------
(***************************************************************************)
(* Theorems about RingBuffer for every buffer size, byte set and bound on  *)
(* the block length.                                                       *)
(***************************************************************************)
EXTENDS RingBuffer, SequenceTheorems, TLAPS

\* What a ring buffer record must satisfy between two calls.
WellFormed(r) ==
    /\ r \in RingBuffers
    /\ IF r.read_mirror = r.write_mirror
         THEN r.read_index <= r.write_index
         ELSE r.write_index <= r.read_index

\* The ranges of the fields of a well-formed buffer.
LEMMA Fields ==
    ASSUME NEW r, WellFormed(r)
    PROVE  /\ r \in RingBuffers /\ r.buffer \in [Offsets -> Byte]
           /\ r.read_index \in 0..Size-1 /\ r.write_index \in 0..Size-1
           /\ r.read_mirror \in {0, 1} /\ r.write_mirror \in {0, 1}
           /\ IF r.read_mirror = r.write_mirror
                THEN r.read_index <= r.write_index ELSE r.write_index <= r.read_index
  BY DEF WellFormed, RingBuffers, Offsets

\* rt_ringbuffer_data_len in closed form: with the mirrors telling the laps
\* apart, it is the distance from the read to the write index.
LEMMA DataLen ==
    ASSUME NEW r, WellFormed(r)
    PROVE  /\ rt_ringbuffer_data_len(r) \in 0..Size
           /\ rt_ringbuffer_data_len(r) =
                IF r.read_mirror = r.write_mirror
                  THEN r.write_index - r.read_index
                  ELSE Size - (r.read_index - r.write_index)
           /\ rt_ringbuffer_space_len(r) = Size - rt_ringbuffer_data_len(r)
           /\ rt_ringbuffer_space_len(r) \in 0..Size
  <1>1. /\ r.read_index \in 0..Size-1 /\ r.write_index \in 0..Size-1
        /\ r.read_mirror \in {0, 1} /\ r.write_mirror \in {0, 1}
    BY Fields
  <1>2. rt_ringbuffer_data_len(r) =
                IF r.read_mirror = r.write_mirror
                  THEN r.write_index - r.read_index
                  ELSE Size - (r.read_index - r.write_index)
    <2>1. CASE r.read_index # r.write_index
      <3>1. rt_ringbuffer_status(r) = "HALFFULL"
        BY <2>1 DEF rt_ringbuffer_status
      <3>2. QED
        BY <1>1, <2>1, <3>1, SizeAssumption DEF WellFormed, rt_ringbuffer_data_len
    <2>2. CASE r.read_index = r.write_index /\ r.read_mirror = r.write_mirror
      <3>1. rt_ringbuffer_status(r) = "EMPTY"
        BY <2>2 DEF rt_ringbuffer_status
      <3>2. QED
        BY <1>1, <2>2, <3>1, SizeAssumption DEF rt_ringbuffer_data_len
    <2>3. CASE r.read_index = r.write_index /\ r.read_mirror # r.write_mirror
      <3>1. rt_ringbuffer_status(r) = "FULL"
        BY <2>3 DEF rt_ringbuffer_status
      <3>2. QED
        BY <1>1, <2>3, <3>1, SizeAssumption DEF rt_ringbuffer_data_len
    <2>4. QED
      BY <2>1, <2>2, <2>3
  <1>3. QED
    BY <1>1, <1>2, SizeAssumption DEF WellFormed, rt_ringbuffer_space_len

\* A block copied in at the write index, no longer than the pool.
LEMMA CopyInFields ==
    ASSUME NEW r, WellFormed(r), NEW s \in Seq(Byte), NEW from \in Nat, from > 0,
           NEW n \in 0..Size, from + n - 1 <= Len(s)
    PROVE  LET w == CopyIn(r, s, from, n)
               tail == Size - r.write_index
           IN  /\ w \in RingBuffers
               /\ w.read_index = r.read_index
               /\ w.read_mirror = r.read_mirror
               /\ w.write_index = IF tail > n THEN r.write_index + n ELSE n - tail
               /\ w.write_mirror = IF tail > n THEN r.write_mirror
                                               ELSE 1 - r.write_mirror
  <1>1. /\ r.read_index \in 0..Size-1 /\ r.write_index \in 0..Size-1
        /\ r.read_mirror \in {0, 1} /\ r.write_mirror \in {0, 1}
        /\ r.buffer \in [Offsets -> Byte] /\ r \in RingBuffers
    BY Fields
  <1>2. ASSUME NEW b \in [Offsets -> Byte], NEW at \in 0..Size-1,
               NEW k \in 0..Size, at + k <= Size,
               NEW f \in Nat, f > 0, f + k - 1 <= Len(s)
        PROVE  memcpy(b, at, s, f, k) \in [Offsets -> Byte]
    BY <1>2, SizeAssumption DEF memcpy, Offsets
  <1> DEFINE tail == Size - r.write_index
  <1>a. tail \in 1..Size /\ r.write_index + tail = Size /\ Len(s) \in Nat
    BY <1>1, SizeAssumption
  <1> HIDE DEF tail
  <1>3. CASE tail > n
    <2>1. memcpy(r.buffer, r.write_index, s, from, n) \in [Offsets -> Byte]
      <3>1. r.write_index + n <= Size
        BY <1>1, <1>3, <1>a, SizeAssumption
      <3>2. QED
        BY <1>1, <1>2, <3>1, SizeAssumption
    <2>2. CopyIn(r, s, from, n) =
            [r EXCEPT !.buffer = memcpy(r.buffer, r.write_index, s, from, n),
                      !.write_index = r.write_index + n]
      BY <1>3 DEF CopyIn, tail
    <2>3. r.write_index + n \in Offsets
      BY <1>1, <1>3, <1>a, SizeAssumption, SMTT(30) DEF Offsets
    <2>4. QED
      BY <1>1, <1>3, <2>1, <2>2, <2>3 DEF RingBuffers, tail
  <1>4. CASE ~(tail > n)
    <2>1. memcpy(r.buffer, r.write_index, s, from, tail) \in [Offsets -> Byte]
      <3>1. r.write_index + tail <= Size /\ tail \in 0..Size
            /\ from + tail - 1 <= Len(s)
        BY <1>1, <1>4, <1>a, SizeAssumption
      <3>2. QED
        BY <1>1, <1>2, <3>1
    <2>2. memcpy(memcpy(r.buffer, r.write_index, s, from, tail), 0, s, from + tail, n - tail)
             \in [Offsets -> Byte]
      <3>1. 0 \in 0..Size-1 /\ n - tail \in 0..Size /\ 0 + (n - tail) <= Size
            /\ from + tail \in Nat /\ from + tail > 0
            /\ from + tail + (n - tail) - 1 <= Len(s)
        BY <1>4, <1>a, SizeAssumption
      <3>2. QED
        BY <1>2, <2>1, <3>1
    <2>3. CopyIn(r, s, from, n) =
            [r EXCEPT !.buffer = memcpy(memcpy(r.buffer, r.write_index, s, from, tail),
                                        0, s, from + tail, n - tail),
                      !.write_mirror = 1 - r.write_mirror,
                      !.write_index = n - tail]
      BY <1>4 DEF CopyIn, Flip, tail
    <2>4. n - tail \in Offsets /\ 1 - r.write_mirror \in {0, 1}
      BY <1>1, <1>4, <1>a, SizeAssumption DEF Offsets
    <2>5. QED
      BY <1>1, <1>4, <2>2, <2>3, <2>4 DEF RingBuffers, tail
  <1>5. QED
    BY <1>3, <1>4

LEMMA PutWellFormed ==
    ASSUME NEW r, WellFormed(r), NEW s \in Seq(Byte)
    PROVE  WellFormed(rt_ringbuffer_put(r, s))
  <1> DEFINE size == rt_ringbuffer_space_len(r)
             n    == MinOf(size, Len(s))
  <1>1. CASE size = 0
    BY <1>1 DEF rt_ringbuffer_put
  <1>2. CASE size # 0
    <2>1. n \in 0..Size /\ n <= Len(s) /\ n <= size
      BY DataLen, SizeAssumption DEF MinOf
    <2>2. rt_ringbuffer_put(r, s) = CopyIn(r, s, 1, n)
      BY <1>2 DEF rt_ringbuffer_put
    <2> HIDE DEF n
    <2>3. Len(s) \in Nat /\ 1 + n - 1 <= Len(s)
      BY <2>1, SizeAssumption
    <2> DEFINE w == CopyIn(r, s, 1, n)
               tail == Size - r.write_index
    <2>4. /\ w \in RingBuffers
          /\ w.read_index = r.read_index
          /\ w.read_mirror = r.read_mirror
          /\ w.write_index = IF tail > n THEN r.write_index + n ELSE n - tail
          /\ w.write_mirror = IF tail > n THEN r.write_mirror ELSE 1 - r.write_mirror
      BY <2>1, <2>3, CopyInFields
    <2> HIDE DEF w
    <2>5. IF w.read_mirror = w.write_mirror
            THEN w.read_index <= w.write_index ELSE w.write_index <= w.read_index
      <3>2. size = IF r.read_mirror = r.write_mirror
                     THEN Size - (r.write_index - r.read_index)
                     ELSE r.read_index - r.write_index
        BY Fields, DataLen, SizeAssumption
      <3> HIDE DEF size
      <3>3. CASE r.read_mirror = r.write_mirror
        BY <2>1, <2>4, Fields, <3>2, <3>3, SizeAssumption, SMTT(30)
      <3>4. CASE r.read_mirror # r.write_mirror
        BY <2>1, <2>4, Fields, <3>2, <3>4, SizeAssumption
      <3>5. QED
        BY <3>3, <3>4
    <2>6. QED
      BY <2>2, <2>4, <2>5 DEF w, WellFormed
  <1>3. QED
    BY <1>1, <1>2

\* Whatever the block, put_force keeps the indexes in range and the mirrors right:
\* dragging the read index to the write index leaves the buffer empty or full.
LEMMA PutForceWellFormed ==
    ASSUME NEW r, WellFormed(r), NEW s \in Seq(Byte)
    PROVE  WellFormed(rt_ringbuffer_put_force(r, s))
  <1> DEFINE len   == MinOf(Size, Len(s))
             space == rt_ringbuffer_space_len(r)
             from  == Len(s) - len + 1
             tail  == Size - r.write_index
             w     == CopyIn(r, s, from, len)
             f     == rt_ringbuffer_put_force(r, s)
  <1>1. /\ len \in 0..Size /\ from \in Nat /\ from > 0 /\ from + len - 1 <= Len(s)
        /\ Len(s) \in Nat
    <2>1. Len(s) \in Nat
      OBVIOUS
    <2>2. len = IF Size < Len(s) THEN Size ELSE Len(s)
      BY DEF MinOf
    <2> HIDE DEF len
    <2>3. len \in 0..Size /\ len <= Len(s)
      BY <2>1, <2>2, SizeAssumption
    <2>4. QED
      BY <2>1, <2>3, SizeAssumption
  <1>2. f = [w EXCEPT
               !.read_index  = IF len > space THEN w.write_index ELSE w.read_index,
               !.read_mirror = IF len > space /\ ~(tail > len) THEN 1 - w.read_mirror
                                                                ELSE w.read_mirror]
    BY DEF rt_ringbuffer_put_force, Flip
  <1> HIDE DEF len, from, f
  <1>3. /\ w \in RingBuffers
        /\ w.read_index = r.read_index
        /\ w.read_mirror = r.read_mirror
        /\ w.write_index = IF tail > len THEN r.write_index + len ELSE len - tail
        /\ w.write_mirror = IF tail > len THEN r.write_mirror ELSE 1 - r.write_mirror
    BY <1>1, CopyInFields
  <1> HIDE DEF w
  <1>4. w.write_index \in 0..Size-1 /\ w.read_index \in 0..Size-1
        /\ w.read_mirror \in {0, 1} /\ w.write_mirror \in {0, 1}
    BY <1>3 DEF RingBuffers, Offsets
  <1> DEFINE ri == IF len > space THEN w.write_index ELSE w.read_index
             rm == IF len > space /\ ~(tail > len) THEN 1 - w.read_mirror
                                                    ELSE w.read_mirror
  <1>5. /\ f.read_index = ri /\ f.read_mirror = rm
        /\ f.write_index = w.write_index /\ f.write_mirror = w.write_mirror
        /\ f \in RingBuffers
    <2>1. ri \in Offsets /\ rm \in {0, 1}
      BY <1>4 DEF Offsets
    <2> HIDE DEF ri, rm
    <2>2. f = [w EXCEPT !.read_index = ri, !.read_mirror = rm]
      BY <1>2 DEF ri, rm
    <2>3. QED
      BY <1>3, <2>1, <2>2 DEF RingBuffers
  <1>6. space = IF r.read_mirror = r.write_mirror
                  THEN Size - (r.write_index - r.read_index)
                  ELSE r.read_index - r.write_index
    BY Fields, DataLen, SizeAssumption
  <1> HIDE DEF space
  <1>7. IF f.read_mirror = f.write_mirror
          THEN f.read_index <= f.write_index ELSE f.write_index <= f.read_index
    <2>1. CASE len > space
      BY <1>4, <1>5, <2>1
    <2>2. CASE ~(len > space) /\ r.read_mirror = r.write_mirror
      <3>1. /\ len \in Nat /\ r.write_index \in 0..Size-1 /\ r.read_index \in 0..Size-1
            /\ r.read_mirror \in {0, 1} /\ r.write_mirror \in {0, 1} /\ len <= space
        BY <1>1, <1>6, <2>2, Fields, SizeAssumption
      <3>2. f.read_index = r.read_index /\ f.read_mirror = r.read_mirror
        BY <1>3, <1>5, <2>2 DEF ri, rm
      <3>3. CASE tail > len
        <4>1. f.write_index = r.write_index + len /\ f.write_mirror = r.write_mirror
          BY <1>3, <1>5, <3>3
        <4>2. QED
          BY <1>4, <1>5, <1>6, <2>2, <3>1, <3>2, <3>3, <4>1, Fields, SizeAssumption
      <3>4. CASE ~(tail > len)
        <4>1. f.write_index = len - tail /\ f.write_mirror = 1 - r.write_mirror
          BY <1>3, <1>5, <3>4
        <4>2. QED
          BY <1>4, <1>5, <1>6, <2>2, <3>1, <3>2, <3>4, <4>1, Fields, SizeAssumption
      <3>5. QED
        BY <3>3, <3>4
    <2>3. CASE ~(len > space) /\ r.read_mirror # r.write_mirror
      <3>1. /\ len \in Nat /\ r.write_index \in 0..Size-1 /\ r.read_index \in 0..Size-1
            /\ r.read_mirror \in {0, 1} /\ r.write_mirror \in {0, 1} /\ len <= space
        BY <1>1, <1>6, <2>3, Fields, SizeAssumption
      <3>2. f.read_index = r.read_index /\ f.read_mirror = r.read_mirror
        BY <1>3, <1>5, <2>3 DEF ri, rm
      <3>3. CASE tail > len
        <4>1. f.write_index = r.write_index + len /\ f.write_mirror = r.write_mirror
          BY <1>3, <1>5, <3>3
        <4>2. QED
          BY <1>4, <1>5, <1>6, <2>3, <3>1, <3>2, <3>3, <4>1, Fields, SizeAssumption
      <3>4. CASE ~(tail > len)
        <4>1. f.write_index = len - tail /\ f.write_mirror = 1 - r.write_mirror
          BY <1>3, <1>5, <3>4
        <4>2. QED
          BY <1>4, <1>5, <1>6, <2>3, <3>1, <3>2, <3>4, <4>1, Fields, SizeAssumption
      <3>5. QED
        BY <3>3, <3>4
    <2>4. QED
      BY <2>1, <2>2, <2>3
  <1>8. QED
    BY <1>5, <1>7 DEF WellFormed, f

\* The fields a get of at most len bytes leaves.
LEMMA GetFields ==
    ASSUME NEW r, WellFormed(r), NEW len \in Nat
    PROVE  LET n    == MinOf(rt_ringbuffer_data_len(r), len)
               tail == Size - r.read_index
               g    == rt_ringbuffer_get(r, len)
           IN  /\ n \in 0..Size
               /\ WellFormed(g)
               /\ g.buffer = r.buffer
               /\ g.write_index = r.write_index /\ g.write_mirror = r.write_mirror
               /\ g.read_index = IF tail > n THEN r.read_index + n ELSE n - tail
               /\ g.read_mirror = IF tail > n THEN r.read_mirror ELSE 1 - r.read_mirror
  <1> DEFINE size == rt_ringbuffer_data_len(r)
             n    == MinOf(size, len)
             tail == Size - r.read_index
             g    == rt_ringbuffer_get(r, len)
  <1>1. n \in 0..Size /\ n <= size
    BY DataLen, SizeAssumption DEF MinOf
  <1>2. size = 0 => tail > n
    BY <1>1, Fields, SizeAssumption
  <1>3. g = IF tail > n
              THEN [r EXCEPT !.read_index = r.read_index + n]
              ELSE [r EXCEPT !.read_mirror = 1 - r.read_mirror, !.read_index = n - tail]
    <2>1. CASE size # 0
      BY <2>1 DEF rt_ringbuffer_get, Flip
    <2>2. CASE size = 0
      <3>1. g = r /\ tail > n /\ n = 0
        BY <1>1, <1>2, <2>2, SizeAssumption DEF rt_ringbuffer_get
      <3>2. r = [r EXCEPT !.read_index = r.read_index + n]
        BY <3>1, Fields, SizeAssumption DEF RingBuffers
      <3>3. QED
        BY <3>1, <3>2
    <2>3. QED
      BY <2>1, <2>2
  <1>4. size = IF r.read_mirror = r.write_mirror
                 THEN r.write_index - r.read_index
                 ELSE Size - (r.read_index - r.write_index)
    BY DataLen
  <1> HIDE DEF g, n, size
  <1>5. (tail > n => r.read_index + n \in Offsets) /\ (~(tail > n) => n - tail \in Offsets)
    BY <1>1, Fields, SizeAssumption DEF Offsets
  <1>6. /\ g.buffer = r.buffer
        /\ g.write_index = r.write_index /\ g.write_mirror = r.write_mirror
        /\ g.read_index = IF tail > n THEN r.read_index + n ELSE n - tail
        /\ g.read_mirror = IF tail > n THEN r.read_mirror ELSE 1 - r.read_mirror
        /\ g \in RingBuffers
    <2>1. CASE tail > n
      BY <1>3, <1>5, <2>1, Fields DEF RingBuffers
    <2>2. CASE ~(tail > n)
      <3> DEFINE ri == n - tail
                 rm == 1 - r.read_mirror
      <3>1. ri \in Offsets /\ rm \in {0, 1}
        BY <1>5, <2>2, Fields
      <3>2. g = [r EXCEPT !.read_mirror = rm, !.read_index = ri]
        BY <1>3, <2>2
      <3> HIDE DEF ri, rm
      <3>3. /\ g.buffer = r.buffer
            /\ g.write_index = r.write_index /\ g.write_mirror = r.write_mirror
            /\ g.read_index = ri /\ g.read_mirror = rm
            /\ g \in RingBuffers
        <4>1. r \in RingBuffers
          BY Fields
        <4>2. QED
          BY <3>1, <3>2, <4>1 DEF RingBuffers
      <3>4. QED
        BY <2>2, <3>3 DEF ri, rm
    <2>3. QED
      BY <2>1, <2>2
  <1>7. IF g.read_mirror = g.write_mirror
          THEN g.read_index <= g.write_index ELSE g.write_index <= g.read_index
    <2>1. CASE r.read_mirror = r.write_mirror
      BY <1>1, <1>4, <1>6, <2>1, Fields, SizeAssumption
    <2>2. CASE r.read_mirror # r.write_mirror
      BY <1>1, <1>4, <1>6, <2>2, Fields, SizeAssumption
    <2>3. QED
      BY <2>1, <2>2
  <1>8. QED
    BY <1>1, <1>6, <1>7 DEF WellFormed, g, n, size

\* The fields a stored byte leaves.
LEMMA StoreCharFields ==
    ASSUME NEW r, WellFormed(r), NEW ch \in Byte
    PROVE  LET w == StoreChar(r, ch) IN
           /\ w \in RingBuffers
           /\ w.read_index = r.read_index /\ w.read_mirror = r.read_mirror
           /\ w.buffer = [r.buffer EXCEPT ![r.write_index] = ch]
           /\ w.write_index = IF r.write_index = Size - 1 THEN 0 ELSE r.write_index + 1
           /\ w.write_mirror = IF r.write_index = Size - 1 THEN 1 - r.write_mirror
                                                           ELSE r.write_mirror
  <1> DEFINE b  == [r.buffer EXCEPT ![r.write_index] = ch]
             wi == r.write_index + 1
             wm == 1 - r.write_mirror
  <1>1. b \in [Offsets -> Byte] /\ wm \in {0, 1}
    BY Fields DEF Offsets
  <1>2. CASE r.write_index = Size - 1
    <2>1. StoreChar(r, ch) = [r EXCEPT !.buffer = b, !.write_mirror = wm, !.write_index = 0]
      BY <1>2, Fields DEF StoreChar, Flip, RingBuffers
    <2>2. 0 \in Offsets
      BY SizeAssumption DEF Offsets
    <2> HIDE DEF b, wm
    <2>3. QED
      BY <1>1, <1>2, <2>1, <2>2, Fields DEF RingBuffers, b, wm
  <1>3. CASE r.write_index # Size - 1
    <2>1. StoreChar(r, ch) = [r EXCEPT !.buffer = b, !.write_index = wi]
      BY <1>3, Fields DEF StoreChar, RingBuffers
    <2>2. wi \in Offsets
      BY <1>3, Fields, SizeAssumption DEF Offsets
    <2> HIDE DEF b, wi
    <2>3. QED
      BY <1>1, <1>3, <2>1, <2>2, Fields DEF RingBuffers, b, wi
  <1>4. QED
    BY <1>2, <1>3

LEMMA PutCharWellFormed ==
    ASSUME NEW r, WellFormed(r), NEW ch \in Byte
    PROVE  WellFormed(rt_ringbuffer_putchar(r, ch))
  <1> DEFINE w == StoreChar(r, ch)
  <1>1. CASE rt_ringbuffer_space_len(r) = 0
    BY <1>1 DEF rt_ringbuffer_putchar
  <1>2. CASE rt_ringbuffer_space_len(r) # 0
    <2>1. rt_ringbuffer_putchar(r, ch) = w
      BY <1>2 DEF rt_ringbuffer_putchar
    <2>2. r.read_mirror # r.write_mirror => r.write_index < r.read_index
      BY <1>2, DataLen, Fields, SizeAssumption
    <2>3. /\ w \in RingBuffers
          /\ w.read_index = r.read_index /\ w.read_mirror = r.read_mirror
          /\ w.write_index = IF r.write_index = Size - 1 THEN 0 ELSE r.write_index + 1
          /\ w.write_mirror = IF r.write_index = Size - 1 THEN 1 - r.write_mirror
                                                          ELSE r.write_mirror
      BY StoreCharFields
    <2> HIDE DEF w
    <2>4. IF w.read_mirror = w.write_mirror
            THEN w.read_index <= w.write_index ELSE w.write_index <= w.read_index
      BY <2>2, <2>3, Fields, SizeAssumption
    <2>5. QED
      BY <2>1, <2>3, <2>4 DEF WellFormed
  <1>3. QED
    BY <1>1, <1>2

LEMMA PutCharForceWellFormed ==
    ASSUME NEW r, WellFormed(r), NEW ch \in Byte
    PROVE  WellFormed(rt_ringbuffer_putchar_force(r, ch))
  <1> DEFINE w == StoreChar(r, ch)
             f == rt_ringbuffer_putchar_force(r, ch)
             rm == 1 - w.read_mirror
  <1>1. /\ w \in RingBuffers
        /\ w.read_index = r.read_index /\ w.read_mirror = r.read_mirror
        /\ w.write_index = IF r.write_index = Size - 1 THEN 0 ELSE r.write_index + 1
        /\ w.write_mirror = IF r.write_index = Size - 1 THEN 1 - r.write_mirror
                                                        ELSE r.write_mirror
    BY StoreCharFields
  <1>2. w.write_index \in Offsets /\ w.read_mirror \in {0, 1} /\ w.write_mirror \in {0, 1}
        /\ rm \in {0, 1} /\ w.write_index <= w.write_index
    BY <1>1 DEF RingBuffers, Offsets
  <1>3. CASE rt_ringbuffer_status(r) # "FULL"
    <2>1. f = w
      BY <1>3 DEF rt_ringbuffer_putchar_force
    <2>2. r.read_mirror # r.write_mirror => r.write_index < r.read_index
      BY <1>3, Fields, SizeAssumption DEF rt_ringbuffer_status
    <2> HIDE DEF w
    <2>3. IF w.read_mirror = w.write_mirror
            THEN w.read_index <= w.write_index ELSE w.write_index <= w.read_index
      BY <1>1, <2>2, Fields, SizeAssumption
    <2>4. QED
      BY <1>1, <2>1, <2>3 DEF WellFormed
  <1>4. CASE rt_ringbuffer_status(r) = "FULL"
    <2>1. CASE r.write_index = Size - 1
      <3>1. f = [w EXCEPT !.read_mirror = rm, !.read_index = w.write_index]
        BY <1>4, <2>1 DEF rt_ringbuffer_putchar_force, Flip
      <3> HIDE DEF w, f, rm
      <3>2. f \in RingBuffers /\ f.read_index = w.write_index /\ f.write_index = w.write_index
        BY <1>1, <1>2, <3>1 DEF RingBuffers
      <3>3. QED
        BY <1>2, <3>2 DEF WellFormed, f
    <2>2. CASE r.write_index # Size - 1
      <3>1. f = [w EXCEPT !.read_index = w.write_index]
        BY <1>4, <2>2 DEF rt_ringbuffer_putchar_force
      <3> HIDE DEF w, f
      <3>2. f \in RingBuffers /\ f.read_index = w.write_index /\ f.write_index = w.write_index
        BY <1>1, <1>2, <3>1 DEF RingBuffers
      <3>3. QED
        BY <1>2, <3>2 DEF WellFormed, f
    <2>3. QED
      BY <2>1, <2>2
  <1>5. QED
    BY <1>3, <1>4

\* rt_ringbuffer_getchar is a get of one byte.
LEMMA GetCharIsGet ==
    ASSUME NEW r, WellFormed(r)
    PROVE  rt_ringbuffer_getchar(r) = rt_ringbuffer_get(r, 1)
  <1> DEFINE size == rt_ringbuffer_data_len(r)
  <1>1. CASE size = 0
    BY <1>1 DEF rt_ringbuffer_getchar, rt_ringbuffer_get
  <1>2. CASE size # 0
    <2>1. MinOf(size, 1) = 1 /\ size \in 1..Size
      BY <1>2, DataLen, SizeAssumption DEF MinOf
    <2>2. CASE r.read_index = Size - 1
      <3>1. ~(Size - r.read_index > 1) /\ 1 - (Size - r.read_index) = 0
        BY <2>2, SizeAssumption
      <3>2. QED
        BY <1>2, <2>1, <2>2, <3>1 DEF rt_ringbuffer_getchar, rt_ringbuffer_get
    <2>3. CASE r.read_index # Size - 1
      <3>1. Size - r.read_index > 1
        BY <2>3, Fields, SizeAssumption
      <3>2. QED
        BY <1>2, <2>1, <2>3, <3>1 DEF rt_ringbuffer_getchar, rt_ringbuffer_get
    <2>4. QED
      BY <2>2, <2>3
  <1>3. QED
    BY <1>1, <1>2

LEMMA ResetWellFormed ==
    ASSUME NEW r, WellFormed(r)
    PROVE  WellFormed(rt_ringbuffer_reset(r))
  <1>1. 0 \in Offsets
    BY SizeAssumption DEF Offsets
  <1>2. r \in RingBuffers
    BY Fields
  <1> DEFINE z == rt_ringbuffer_reset(r)
  <1>3. z \in RingBuffers /\ z.read_index = 0 /\ z.write_index = 0
    BY <1>1, <1>2 DEF rt_ringbuffer_reset, RingBuffers
  <1>4. QED
    BY <1>3 DEF WellFormed

\* What a get of n bytes hands its caller: the n oldest bytes.
LEMMA CopyOutBytes ==
    ASSUME NEW r, WellFormed(r), NEW n \in 0..Size
    PROVE  /\ CopyOut(r, n) \in Seq(Byte)
           /\ Len(CopyOut(r, n)) = n
           /\ \A i \in 1..n : CopyOut(r, n)[i] = r.buffer[Wrapped(r, i - 1)]
  <1> DEFINE tail == Size - r.read_index
             c    == CopyOut(r, n)
  <1>1. ASSUME NEW i \in 1..n
        PROVE  Wrapped(r, i - 1) \in Offsets
    BY Fields, SizeAssumption DEF Wrapped, Offsets
  <1>2. ASSUME NEW i \in 1..n
        PROVE  r.buffer[Wrapped(r, i - 1)] \in Byte
    BY <1>1, Fields
  <1>3. c = [i \in 1..n |-> r.buffer[Wrapped(r, i - 1)]]
    <2>1. CASE tail > n
      <3>1. ASSUME NEW i \in 1..n
            PROVE  Wrapped(r, i - 1) = r.read_index + i - 1
        BY <2>1, Fields, SizeAssumption DEF Wrapped
      <3>2. QED
        BY <2>1, <3>1 DEF CopyOut
    <2>2. CASE ~(tail > n)
      <3>1. ASSUME NEW i \in 1..n
            PROVE  Wrapped(r, i - 1) = IF i <= tail THEN r.read_index + i - 1
                                                    ELSE i - 1 - tail
        BY Fields, SizeAssumption DEF Wrapped
      <3>2. QED
        BY <2>2, <3>1 DEF CopyOut
    <2>3. QED
      BY <2>1, <2>2
  <1> HIDE DEF c
  <1>4. n \in Nat
    BY SizeAssumption
  <1>5. c \in Seq(Byte) /\ Len(c) = n
    BY <1>2, <1>3, <1>4
  <1>6. QED
    BY <1>3, <1>5 DEF c

-----------------------------------------------------------------------------
(* The type invariant and the mirror invariant.                            *)

LEMMA BlocksAreSeqs == Blocks \subseteq Seq(Byte)
  BY MaxLenAssumption DEF Blocks

LEMMA InitInv == Init => TypeOK /\ MirrorInv
  <1> SUFFICES ASSUME Init PROVE TypeOK /\ MirrorInv
    OBVIOUS
  <1>1. 0 \in Offsets
    BY SizeAssumption DEF Offsets
  <1>2. rb \in RingBuffers /\ rb.read_index = 0 /\ rb.write_index = 0
    BY <1>1 DEF Init, RingBuffers
  <1>3. ret \in Answers
    BY DEF Init, Answer, Answers
  <1>4. QED
    BY <1>2, <1>3 DEF TypeOK, MirrorInv

LEMMA NextInv == TypeOK /\ MirrorInv /\ [Next]_vars => TypeOK' /\ MirrorInv'
  <1> SUFFICES ASSUME TypeOK, MirrorInv, [Next]_vars
               PROVE  TypeOK' /\ MirrorInv'
    OBVIOUS
  <1>1. WellFormed(rb)
    BY DEF TypeOK, MirrorInv, WellFormed
  <1>2. SUFFICES WellFormed(rb') /\ ret' \in Answers
    BY DEF TypeOK, MirrorInv, WellFormed
  <1>3. /\ rt_ringbuffer_space_len(rb) \in 0..Size
        /\ rt_ringbuffer_data_len(rb) \in 0..Size
        /\ <<>> \in Seq(Byte)
    BY <1>1, DataLen
  <1>4. ASSUME NEW s \in Blocks, Put(s)
        PROVE  WellFormed(rb') /\ ret' \in Answers
    <2>1. s \in Seq(Byte) /\ Len(s) \in Nat
      BY BlocksAreSeqs
    <2>2. MinOf(rt_ringbuffer_space_len(rb), Len(s)) \in Nat
      BY <1>3, <2>1, SizeAssumption DEF MinOf
    <2>3. QED
      BY <1>1, <1>3, <1>4, <2>1, <2>2, PutWellFormed DEF Put, Answer, Answers
  <1>5. ASSUME NEW s \in Blocks, PutForce(s)
        PROVE  WellFormed(rb') /\ ret' \in Answers
    <2>1. s \in Seq(Byte) /\ Len(s) \in Nat
      BY BlocksAreSeqs
    <2>2. MinOf(Size, Len(s)) \in Nat
      BY <2>1, SizeAssumption DEF MinOf
    <2>3. QED
      BY <1>1, <1>3, <1>5, <2>1, <2>2, PutForceWellFormed DEF PutForce, Answer, Answers
  <1>6. ASSUME NEW len \in 0..MaxLen, Get(len)
        PROVE  WellFormed(rb') /\ ret' \in Answers
    <2> DEFINE k == MinOf(rt_ringbuffer_data_len(rb), len)
    <2>1. len \in Nat
      BY MaxLenAssumption
    <2>2. k \in 0..Size /\ WellFormed(rb')
      BY <1>1, <1>6, <2>1, GetFields DEF Get
    <2>3. ret' = Answer("get", k, CopyOut(rb, k))
      BY <1>6 DEF Get
    <2> HIDE DEF k
    <2>4. CopyOut(rb, k) \in Seq(Byte) /\ k \in Nat
      BY <1>1, <2>2, CopyOutBytes, SizeAssumption
    <2>5. QED
      BY <2>2, <2>3, <2>4 DEF Answer, Answers
  <1>7. ASSUME NEW ch \in Byte, PutChar(ch)
        PROVE  WellFormed(rb') /\ ret' \in Answers
    BY <1>1, <1>3, <1>7, PutCharWellFormed DEF PutChar, Answer, Answers
  <1>8. ASSUME NEW ch \in Byte, PutCharForce(ch)
        PROVE  WellFormed(rb') /\ ret' \in Answers
    BY <1>1, <1>3, <1>8, PutCharForceWellFormed DEF PutCharForce, Answer, Answers
  <1>9. ASSUME GetChar
        PROVE  WellFormed(rb') /\ ret' \in Answers
    <2>1. WellFormed(rb')
      <3>1. WellFormed(rt_ringbuffer_get(rb, 1))
        BY <1>1, GetFields, 1 \in Nat
      <3>2. QED
        BY <1>1, <1>9, <3>1, GetCharIsGet DEF GetChar
    <2>2. <<rb.buffer[rb.read_index]>> \in Seq(Byte)
      <3>1. rb.buffer[rb.read_index] \in Byte
        BY <1>1, Fields DEF Offsets
      <3>2. QED
        BY <3>1
    <2>3. QED
      BY <1>3, <1>9, <2>1, <2>2 DEF GetChar, Answer, Answers
  <1>10. ASSUME Reset
         PROVE  WellFormed(rb') /\ ret' \in Answers
    BY <1>1, <1>3, <1>10, ResetWellFormed DEF Reset, Answer, Answers
  <1>11. ASSUME UNCHANGED vars
         PROVE  WellFormed(rb') /\ ret' \in Answers
    BY <1>1, <1>11 DEF vars, TypeOK
  <1>12. QED
    BY <1>4, <1>5, <1>6, <1>7, <1>8, <1>9, <1>10, <1>11 DEF Next, NextFifo

\* For every buffer size and every sequence of calls, put_force included, the
\* indexes stay inside the pool and the mirror bits tell the laps apart, which is
\* what makes rt_ringbuffer_data_len right when it ignores the mirrors.
THEOREM MirrorsTellLaps == Spec => [](TypeOK /\ MirrorInv)
  BY InitInv, NextInv, PTL DEF Spec

-----------------------------------------------------------------------------
(* The operations implement a bounded queue.                               *)

LEMMA ContentsBytes ==
    ASSUME NEW r, WellFormed(r)
    PROVE  /\ Contents(r) \in Seq(Byte)
           /\ Len(Contents(r)) = rt_ringbuffer_data_len(r)
           /\ \A i \in 1..rt_ringbuffer_data_len(r) :
                Wrapped(r, i - 1) \in Offsets /\ Contents(r)[i] = r.buffer[Wrapped(r, i - 1)]
  <1> DEFINE n == rt_ringbuffer_data_len(r)
             c == Contents(r)
  <1>1. n \in 0..Size /\ n \in Nat
    BY DataLen, SizeAssumption
  <1> HIDE DEF n
  <1>2. ASSUME NEW i \in 1..n
        PROVE  Wrapped(r, i - 1) \in Offsets
    BY <1>1, Fields, SizeAssumption DEF Wrapped, Offsets
  <1>3. ASSUME NEW i \in 1..n
        PROVE  r.buffer[Wrapped(r, i - 1)] \in Byte
    BY <1>2, Fields
  <1>4. c = [i \in 1..n |-> r.buffer[Wrapped(r, i - 1)]]
    BY DEF Contents, n
  <1> HIDE DEF c
  <1>5. c \in Seq(Byte) /\ Len(c) = n
    BY <1>1, <1>3, <1>4
  <1>6. QED
    BY <1>2, <1>4, <1>5 DEF c, n

\* Where each byte of the pool comes from after n bytes were copied in.
LEMMA CopyInBytes ==
    ASSUME NEW r, WellFormed(r), NEW s, NEW from \in Nat, NEW n \in 0..Size,
           NEW j \in Offsets
    PROVE  CopyIn(r, s, from, n).buffer[j] =
             IF r.write_index <= j /\ j < r.write_index + n THEN s[from + (j - r.write_index)]
             ELSE IF j + Size < r.write_index + n THEN s[from + (j + Size - r.write_index)]
             ELSE r.buffer[j]
  <1> DEFINE tail == Size - r.write_index
             b    == CopyIn(r, s, from, n).buffer
  <1>1. /\ r.write_index \in 0..Size-1 /\ r \in RingBuffers
        /\ j \in 0..Size-1 /\ n \in 0..Size /\ tail \in 1..Size
    BY Fields, SizeAssumption DEF Offsets
  <1>2. CASE tail > n
    <2>1. b = memcpy(r.buffer, r.write_index, s, from, n)
      BY <1>1, <1>2 DEF CopyIn, RingBuffers
    <2>2. b[j] = IF r.write_index <= j /\ j < r.write_index + n
                   THEN s[from + (j - r.write_index)] ELSE r.buffer[j]
      BY <2>1 DEF memcpy
    <2>3. ~(j + Size < r.write_index + n)
      BY <1>1, <1>2, SizeAssumption
    <2>4. QED
      BY <2>2, <2>3
  <1>3. CASE ~(tail > n)
    <2> DEFINE m == memcpy(r.buffer, r.write_index, s, from, tail)
    <2>1. b = memcpy(m, 0, s, from + tail, n - tail)
      BY <1>1, <1>3 DEF CopyIn, RingBuffers
    <2>2. m[j] = IF r.write_index <= j /\ j < r.write_index + tail
                   THEN s[from + (j - r.write_index)] ELSE r.buffer[j]
      BY DEF memcpy
    <2> HIDE DEF m, b
    <2>3. b[j] = IF 0 <= j /\ j < 0 + (n - tail) THEN s[from + tail + (j - 0)] ELSE m[j]
      BY <2>1 DEF memcpy
    <2>4. /\ (0 <= j /\ j < 0 + (n - tail)) <=> j + Size < r.write_index + n
          /\ from + tail + (j - 0) = from + (j + Size - r.write_index)
          /\ (r.write_index <= j /\ j < r.write_index + tail)
                <=> (r.write_index <= j /\ j < r.write_index + n)
          /\ ~(r.write_index <= j /\ j + Size < r.write_index + n)
      <3>1. Size \in Int /\ r.write_index \in Int /\ j \in Int /\ n \in Int /\ tail \in Int
            /\ 0 <= r.write_index /\ r.write_index < Size /\ 0 <= j /\ j < Size
            /\ 0 <= n /\ n <= Size /\ from \in Int
        BY <1>1, SizeAssumption
      <3>2. (0 <= j /\ j < 0 + (n - tail)) <=> j + Size < r.write_index + n
        BY <1>3, <3>1
      <3>3. from + tail + (j - 0) = from + (j + Size - r.write_index)
        BY <1>3, <3>1
      <3>4. (r.write_index <= j /\ j < r.write_index + tail)
                <=> (r.write_index <= j /\ j < r.write_index + n)
        BY <1>3, <3>1
      <3>5. ~(r.write_index <= j /\ j + Size < r.write_index + n)
        BY <1>3, <3>1
      <3>6. QED
        BY <3>2, <3>3, <3>4, <3>5
    <2>5. QED
      BY <2>2, <2>3, <2>4 DEF b
  <1>4. QED
    BY <1>2, <1>3

\* j is the offset of the i-th byte of a queue of l bytes between the indexes r and
\* w of a pool of z, or of the n bytes that follow them.
QueueOffset(z, r, w, l, n, i, j) ==
    /\ z \in Int /\ r \in Int /\ w \in Int /\ l \in Int /\ n \in Int /\ i \in Int /\ j \in Int
    /\ 0 <= r /\ r < z /\ 0 <= w /\ w < z /\ 0 <= l /\ 0 <= n /\ l + n <= z
    /\ 1 <= i /\ i <= l + n
    /\ l = w - r \/ l = z - (r - w)
    /\ j = IF r + (i - 1) < z THEN r + (i - 1) ELSE r + (i - 1) - z

\* Such an offset is clear of the n places from w on when i <= l, and is the place
\* of the (i - l)-th of them otherwise.
LEMMA OffsetArithmetic ==
    ASSUME NEW z, NEW r, NEW w, NEW l, NEW n, NEW i, NEW j,
           QueueOffset(z, r, w, l, n, i, j)
    PROVE  /\ i <= l => ~(w <= j /\ j < w + n) /\ ~(j + z < w + n)
           /\ i > l =>
                \/ w <= j /\ j < w + n /\ 1 + (j - w) = i - l
                \/ ~(w <= j) /\ j + z < w + n /\ 1 + (j + z - w) = i - l
           /\ i <= l \/ i > l
  BY DEF QueueOffset

\* rt_ringbuffer_put appends as much of the block as fits.
LEMMA PutContents ==
    ASSUME NEW r, WellFormed(r), NEW s \in Seq(Byte)
    PROVE  LET n == MinOf(rt_ringbuffer_space_len(r), Len(s)) IN
           Contents(rt_ringbuffer_put(r, s)) = Contents(r) \o SubSeq(s, 1, n)
  <1> DEFINE size == rt_ringbuffer_space_len(r)
             n    == MinOf(size, Len(s))
             l    == rt_ringbuffer_data_len(r)
             tail == Size - r.write_index
             p    == rt_ringbuffer_put(r, s)
             c    == Contents(p)
             d    == Contents(r) \o SubSeq(s, 1, n)
  <1>1. /\ n \in 0..Size /\ n <= Len(s) /\ n <= size /\ Len(s) \in Nat
        /\ l \in 0..Size /\ size = Size - l
    BY DataLen, SizeAssumption DEF MinOf
  <1>2. l = IF r.read_mirror = r.write_mirror
              THEN r.write_index - r.read_index
              ELSE Size - (r.read_index - r.write_index)
    BY DataLen
  <1>f. /\ r.read_index \in 0..Size-1 /\ r.write_index \in 0..Size-1
        /\ r.read_mirror \in {0, 1} /\ r.write_mirror \in {0, 1}
        /\ IF r.read_mirror = r.write_mirror
             THEN r.read_index <= r.write_index ELSE r.write_index <= r.read_index
    BY Fields
  <1> HIDE DEF l, size, n
  <1>3. ASSUME NEW i \in 1..n
        PROVE  s[i] \in Byte
    BY <1>1, ElementOfSeq
  <1>4. /\ SubSeq(s, 1, n) \in Seq(Byte) /\ Len(SubSeq(s, 1, n)) = n
        /\ \A i \in 1..n : SubSeq(s, 1, n)[i] = s[i]
    BY <1>1, <1>3, SubSeqProperties
  <1>5. /\ d \in Seq(Byte) /\ Len(d) = l + n
        /\ \A i \in 1..l+n : d[i] = IF i <= l THEN r.buffer[Wrapped(r, i - 1)] ELSE s[i - l]
    <2>1. /\ Contents(r) \in Seq(Byte) /\ Len(Contents(r)) = l
          /\ \A i \in 1..l : Contents(r)[i] = r.buffer[Wrapped(r, i - 1)]
      BY ContentsBytes DEF l
    <2>2. /\ d \in Seq(Byte) /\ Len(d) = l + n
          /\ \A i \in 1..l+n : d[i] = IF i <= l THEN Contents(r)[i] ELSE SubSeq(s, 1, n)[i - l]
      BY <1>4, <2>1, ConcatProperties
    <2>3. QED
      BY <1>1, <1>4, <2>1, <2>2
  <1>6. CASE size = 0
    <2>1. p = r /\ n = 0
      BY <1>1, <1>6 DEF rt_ringbuffer_put, size
    <2>2. /\ c \in Seq(Byte) /\ Len(c) = l
          /\ \A i \in 1..l : c[i] = r.buffer[Wrapped(r, i - 1)]
      BY <2>1, ContentsBytes DEF l
    <2> HIDE DEF c, d
    <2>3. Len(c) = Len(d) /\ \A i \in 1..Len(c) : c[i] = d[i]
      BY <1>1, <1>5, <2>1, <2>2, SMTT(30)
    <2>4. c = d
      BY <1>5, <2>2, <2>3, SeqEqual
    <2>5. QED
      BY <2>4 DEF c, d, n, size
  <1>7. CASE size # 0
    <2>1. p = CopyIn(r, s, 1, n)
      BY <1>7 DEF rt_ringbuffer_put, n, size
    <2>2. WellFormed(p)
      BY PutWellFormed
    <2>3. /\ p.read_index = r.read_index /\ p.read_mirror = r.read_mirror
          /\ p.write_index = IF tail > n THEN r.write_index + n ELSE n - tail
          /\ p.write_mirror = IF tail > n THEN r.write_mirror ELSE 1 - r.write_mirror
      <3>1. 1 + n - 1 <= Len(s) /\ 1 \in Nat /\ 1 > 0
        BY <1>1, SizeAssumption
      <3>2. QED
        BY <1>1, <2>1, <3>1, CopyInFields
    <2> HIDE DEF p
    <2>4. rt_ringbuffer_data_len(p) = l + n
      <3>1. rt_ringbuffer_data_len(p) = IF p.read_mirror = p.write_mirror
              THEN p.write_index - p.read_index
              ELSE Size - (p.read_index - p.write_index)
        BY <2>2, DataLen
      <3>2. CASE tail > n
        <4>1. p.write_index = r.write_index + n /\ p.write_mirror = r.write_mirror
          BY <2>3, <3>2
        <4>2. l \in Int /\ n \in Int /\ r.read_index \in Int /\ r.write_index \in Int
              /\ Size \in Int
          BY <1>1, <1>f, SizeAssumption
        <4>3. QED
          BY <1>2, <2>3, <3>1, <4>1, <4>2
      <3>3. CASE ~(tail > n)
        <4>1. CASE r.read_mirror = r.write_mirror
          <5>1. p.read_mirror # p.write_mirror
            BY <1>f, <2>3, <3>3, <4>1
          <5>2. QED
            BY <1>1, <1>2, <1>f, <2>3, <3>1, <3>3, <4>1, <5>1, SizeAssumption, SMTT(30)
        <4>2. CASE r.read_mirror # r.write_mirror
          <5>1. r.read_index - r.write_index >= n
            BY <1>1, <1>2, <1>f, <4>2, SizeAssumption
          <5>2. QED
            BY <1>1, <1>f, <3>3, <5>1, SizeAssumption
        <4>3. QED
          BY <4>1, <4>2
      <3>4. QED
        BY <3>2, <3>3
    <2>5. /\ c \in Seq(Byte) /\ Len(c) = l + n
          /\ \A i \in 1..l+n : /\ Wrapped(p, i - 1) \in Offsets
                               /\ c[i] = p.buffer[Wrapped(p, i - 1)]
      BY <2>2, <2>4, ContentsBytes
    <2> HIDE DEF c, d
    <2>6. ASSUME NEW i \in 1..l+n
          PROVE  c[i] = d[i]
      <3> DEFINE j == Wrapped(p, i - 1)
      <3>1. j \in Offsets /\ j = Wrapped(r, i - 1)
        BY <2>3, <2>5 DEF Wrapped
      <3>2. j = IF r.read_index + (i - 1) < Size THEN r.read_index + (i - 1)
                                                 ELSE r.read_index + (i - 1) - Size
        BY <3>1 DEF Wrapped
      <3> HIDE DEF j
      <3>3. p.buffer[j] =
             IF r.write_index <= j /\ j < r.write_index + n THEN s[1 + (j - r.write_index)]
             ELSE IF j + Size < r.write_index + n THEN s[1 + (j + Size - r.write_index)]
             ELSE r.buffer[j]
        <4>1. PICK from \in Nat : from = 1
          OBVIOUS
        <4>2. CopyIn(r, s, from, n).buffer[j] =
             IF r.write_index <= j /\ j < r.write_index + n THEN s[from + (j - r.write_index)]
             ELSE IF j + Size < r.write_index + n THEN s[from + (j + Size - r.write_index)]
             ELSE r.buffer[j]
          <5>1. n \in 0..Size /\ j \in Offsets
            BY <1>1, <3>1
          <5>2. QED
            BY <5>1, CopyInBytes, Zenon
        <4>3. QED
          BY <2>1, <4>1, <4>2 DEF p
      <3>a. /\ Size \in Int /\ r.read_index \in Int /\ r.write_index \in Int
            /\ l \in Int /\ n \in Int /\ i \in Int /\ j \in Int
            /\ 0 <= r.read_index /\ r.read_index < Size
            /\ 0 <= r.write_index /\ r.write_index < Size
            /\ 0 <= l /\ 0 <= n /\ l + n <= Size /\ 1 <= i /\ i <= l + n
            /\ (l = r.write_index - r.read_index \/ l = Size - (r.read_index - r.write_index))
        <4>1. Size \in Int /\ l \in Int /\ n \in Int /\ 0 <= l /\ 0 <= n /\ l + n <= Size
          BY <1>1, SizeAssumption
        <4>2. i \in Int /\ 1 <= i /\ i <= l + n
          BY <4>1
        <4>3. /\ r.read_index \in Int /\ r.write_index \in Int
              /\ 0 <= r.read_index /\ r.read_index < Size
              /\ 0 <= r.write_index /\ r.write_index < Size
          BY <1>f, <4>1
        <4>4. j \in Int
          BY <3>1, <4>1 DEF Offsets
        <4>5. l = r.write_index - r.read_index \/ l = Size - (r.read_index - r.write_index)
          BY <1>2
        <4>6. QED
          BY <4>1, <4>2, <4>3, <4>4, <4>5
      <3>b. QueueOffset(Size, r.read_index, r.write_index, l, n, i, j)
        BY <3>a, <3>2 DEF QueueOffset
      <3>4. CASE i <= l
        <4>1. ~(r.write_index <= j /\ j < r.write_index + n)
              /\ ~(j + Size < r.write_index + n)
          BY <3>b, <3>4, OffsetArithmetic
        <4>2. QED
          BY <1>5, <2>5, <3>1, <3>3, <3>4, <4>1 DEF j
      <3>5. CASE i > l
        <4>1. \/ /\ r.write_index <= j /\ j < r.write_index + n
                 /\ 1 + (j - r.write_index) = i - l
              \/ /\ ~(r.write_index <= j)
                 /\ j + Size < r.write_index + n
                 /\ 1 + (j + Size - r.write_index) = i - l
          BY <3>b, <3>5, OffsetArithmetic
        <4>2. p.buffer[j] = s[i - l]
          BY <3>3, <4>1
        <4>3. d[i] = s[i - l]
          BY <1>5, <3>a, <3>5
        <4>4. QED
          BY <2>5, <4>2, <4>3 DEF j
      <3>6. QED
        BY <3>b, <3>4, <3>5, OffsetArithmetic
    <2>7. Len(c) = Len(d) /\ \A i \in 1..Len(c) : c[i] = d[i]
      BY <1>5, <2>5, <2>6
    <2>8. c = d
      BY <1>5, <2>5, <2>7, SeqEqual
    <2>9. QED
      BY <2>8 DEF c, d, n, size, p
  <1>8. QED
    BY <1>6, <1>7

\* The arithmetic of a get of n of the l bytes between the indexes r and w: the new
\* read index is g, and k places from it is n + k places from r.
GetOffset(z, r, l, n, g, k) ==
    /\ z \in Int /\ r \in Int /\ l \in Int /\ n \in Int /\ g \in Int /\ k \in Int
    /\ 0 <= r /\ r < z /\ 0 <= n /\ n <= l /\ l <= z /\ 0 <= k /\ k < l - n
    /\ g = IF z - r > n THEN r + n ELSE n - (z - r)

LEMMA GetArithmetic ==
    ASSUME NEW z, NEW r, NEW l, NEW n, NEW g, NEW k, GetOffset(z, r, l, n, g, k)
    PROVE  (IF g + k < z THEN g + k ELSE g + k - z) =
           (IF r + (n + k) < z THEN r + (n + k) ELSE r + (n + k) - z)
  BY DEF GetOffset

\* rt_ringbuffer_get removes the oldest bytes and copies out exactly those.
LEMMA GetContents ==
    ASSUME NEW r, WellFormed(r), NEW len \in Nat
    PROVE  LET l == rt_ringbuffer_data_len(r)
               n == MinOf(l, len)
           IN  /\ Contents(rt_ringbuffer_get(r, len)) = SubSeq(Contents(r), n + 1, l)
               /\ CopyOut(r, n) = SubSeq(Contents(r), 1, n)
  <1> DEFINE l == rt_ringbuffer_data_len(r)
             n == MinOf(l, len)
             tail == Size - r.read_index
             g == rt_ringbuffer_get(r, len)
             c == Contents(g)
             q == Contents(r)
             o == CopyOut(r, n)
  <1>1. /\ l \in Int /\ n \in Int /\ Size \in Int /\ 0 <= n /\ n <= l /\ l <= Size
        /\ n \in 0..Size
    BY DataLen, SizeAssumption DEF MinOf
  <1>2. l = IF r.read_mirror = r.write_mirror
              THEN r.write_index - r.read_index
              ELSE Size - (r.read_index - r.write_index)
    BY DataLen
  <1>3. /\ r.read_index \in Int /\ 0 <= r.read_index /\ r.read_index < Size
        /\ r.write_index \in Int /\ 0 <= r.write_index /\ r.write_index < Size
        /\ r.read_mirror \in {0, 1} /\ r.write_mirror \in {0, 1}
    BY Fields, SizeAssumption
  <1>4. /\ q \in Seq(Byte) /\ Len(q) = l
        /\ \A i \in 1..l : q[i] = r.buffer[Wrapped(r, i - 1)] /\ q[i] \in Byte
    BY ContentsBytes, ElementOfSeq
  <1>5. /\ WellFormed(g) /\ g.buffer = r.buffer
        /\ g.write_index = r.write_index /\ g.write_mirror = r.write_mirror
        /\ g.read_index = IF tail > n THEN r.read_index + n ELSE n - tail
        /\ g.read_mirror = IF tail > n THEN r.read_mirror ELSE 1 - r.read_mirror
    BY GetFields
  <1>6. /\ o \in Seq(Byte) /\ Len(o) = n
        /\ \A i \in 1..n : o[i] = r.buffer[Wrapped(r, i - 1)]
    BY <1>1, CopyOutBytes
  <1> HIDE DEF l, n, g, q, o
  <1>7. rt_ringbuffer_data_len(g) = l - n
    <2>1. rt_ringbuffer_data_len(g) = IF g.read_mirror = g.write_mirror
            THEN g.write_index - g.read_index
            ELSE Size - (g.read_index - g.write_index)
      BY <1>5, DataLen
    <2>2. CASE tail > n
      <3>1. g.read_index = r.read_index + n /\ g.read_mirror = r.read_mirror
        BY <1>5, <2>2
      <3>2. QED
        BY <1>1, <1>2, <1>3, <1>5, <2>1, <3>1
    <2>3. CASE ~(tail > n)
      <3>1. g.read_index = n - tail /\ g.read_mirror = 1 - r.read_mirror
        BY <1>5, <2>3
      <3>2. r.read_mirror # r.write_mirror
        BY <1>1, <1>2, <1>3, <2>3
      <3>3. g.read_mirror = g.write_mirror
        BY <1>3, <1>5, <3>1, <3>2
      <3>4. rt_ringbuffer_data_len(g) = r.write_index - (n - tail)
        BY <1>5, <2>1, <3>1, <3>3
      <3>5. l = Size - (r.read_index - r.write_index)
        BY <1>2, <3>2
      <3>6. QED
        BY <1>1, <1>3, <3>4, <3>5
    <2>4. QED
      BY <2>2, <2>3
  <1>8. /\ c \in Seq(Byte) /\ Len(c) = l - n
        /\ \A i \in 1..l-n : c[i] = r.buffer[Wrapped(g, i - 1)]
    BY <1>5, <1>7, ContentsBytes
  <1>9. ASSUME NEW i \in 1..l-n
        PROVE  Wrapped(g, i - 1) = Wrapped(r, n + i - 1)
    <2>1. i \in Int /\ i - 1 \in Int /\ 0 <= i - 1 /\ i - 1 < l - n /\ g.read_index \in Int
      BY <1>1, <1>3, <1>5
    <2>2. GetOffset(Size, r.read_index, l, n, g.read_index, i - 1)
      BY <1>1, <1>3, <1>5, <2>1 DEF GetOffset
    <2>3. (IF g.read_index + (i - 1) < Size THEN g.read_index + (i - 1)
                                            ELSE g.read_index + (i - 1) - Size) =
          (IF r.read_index + (n + (i - 1)) < Size
             THEN r.read_index + (n + (i - 1)) ELSE r.read_index + (n + (i - 1)) - Size)
      BY <2>2, GetArithmetic
    <2>4. n + (i - 1) = n + i - 1
      BY <1>1, <2>1
    <2>5. QED
      BY <2>3, <2>4 DEF Wrapped
  <1>10. c = SubSeq(q, n + 1, l)
    <2> DEFINE t == SubSeq(q, n + 1, l)
    <2>1. \A i \in n+1 .. l : q[i] \in Byte
      BY <1>1, <1>4
    <2>2. /\ t \in Seq(Byte)
          /\ Len(t) = IF n + 1 <= l THEN l - (n + 1) + 1 ELSE 0
          /\ \A i \in 1 .. l - (n + 1) + 1 : t[i] = q[n + 1 + i - 1]
      BY <1>1, <2>1, SubSeqProperties
    <2> HIDE DEF t, c
    <2>3. Len(t) = l - n /\ \A i \in 1 .. l - n : t[i] = q[n + i]
      BY <1>1, <2>2
    <2>4. ASSUME NEW i \in 1..l-n
          PROVE  c[i] = t[i]
      <3>1. n + i \in 1..l
        BY <1>1
      <3>2. q[n + i] = r.buffer[Wrapped(r, n + i - 1)]
        <4>1. PICK k \in 1..l : k = n + i
          BY <3>1
        <4>2. q[k] = r.buffer[Wrapped(r, k - 1)]
          BY <1>4
        <4>3. QED
          BY <1>1, <4>1, <4>2
      <3>3. QED
        BY <1>8, <1>9, <2>3, <3>2
    <2>5. QED
      BY <1>8, <2>2, <2>3, <2>4, SeqEqual DEF t
  <1>11. o = SubSeq(q, 1, n)
    <2> DEFINE t == SubSeq(q, 1, n)
    <2>1. \A i \in 1 .. n : q[i] \in Byte /\ q[i] = r.buffer[Wrapped(r, i - 1)]
      BY <1>1, <1>4
    <2>2. /\ t \in Seq(Byte)
          /\ Len(t) = IF 1 <= n THEN n - 1 + 1 ELSE 0
          /\ \A i \in 1 .. n - 1 + 1 : t[i] = q[1 + i - 1]
      BY <1>1, <2>1, SubSeqProperties
    <2> HIDE DEF t
    <2>3. Len(t) = n /\ \A i \in 1 .. n : t[i] = q[i]
      BY <1>1, <2>2
    <2>4. \A i \in 1..n : o[i] = t[i]
      BY <1>6, <2>1, <2>3
    <2>5. QED
      BY <1>6, <2>2, <2>3, <2>4, SeqEqual DEF t
  <1>12. QED
    BY <1>10, <1>11 DEF c, q, o, n, l, g

\* Storing one byte is copying in a block of one.
LEMMA StoreCharIsCopyIn ==
    ASSUME NEW r, WellFormed(r), NEW ch \in Byte
    PROVE  StoreChar(r, ch) = CopyIn(r, <<ch>>, 1, 1)
  <1>1. r \in RingBuffers /\ r.buffer \in [Offsets -> Byte]
        /\ r.write_index \in Int /\ 0 <= r.write_index /\ r.write_index < Size
        /\ r.write_index \in Offsets /\ Size \in Int
    BY Fields, SizeAssumption DEF Offsets
  <1> DEFINE b == [r.buffer EXCEPT ![r.write_index] = ch]
  <1>2. memcpy(r.buffer, r.write_index, <<ch>>, 1, 1) = b
    <2>1. ASSUME NEW j \in Offsets
          PROVE  (IF r.write_index <= j /\ j < r.write_index + 1
                    THEN <<ch>>[1 + (j - r.write_index)] ELSE r.buffer[j]) = b[j]
      <3>1. j \in Int
        BY SizeAssumption DEF Offsets
      <3>2. CASE j = r.write_index
        <4>1. 1 + (j - r.write_index) = 1 /\ r.write_index <= j /\ j < r.write_index + 1
          BY <1>1, <3>1, <3>2
        <4>2. QED
          BY <1>1, <3>2, <4>1
      <3>3. CASE j # r.write_index
        <4>1. ~(r.write_index <= j /\ j < r.write_index + 1)
          BY <1>1, <3>1, <3>3
        <4>2. QED
          BY <1>1, <3>3, <4>1
      <3>4. QED
        BY <3>2, <3>3
    <2>2. QED
      BY <1>1, <2>1 DEF memcpy
  <1>3. CASE r.write_index = Size - 1
    <2>1. ~(Size - r.write_index > 1) /\ Size - r.write_index = 1 /\ 1 - 1 = 0
      BY <1>1, <1>3
    <2>2. ASSUME NEW m \in [Offsets -> Byte]
          PROVE  memcpy(m, 0, <<ch>>, 1 + 1, 0) = m
      <3>1. ASSUME NEW j \in Offsets
            PROVE  ~(0 <= j /\ j < 0 + 0)
        BY SizeAssumption DEF Offsets
      <3>2. QED
        BY <2>2, <3>1 DEF memcpy
    <2>3. b \in [Offsets -> Byte]
      BY <1>1
    <2>4. CopyIn(r, <<ch>>, 1, 1) =
            [r EXCEPT !.buffer = memcpy(memcpy(r.buffer, r.write_index, <<ch>>, 1, 1),
                                        0, <<ch>>, 1 + 1, 0),
                      !.write_mirror = Flip(r.write_mirror), !.write_index = 0]
      BY <2>1 DEF CopyIn
    <2>5. StoreChar(r, ch) = [r EXCEPT !.buffer = b, !.write_mirror = Flip(r.write_mirror),
                                       !.write_index = 0]
      BY <1>1, <1>3 DEF StoreChar, RingBuffers
    <2>6. QED
      BY <1>2, <2>2, <2>3, <2>4, <2>5
  <1>4. CASE r.write_index # Size - 1
    <2>1. Size - r.write_index > 1
      BY <1>1, <1>4
    <2>2. CopyIn(r, <<ch>>, 1, 1) = [r EXCEPT !.buffer = b, !.write_index = r.write_index + 1]
      BY <1>2, <2>1 DEF CopyIn
    <2>3. StoreChar(r, ch) = [r EXCEPT !.buffer = b, !.write_index = r.write_index + 1]
      BY <1>1, <1>4 DEF StoreChar, RingBuffers
    <2>4. QED
      BY <2>2, <2>3
  <1>5. QED
    BY <1>3, <1>4

LEMMA PutCharIsPut ==
    ASSUME NEW r, WellFormed(r), NEW ch \in Byte
    PROVE  /\ rt_ringbuffer_putchar(r, ch) = rt_ringbuffer_put(r, <<ch>>)
           /\ rt_ringbuffer_space_len(r) # 0 => StoreChar(r, ch) = rt_ringbuffer_put(r, <<ch>>)
  <1> DEFINE size == rt_ringbuffer_space_len(r)
  <1>1. CASE size = 0
    BY <1>1 DEF rt_ringbuffer_putchar, rt_ringbuffer_put
  <1>2. CASE size # 0
    <2>1. MinOf(size, Len(<<ch>>)) = 1
      BY <1>2, DataLen, SizeAssumption DEF MinOf
    <2>2. QED
      BY <1>2, <2>1, StoreCharIsCopyIn DEF rt_ringbuffer_putchar, rt_ringbuffer_put
  <1>3. QED
    BY <1>1, <1>2

\* Overwriting a full buffer: the i-th byte is now the one that was (i+1)-th, and
\* the last is at the old write index.
FullOffset(z, w, g, i) ==
    /\ z \in Int /\ w \in Int /\ g \in Int /\ i \in Int
    /\ 0 <= w /\ w < z /\ 1 <= i /\ i <= z
    /\ g = IF w = z - 1 THEN 0 ELSE w + 1

LEMMA FullArithmetic ==
    ASSUME NEW z, NEW w, NEW g, NEW i, FullOffset(z, w, g, i)
    PROVE  /\ i < z => /\ (IF g + (i - 1) < z THEN g + (i - 1) ELSE g + (i - 1) - z) =
                         (IF w + i < z THEN w + i ELSE w + i - z)
                      /\ (IF w + i < z THEN w + i ELSE w + i - z) # w
           /\ i = z => (IF g + (i - 1) < z THEN g + (i - 1) ELSE g + (i - 1) - z) = w
           /\ i < z \/ i = z
  BY DEF FullOffset

\* rt_ringbuffer_putchar_force appends its byte; a full buffer gives up its oldest.
LEMMA PutCharForceContents ==
    ASSUME NEW r, WellFormed(r), NEW ch \in Byte
    PROVE  Contents(rt_ringbuffer_putchar_force(r, ch)) =
             IF Size - Len(Contents(r)) = 0 THEN Append(Tail(Contents(r)), ch)
                                            ELSE Append(Contents(r), ch)
  <1> DEFINE l == rt_ringbuffer_data_len(r)
             q == Contents(r)
             f == rt_ringbuffer_putchar_force(r, ch)
             w == StoreChar(r, ch)
  <1>1. /\ r.write_index \in Int /\ 0 <= r.write_index /\ r.write_index < Size
        /\ r.read_index \in Int /\ 0 <= r.read_index /\ r.read_index < Size
        /\ r.read_mirror \in {0, 1} /\ r.write_mirror \in {0, 1} /\ Size \in Int
        /\ r.buffer \in [Offsets -> Byte] /\ r.write_index \in Offsets
    BY Fields, SizeAssumption DEF Offsets
  <1>2. /\ q \in Seq(Byte) /\ Len(q) = l /\ l \in 0..Size
        /\ \A i \in 1..l : q[i] = r.buffer[Wrapped(r, i - 1)]
    BY ContentsBytes, DataLen
  <1>3. rt_ringbuffer_space_len(r) = Size - l
    BY DataLen
  <1>4. Size - l = 0 <=> rt_ringbuffer_status(r) = "FULL"
    <2>1. l = IF r.read_mirror = r.write_mirror
              THEN r.write_index - r.read_index
              ELSE Size - (r.read_index - r.write_index)
      BY DataLen
    <2> HIDE DEF l
    <2>2. CASE r.read_mirror = r.write_mirror
      <3>1. Size - l # 0
        BY <1>1, <2>1, <2>2
      <3>2. QED
        BY <2>2, <3>1 DEF rt_ringbuffer_status
    <2>3. CASE r.read_mirror # r.write_mirror
      <3>0. l = Size - (r.read_index - r.write_index)
        BY <2>1, <2>3
      <3>a. Size - l = r.read_index - r.write_index
        BY <1>1, <3>0
      <3>1. Size - l = 0 <=> r.read_index = r.write_index
        BY <1>1, <3>a
      <3>2. QED
        BY <2>3, <3>1 DEF rt_ringbuffer_status
    <2>4. QED
      BY <2>2, <2>3
  <1> HIDE DEF l, q
  <1>5. CASE Size - l # 0
    <2>1. f = rt_ringbuffer_put(r, <<ch>>)
      BY <1>3, <1>4, <1>5, PutCharIsPut DEF rt_ringbuffer_putchar_force
    <2>2. MinOf(rt_ringbuffer_space_len(r), Len(<<ch>>)) = 1 /\ <<ch>> \in Seq(Byte)
      BY <1>2, <1>3, <1>5, SizeAssumption DEF MinOf
    <2>3. Contents(f) = q \o SubSeq(<<ch>>, 1, 1)
      BY <2>1, <2>2, PutContents DEF q
    <2>4. SubSeq(<<ch>>, 1, 1) = <<ch>>
      <3>1. Len(<<ch>>) = 1
        OBVIOUS
      <3>2. QED
        BY <2>2, <3>1, SubSeqFull
    <2>5. q \o <<ch>> = Append(q, ch)
      BY <1>2, AppendIsConcat
    <2>6. QED
      BY <1>2, <1>5, <2>3, <2>4, <2>5 DEF q
  <1>6. CASE Size - l = 0
    <2>1. l = Size /\ rt_ringbuffer_status(r) = "FULL" /\ q # <<>>
      BY <1>1, <1>2, <1>4, <1>6, SizeAssumption
    <2>2. r.read_index = r.write_index /\ r.read_mirror # r.write_mirror
      BY <2>1 DEF rt_ringbuffer_status
    <2>3. WellFormed(f)
      BY PutCharForceWellFormed
    <2> DEFINE g == IF r.write_index = Size - 1 THEN 0 ELSE r.write_index + 1
    <2>4. /\ w \in RingBuffers /\ w.write_index = g
          /\ w.read_mirror = r.read_mirror
          /\ w.buffer = [r.buffer EXCEPT ![r.write_index] = ch]
          /\ w.write_mirror = IF r.write_index = Size - 1 THEN 1 - r.write_mirror
                                                          ELSE r.write_mirror
      BY StoreCharFields
    <2>5. /\ f.buffer = [r.buffer EXCEPT ![r.write_index] = ch]
          /\ f.read_index = g /\ f.write_index = g
          /\ f.read_mirror # f.write_mirror
      <3>1. CASE r.write_index = Size - 1
        <4>1. f = [w EXCEPT !.read_mirror = 1 - w.read_mirror, !.read_index = w.write_index]
          BY <2>1, <3>1 DEF rt_ringbuffer_putchar_force, Flip
        <4> HIDE DEF f, w, g
        <4>2. /\ f.buffer = w.buffer /\ f.read_index = w.write_index
              /\ f.write_index = w.write_index /\ f.write_mirror = w.write_mirror
              /\ f.read_mirror = 1 - w.read_mirror
          BY <2>4, <4>1 DEF RingBuffers
        <4>3. QED
          BY <1>1, <2>2, <2>4, <3>1, <4>2
      <3>2. CASE r.write_index # Size - 1
        <4>1. f = [w EXCEPT !.read_index = w.write_index]
          BY <2>1, <3>2 DEF rt_ringbuffer_putchar_force
        <4> HIDE DEF f, w, g
        <4>2. /\ f.buffer = w.buffer /\ f.read_index = w.write_index
              /\ f.write_index = w.write_index /\ f.write_mirror = w.write_mirror
              /\ f.read_mirror = w.read_mirror
          BY <2>4, <4>1 DEF RingBuffers
        <4>3. QED
          BY <1>1, <2>2, <2>4, <3>2, <4>2
      <3>3. QED
        BY <3>1, <3>2
    <2> HIDE DEF f, w
    <2>6. rt_ringbuffer_data_len(f) = Size /\ g \in Int
      BY <1>1, <2>3, <2>5, DataLen
    <2> DEFINE c == Contents(f)
    <2>7. /\ c \in Seq(Byte) /\ Len(c) = Size
          /\ \A i \in 1..Size : /\ Wrapped(f, i - 1) \in Offsets
                               /\ c[i] = f.buffer[Wrapped(f, i - 1)]
      BY <2>3, <2>6, ContentsBytes
    <2> DEFINE d == Append(Tail(q), ch)
    <2>8. /\ Tail(q) \in Seq(Byte) /\ Len(Tail(q)) = Size - 1
          /\ \A i \in 1..Size-1 : Tail(q)[i] = q[i + 1]
      BY <1>2, <2>1, HeadTailProperties
    <2>9. /\ d \in Seq(Byte) /\ Len(d) = Size
          /\ \A i \in 1..Size-1 : d[i] = q[i + 1]
          /\ d[Size] = ch
      BY <1>1, <2>8, AppendProperties
    <2> HIDE DEF c, d, g
    <2>10. ASSUME NEW i \in 1..Size
           PROVE  c[i] = d[i]
      <3>1. FullOffset(Size, r.write_index, g, i)
        BY <1>1, <2>6 DEF FullOffset, g
      <3>2. Wrapped(f, i - 1) = IF g + (i - 1) < Size THEN g + (i - 1) ELSE g + (i - 1) - Size
        BY <2>5 DEF Wrapped
      <3>3. CASE i < Size
        <4>1. Wrapped(r, i) = IF r.write_index + i < Size THEN r.write_index + i
                                                         ELSE r.write_index + i - Size
          BY <2>2 DEF Wrapped
        <4>2. Wrapped(f, i - 1) = Wrapped(r, i) /\ Wrapped(r, i) # r.write_index
          BY <3>1, <3>2, <3>3, <4>1, FullArithmetic
        <4>3. c[i] = r.buffer[Wrapped(r, i)]
          BY <1>1, <2>5, <2>7, <4>2
        <4>4. i + 1 \in 1..l /\ (i + 1) - 1 = i /\ i \in 1..Size-1
          BY <1>1, <2>1, <3>3
        <4>5. q[i + 1] = r.buffer[Wrapped(r, (i + 1) - 1)]
          BY <1>2, <4>4, Zenon
        <4>6. QED
          BY <2>9, <4>3, <4>4, <4>5
      <3>4. CASE i = Size
        <4>1. Wrapped(f, i - 1) = r.write_index
          BY <3>1, <3>2, <3>4, FullArithmetic
        <4>2. QED
          BY <1>1, <2>5, <2>7, <2>9, <3>4, <4>1
      <3>5. QED
        BY <3>1, <3>3, <3>4, FullArithmetic
    <2>11. c = d
      BY <2>7, <2>9, <2>10, SeqEqual
    <2>12. QED
      BY <1>2, <1>6, <2>11 DEF c, d, q, f
  <1>7. QED
    BY <1>5, <1>6

\* The record rt_ringbuffer_put_force leaves, where the block without its lost head
\* begins at from and is n bytes long.
LEMMA PutForceFields ==
    ASSUME NEW r, WellFormed(r), NEW s \in Seq(Byte)
    PROVE  LET n     == MinOf(Size, Len(s))
               from  == Len(s) - n + 1
               over  == n > rt_ringbuffer_space_len(r)
               wraps == ~(Size - r.write_index > n)
               g     == IF wraps THEN n - (Size - r.write_index) ELSE r.write_index + n
               f     == rt_ringbuffer_put_force(r, s)
           IN  /\ WellFormed(f)
               /\ f.buffer = CopyIn(r, s, from, n).buffer
               /\ f.write_index = g
               /\ f.write_mirror = IF wraps THEN 1 - r.write_mirror ELSE r.write_mirror
               /\ f.read_index = IF over THEN g ELSE r.read_index
               /\ f.read_mirror = IF over /\ wraps THEN 1 - r.read_mirror ELSE r.read_mirror
  <1> DEFINE n     == MinOf(Size, Len(s))
             from  == Len(s) - n + 1
             over  == n > rt_ringbuffer_space_len(r)
             wraps == ~(Size - r.write_index > n)
             w     == CopyIn(r, s, from, n)
             f     == rt_ringbuffer_put_force(r, s)
  <1>1. /\ n \in 0..Size /\ from \in Nat /\ from > 0 /\ from + n - 1 <= Len(s)
    <2>1. Len(s) \in Nat
      OBVIOUS
    <2>2. n = IF Size < Len(s) THEN Size ELSE Len(s)
      BY DEF MinOf
    <2> HIDE DEF n
    <2>3. n \in 0..Size /\ n <= Len(s)
      BY <2>1, <2>2, SizeAssumption
    <2>4. QED
      BY <2>1, <2>3, SizeAssumption
  <1>2. f = [w EXCEPT !.read_index  = IF over THEN w.write_index ELSE w.read_index,
                      !.read_mirror = IF over /\ wraps THEN 1 - w.read_mirror
                                                       ELSE w.read_mirror]
    BY DEF rt_ringbuffer_put_force, Flip
  <1>3. WellFormed(f)
    BY PutForceWellFormed
  <1> HIDE DEF n, from, f
  <1>4. /\ w \in RingBuffers /\ w.read_index = r.read_index /\ w.read_mirror = r.read_mirror
        /\ w.write_index = IF wraps THEN n - (Size - r.write_index) ELSE r.write_index + n
        /\ w.write_mirror = IF wraps THEN 1 - r.write_mirror ELSE r.write_mirror
    BY <1>1, CopyInFields
  <1> HIDE DEF w, over, wraps
  <1>5. /\ f.buffer = w.buffer
        /\ f.write_index = w.write_index /\ f.write_mirror = w.write_mirror
        /\ f.read_index = (IF over THEN w.write_index ELSE w.read_index)
        /\ f.read_mirror = (IF over /\ wraps THEN 1 - w.read_mirror ELSE w.read_mirror)
    BY <1>2, <1>4 DEF RingBuffers
  <1>6. QED
    BY <1>3, <1>4, <1>5 DEF n, from, over, wraps, w, f

\* The newest bytes of a list: its end, as long as the buffer allows.
LEMMA NewestIs ==
    ASSUME NEW a \in Seq(Byte)
    PROVE  LET k == IF Len(a) > Size THEN Len(a) - Size ELSE 0 IN
           /\ Newest(a) \in Seq(Byte) /\ Len(Newest(a)) = Len(a) - k
           /\ \A i \in 1..Len(a) - k : Newest(a)[i] = a[k + i]
  <1> DEFINE k == IF Len(a) > Size THEN Len(a) - Size ELSE 0
  <1>1. Len(a) \in Nat /\ k \in Nat /\ k <= Len(a)
    BY SizeAssumption
  <1>2. Newest(a) = SubSeq(a, k + 1, Len(a))
    BY SizeAssumption DEF Newest
  <1> HIDE DEF k
  <1>3. \A i \in k + 1 .. Len(a) : a[i] \in Byte
    BY <1>1, ElementOfSeq
  <1>4. /\ SubSeq(a, k + 1, Len(a)) \in Seq(Byte)
        /\ Len(SubSeq(a, k + 1, Len(a))) = IF k + 1 <= Len(a) THEN Len(a) - (k + 1) + 1 ELSE 0
        /\ \A i \in 1 .. Len(a) - (k + 1) + 1 : SubSeq(a, k + 1, Len(a))[i] = a[k + 1 + i - 1]
    BY <1>1, <1>3, SubSeqProperties
  <1>5. /\ Len(a) - (k + 1) + 1 = Len(a) - k
        /\ \A i \in 1 .. Len(a) - k : k + 1 + i - 1 = k + i
        /\ (IF k + 1 <= Len(a) THEN Len(a) - (k + 1) + 1 ELSE 0) = Len(a) - k
    BY <1>1
  <1>6. QED
    BY <1>2, <1>4, <1>5 DEF k

\* The arithmetic of a put_force of n bytes at the write index w that drags the read
\* index from r, one lap behind, to the new write index g of a full pool of z; l bytes
\* were queued, and j is the offset of the i-th byte after the call.
DraggedOffset(z, r, w, l, n, g, i, j) ==
    /\ z \in Int /\ r \in Int /\ w \in Int /\ l \in Int /\ n \in Int
    /\ g \in Int /\ i \in Int /\ j \in Int
    /\ 0 <= r /\ r < z /\ 0 <= w /\ w <= r /\ 0 <= n /\ n <= z /\ l = z - (r - w)
    /\ l + n > z /\ 1 <= i /\ i <= z
    /\ g = IF z - w > n THEN w + n ELSE n - (z - w)
    /\ j = IF g + (i - 1) < z THEN g + (i - 1) ELSE g + (i - 1) - z

\* The n newest bytes are the block, and before them come the newest of the old ones.
LEMMA DraggedArithmetic ==
    ASSUME NEW z, NEW r, NEW w, NEW l, NEW n, NEW g, NEW i, NEW j,
           DraggedOffset(z, r, w, l, n, g, i, j)
    PROVE  /\ i <= z - n =>
                /\ ~(w <= j /\ j < w + n) /\ ~(j + z < w + n)
                /\ i + l + n - z \in 1..l
                /\ j = IF r + (i + l + n - z - 1) < z THEN r + (i + l + n - z - 1)
                                                    ELSE r + (i + l + n - z - 1) - z
           /\ i > z - n =>
                \/ w <= j /\ j < w + n /\ j - w = i - (z - n) - 1
                \/ ~(w <= j) /\ j + z < w + n /\ j + z - w = i - (z - n) - 1
           /\ i <= z - n \/ i > z - n
  <1> USE DEF DraggedOffset
  <1>1. CASE z - w > n /\ g + (i - 1) < z
    BY <1>1
  <1>2. CASE z - w > n /\ ~(g + (i - 1) < z)
    BY <1>2
  <1>3. CASE ~(z - w > n)
    BY <1>3
  <1>4. QED
    BY <1>1, <1>2, <1>3

\* rt_ringbuffer_put_force leaves the newest bytes of the old contents followed by
\* the block, or nothing when the block does not fit and the writer was on the
\* reader's lap: the two mirrors then still agree.
LEMMA PutForceContents ==
    ASSUME NEW r, WellFormed(r), NEW s \in Seq(Byte)
    PROVE  Contents(rt_ringbuffer_put_force(r, s)) =
             IF /\ r.read_mirror = r.write_mirror
                /\ MinOf(Size, Len(s)) > rt_ringbuffer_space_len(r)
               THEN <<>> ELSE Newest(Contents(r) \o s)
  <1> DEFINE n    == MinOf(Size, Len(s))
             from == Len(s) - n + 1
             l    == rt_ringbuffer_data_len(r)
             over == n > rt_ringbuffer_space_len(r)
             wraps == ~(Size - r.write_index > n)
             g    == IF wraps THEN n - (Size - r.write_index) ELSE r.write_index + n
             f    == rt_ringbuffer_put_force(r, s)
             c    == Contents(f)
             all  == Contents(r) \o s
             d    == Newest(all)
             m    == rt_ringbuffer_data_len(f)
             k    == IF l + Len(s) > Size THEN l + Len(s) - Size ELSE 0
  <1>1. /\ WellFormed(f) /\ f.buffer = CopyIn(r, s, from, n).buffer
        /\ f.write_index = g /\ f.read_index = (IF over THEN g ELSE r.read_index)
        /\ f.write_mirror = (IF wraps THEN 1 - r.write_mirror ELSE r.write_mirror)
        /\ f.read_mirror = (IF over /\ wraps THEN 1 - r.read_mirror ELSE r.read_mirror)
    BY PutForceFields
  <1>2. /\ Size \in Int /\ Size > 0 /\ Len(s) \in Int /\ Len(s) >= 0
        /\ l \in Int /\ 0 <= l /\ l <= Size /\ rt_ringbuffer_space_len(r) = Size - l
    BY DataLen, SizeAssumption
  <1>3. n = IF Size < Len(s) THEN Size ELSE Len(s)
    BY DEF MinOf
  <1>4. /\ r.read_index \in Int /\ 0 <= r.read_index /\ r.read_index < Size
        /\ r.write_index \in Int /\ 0 <= r.write_index /\ r.write_index < Size
        /\ r.read_mirror \in {0, 1} /\ r.write_mirror \in {0, 1}
        /\ IF r.read_mirror = r.write_mirror
             THEN r.read_index <= r.write_index ELSE r.write_index <= r.read_index
    BY Fields, <1>2
  <1>5. l = IF r.read_mirror = r.write_mirror
              THEN r.write_index - r.read_index ELSE Size - (r.read_index - r.write_index)
    BY DataLen
  <1> HIDE DEF n, l, f
  <1>6. n \in Int /\ 0 <= n /\ n <= Size /\ n <= Len(s) /\ n \in 0..Size
    BY <1>2, <1>3
  <1>7. m = IF f.read_mirror = f.write_mirror
              THEN f.write_index - f.read_index ELSE Size - (f.read_index - f.write_index)
    BY <1>1, DataLen
  <1>8. m = IF ~over THEN l + n ELSE IF r.read_mirror = r.write_mirror THEN 0 ELSE Size
    <2> HIDE DEF m
    <2>1. CASE over
      BY <1>1, <1>2, <1>4, <1>6, <1>7, <2>1
    <2>2. CASE ~over /\ wraps
      <3>1. /\ f.read_index = r.read_index /\ f.read_mirror = r.read_mirror
            /\ f.write_index = n - (Size - r.write_index)
            /\ f.write_mirror = 1 - r.write_mirror
        BY <1>1, <2>2
      <3>2. f.read_mirror = f.write_mirror <=> r.read_mirror # r.write_mirror
        BY <1>4, <3>1
      <3>3. n <= Size - l /\ Size - r.write_index <= n
        BY <1>2, <1>4, <1>6, <2>2
      <3> HIDE DEF over, wraps, g
      <3>4. CASE r.read_mirror = r.write_mirror
        BY <1>2, <1>4, <1>5, <1>6, <1>7, <2>2, <3>1, <3>2, <3>4
      <3>5. CASE r.read_mirror # r.write_mirror
        <4>1. l = Size - (r.read_index - r.write_index)
          BY <1>5, <3>5
        <4>2. FALSE
          BY <1>2, <1>4, <1>6, <3>3, <4>1
        <4>3. QED
          BY <4>2
      <3>6. QED
        BY <3>4, <3>5
    <2>3. CASE ~over /\ ~wraps
      <3>1. /\ f.read_index = r.read_index /\ f.read_mirror = r.read_mirror
            /\ f.write_index = r.write_index + n /\ f.write_mirror = r.write_mirror
        BY <1>1, <2>3
      <3> HIDE DEF over, wraps, g
      <3>2. f.read_mirror = f.write_mirror <=> r.read_mirror = r.write_mirror
        BY <3>1
      <3>3. CASE r.read_mirror = r.write_mirror
        <4>1. l = r.write_index - r.read_index
          BY <1>5, <3>3
        <4>2. m = f.write_index - f.read_index
          BY <1>7, <3>2, <3>3
        <4>3. m = (r.write_index + n) - r.read_index
          BY <3>1, <4>2
        <4>4. QED
          BY <1>2, <1>4, <1>6, <2>3, <4>1, <4>3
      <3>4. CASE r.read_mirror # r.write_mirror
        <4>1. /\ l = Size - (r.read_index - r.write_index)
              /\ m = Size - (r.read_index - (r.write_index + n))
          BY <1>5, <1>7, <3>1, <3>2, <3>4
        <4>2. QED
          BY <1>2, <1>4, <1>6, <2>3, <4>1
      <3>5. QED
        BY <3>3, <3>4
    <2>4. QED
      BY <2>1, <2>2, <2>3
  <1>9. /\ c \in Seq(Byte) /\ Len(c) = m
        /\ \A i \in 1..m : Wrapped(f, i - 1) \in Offsets /\ c[i] = f.buffer[Wrapped(f, i - 1)]
    BY <1>1, ContentsBytes
  <1>10. /\ all \in Seq(Byte) /\ Len(all) = l + Len(s)
         /\ \A i \in 1..l + Len(s) : all[i] = IF i <= l THEN r.buffer[Wrapped(r, i - 1)]
                                                        ELSE s[i - l]
    <2>1. /\ Contents(r) \in Seq(Byte) /\ Len(Contents(r)) = l
          /\ \A i \in 1..l : Contents(r)[i] = r.buffer[Wrapped(r, i - 1)]
      BY ContentsBytes DEF l
    <2>2. /\ all \in Seq(Byte) /\ Len(all) = l + Len(s)
          /\ \A i \in 1..l + Len(s) : all[i] = IF i <= l THEN Contents(r)[i] ELSE s[i - l]
      BY <2>1, ConcatProperties
    <2> HIDE DEF all
    <2>3. ASSUME NEW i \in 1..l + Len(s)
          PROVE  all[i] = IF i <= l THEN r.buffer[Wrapped(r, i - 1)] ELSE s[i - l]
      <3>1. i <= l => i \in 1..l
        BY <1>2
      <3>2. QED
        BY <2>1, <2>2, <3>1
    <2>4. QED
      BY <2>2, <2>3
  <1> HIDE DEF all
  <1>11. /\ d \in Seq(Byte) /\ Len(d) = l + Len(s) - k
         /\ \A i \in 1 .. l + Len(s) - k : d[i] = all[k + i]
    <2>1. LET q == IF Len(all) > Size THEN Len(all) - Size ELSE 0 IN
          /\ d \in Seq(Byte) /\ Len(d) = Len(all) - q
          /\ \A i \in 1 .. Len(all) - q : d[i] = all[q + i]
      BY <1>10, NewestIs
    <2>2. Len(all) = l + Len(s)
      BY <1>10
    <2> HIDE DEF d
    <2>3. k = IF Len(all) > Size THEN Len(all) - Size ELSE 0
      BY <1>2, <2>2
    <2> HIDE DEF k
    <2>4. /\ d \in Seq(Byte) /\ Len(d) = Len(all) - k
          /\ \A i \in 1 .. Len(all) - k : d[i] = all[k + i]
      BY <2>1, <2>3
    <2>5. k \in Int
      BY <1>2 DEF k
    <2>6. QED
      BY <1>2, <2>2, <2>4, <2>5
  <1>12. CASE over /\ r.read_mirror = r.write_mirror
    <2>1. m = 0
      BY <1>8, <1>12
    <2>2. c = <<>>
      BY <1>9, <2>1, EmptySeq
    <2>3. QED
      BY <1>12, <2>2 DEF f, n
  <1>13. CASE ~(over /\ r.read_mirror = r.write_mirror)
    <2>1. m = l + Len(s) - k
      BY <1>2, <1>3, <1>8, <1>13
    <2> HIDE DEF m, c, d
    <2>2. ASSUME NEW i \in 1..m
          PROVE  c[i] = d[i]
      <3> DEFINE j == Wrapped(f, i - 1)
                 h == k + i
      <3>1. /\ j \in Offsets /\ c[i] = f.buffer[j]
            /\ j = IF f.read_index + (i - 1) < Size THEN f.read_index + (i - 1)
                                                    ELSE f.read_index + (i - 1) - Size
        BY <1>9 DEF Wrapped
      <3> HIDE DEF j
      <3>2. d[i] = all[h] /\ h \in 1..l + Len(s)
            /\ i \in Int /\ 1 <= i /\ i <= m /\ k \in Int
        BY <1>2, <1>11, <2>1
      <3>3. d[i] = IF h <= l THEN r.buffer[Wrapped(r, h - 1)] ELSE s[h - l]
        BY <1>10, <3>2
      <3>4. f.buffer[j] =
              IF r.write_index <= j /\ j < r.write_index + n THEN s[from + (j - r.write_index)]
              ELSE IF j + Size < r.write_index + n THEN s[from + (j + Size - r.write_index)]
              ELSE r.buffer[j]
        <4>1. from \in Nat
          BY <1>2, <1>6
        <4>2. n \in 0..Size /\ j \in Offsets
          BY <1>6, <3>1
        <4> HIDE DEF from
        <4>3. CopyIn(r, s, from, n).buffer[j] =
              IF r.write_index <= j /\ j < r.write_index + n THEN s[from + (j - r.write_index)]
              ELSE IF j + Size < r.write_index + n THEN s[from + (j + Size - r.write_index)]
              ELSE r.buffer[j]
          BY <4>1, <4>2, CopyInBytes, Zenon
        <4>4. f.buffer = CopyIn(r, s, from, n).buffer
          BY <1>1 DEF from
        <4>5. QED
          BY <4>3, <4>4
      <3>5. j \in Int
        BY <1>2, <3>1 DEF Offsets
      <3>6. CASE ~over
        <4>1. l + n <= Size /\ m = l + n /\ f.read_index = r.read_index
          BY <1>1, <1>2, <1>6, <1>8, <3>6
        <4>2. QueueOffset(Size, r.read_index, r.write_index, l, n, i, j)
          BY <1>2, <1>4, <1>5, <1>6, <3>1, <3>2, <3>5, <4>1 DEF QueueOffset
        <4>3. CASE i <= l
          <5>1. k = 0 /\ h = i
            BY <1>2, <1>3, <3>2, <4>1, <4>3
          <5>2. j = Wrapped(r, i - 1)
            BY <3>1, <4>1 DEF Wrapped
          <5>3. QED
            BY <3>1, <3>3, <3>4, <4>2, <4>3, <5>1, <5>2, OffsetArithmetic
        <4>4. CASE i > l
          <5>1. ~(h <= l) /\ h - l = from + (i - l) - 1
            BY <1>2, <1>3, <3>2, <4>1, <4>4
          <5>2. \/ /\ r.write_index <= j /\ j < r.write_index + n
                   /\ 1 + (j - r.write_index) = i - l
                \/ /\ ~(r.write_index <= j) /\ j + Size < r.write_index + n
                   /\ 1 + (j + Size - r.write_index) = i - l
            BY <4>2, <4>4, OffsetArithmetic
          <5>3. f.buffer[j] = s[h - l]
            <6>1. from \in Int
              BY <1>2, <1>6
            <6> HIDE DEF from
            <6>2. CASE r.write_index <= j /\ j < r.write_index + n
              <7>1. from + (j - r.write_index) = h - l
                BY <1>2, <1>4, <3>2, <3>5, <5>1, <5>2, <6>1, <6>2
              <7>2. QED
                BY <3>4, <6>2, <7>1
            <6>3. CASE ~(r.write_index <= j) /\ j + Size < r.write_index + n
              <7>1. from + (j + Size - r.write_index) = h - l
                <8>1. 1 + (j + Size - r.write_index) = i - l
                  BY <5>2, <6>3
                <8>2. h - l = from + (i - l) - 1
                  BY <5>1
                <8>3. h \in Int /\ i \in Int
                  BY <3>2
                <8>4. Size \in Int /\ l \in Int /\ r.write_index \in Int
                  BY <1>2, <1>4
                <8> HIDE DEF h
                <8>5. QED
                  BY <3>5, <6>1, <8>1, <8>2, <8>3, <8>4
              <7>2. QED
                BY <3>4, <6>3, <7>1
            <6>4. QED
              BY <5>2, <6>2, <6>3
          <5>4. QED
            BY <3>1, <3>3, <5>1, <5>3
        <4>5. QED
          BY <1>2, <3>2, <4>3, <4>4
      <3>7. CASE over
        <4>1. /\ l + n > Size /\ m = Size /\ f.read_index = g
              /\ l = Size - (r.read_index - r.write_index)
              /\ r.write_index <= r.read_index
          BY <1>1, <1>2, <1>4, <1>5, <1>6, <1>8, <1>13, <3>7
        <4>2. DraggedOffset(Size, r.read_index, r.write_index, l, n, g, i, j)
          <5>1. g = (IF Size - r.write_index > n THEN r.write_index + n
                                                 ELSE n - (Size - r.write_index)) /\ g \in Int
            BY <1>2, <1>4, <1>6
          <5>2. j = IF g + (i - 1) < Size THEN g + (i - 1) ELSE g + (i - 1) - Size
            BY <3>1, <4>1
          <5>3. l + n > Size /\ i <= Size
            BY <3>2, <4>1
          <5> HIDE DEF g
          <5>4. QED
            BY <1>2, <1>4, <1>6, <3>2, <3>5, <4>1, <5>1, <5>2, <5>3 DEF DraggedOffset
        <4>3. CASE i <= Size - n
          <5>1. h = i + l + n - Size /\ h <= l
            BY <1>2, <1>3, <3>2, <4>1, <4>3
          <5>2. j = Wrapped(r, h - 1) /\ f.buffer[j] = r.buffer[j]
            <6>1. h - 1 = i + l + n - Size - 1
              BY <1>2, <1>6, <3>2, <5>1
            <6>2. /\ ~(r.write_index <= j /\ j < r.write_index + n)
                  /\ ~(j + Size < r.write_index + n)
                  /\ j = IF r.read_index + (i + l + n - Size - 1) < Size
                           THEN r.read_index + (i + l + n - Size - 1)
                           ELSE r.read_index + (i + l + n - Size - 1) - Size
              BY <4>2, <4>3, DraggedArithmetic
            <6>3. QED
              BY <3>4, <6>1, <6>2 DEF Wrapped
          <5>3. QED
            BY <3>1, <3>3, <5>1, <5>2
        <4>4. CASE i > Size - n
          <5>1. ~(h <= l) /\ h - l = from + (i - (Size - n) - 1)
            <6>1. k = l + Len(s) - Size
              BY <1>2, <1>6, <4>1
            <6> HIDE DEF k
            <6>2. QED
              BY <1>2, <1>6, <3>2, <4>4, <6>1
          <5>2. \/ /\ r.write_index <= j /\ j < r.write_index + n
                   /\ j - r.write_index = i - (Size - n) - 1
                \/ /\ ~(r.write_index <= j) /\ j + Size < r.write_index + n
                   /\ j + Size - r.write_index = i - (Size - n) - 1
            BY <4>2, <4>4, DraggedArithmetic
          <5>3. f.buffer[j] = s[h - l]
            BY <3>4, <5>1, <5>2
          <5>4. QED
            BY <3>1, <3>3, <5>1, <5>3
        <4>5. QED
          BY <1>2, <1>6, <3>2, <4>3, <4>4
      <3>8. QED
        BY <3>6, <3>7
    <2>3. Len(c) = Len(d) /\ \A i \in 1..Len(c) : c[i] = d[i]
      BY <1>9, <1>11, <2>1, <2>2
    <2>4. c = d
      BY <1>9, <1>11, <2>3, SeqEqual
    <2>5. QED
      BY <1>13, <2>4 DEF c, d, all, f, n
  <1>14. QED
    BY <1>12, <1>13

\* rt_ringbuffer_put_force leaves the newest bytes, or an empty buffer when a block too
\* long for the free space meets a writer on the reader's lap, for every buffer size.
THEOREM NewestOrNothing == Spec => PutForceOutcome
  <1> DEFINE A == \A s \in Blocks : PutForce(s) =>
                    Contents(rb') = IF Emptied(s) THEN <<>> ELSE Newest(Contents(rb) \o s)
  <1>1. TypeOK /\ MirrorInv /\ [Next]_vars => [A]_vars
    <2> SUFFICES ASSUME TypeOK, MirrorInv, NEW s \in Blocks, PutForce(s)
                 PROVE  Contents(rb') =
                          IF Emptied(s) THEN <<>> ELSE Newest(Contents(rb) \o s)
      OBVIOUS
    <2>1. WellFormed(rb) /\ s \in Seq(Byte)
      BY BlocksAreSeqs DEF TypeOK, MirrorInv, WellFormed
    <2>2. rb' = rt_ringbuffer_put_force(rb, s)
      BY DEF PutForce
    <2>3. QED
      BY <2>1, <2>2, PutForceContents DEF Emptied
  <1>2. QED
    BY <1>1, MirrorsTellLaps, PTL DEF Spec, PutForceOutcome

\* The bytes queued, the count returned and the bytes handed out are at every step
\* those of a bounded first-in first-out queue, for every buffer size: the indexes
\* and mirrors of ringbuffer.c implement ByteQueue in all operations.
THEOREM RingBufferIsQueue == Spec => ImplementsQueue
  <1>1. Init => Queue!Init
    <2> SUFFICES ASSUME Init PROVE Queue!Init
      OBVIOUS
    <2>1. WellFormed(rb) /\ rb.read_index = rb.write_index /\ rb.read_mirror = rb.write_mirror
      BY InitInv DEF Init, TypeOK, MirrorInv, WellFormed
    <2>2. rt_ringbuffer_data_len(rb) = 0
      BY <2>1, DataLen, Fields, SizeAssumption
    <2>3. Contents(rb) \in Seq(Byte) /\ Len(Contents(rb)) = 0
      BY <2>1, <2>2, ContentsBytes
    <2>4. Contents(rb) = <<>>
      BY <2>3, EmptySeq
    <2>5. QED
      BY <2>4 DEF Init, Answer, Queue!Init, Queue!Answer
  <1>2. TypeOK /\ MirrorInv /\ [Next]_vars => [Queue!Next]_<<Contents(rb), ret>>
    <2> SUFFICES ASSUME TypeOK, MirrorInv, [Next]_vars
                 PROVE  [Queue!Next]_<<Contents(rb), ret>>
      OBVIOUS
    <2>1. WellFormed(rb)
      BY DEF TypeOK, MirrorInv, WellFormed
    <2>2. /\ Len(Contents(rb)) = rt_ringbuffer_data_len(rb)
          /\ rt_ringbuffer_space_len(rb) = Size - rt_ringbuffer_data_len(rb)
          /\ rt_ringbuffer_data_len(rb) \in 0..Size
      BY <2>1, ContentsBytes, DataLen
    <2>3. ASSUME NEW s \in Seq(Byte), rb' = rt_ringbuffer_put(rb, s),
                 ret' = Answer("put", MinOf(rt_ringbuffer_space_len(rb), Len(s)), <<>>)
          PROVE  Queue!Put(s)
      BY <2>1, <2>2, <2>3, PutContents
      DEF Queue!Put, Queue!Space, Queue!Answer, Queue!MinOf, MinOf, Answer
    <2>4. ASSUME NEW len \in Nat, rb' = rt_ringbuffer_get(rb, len),
                 ret' = Answer("get", MinOf(rt_ringbuffer_data_len(rb), len),
                               CopyOut(rb, MinOf(rt_ringbuffer_data_len(rb), len)))
          PROVE  Queue!Get(len)
      BY <2>1, <2>2, <2>4, GetContents
      DEF Queue!Get, Queue!Answer, Queue!MinOf, MinOf, Answer
    <2>5. ASSUME NEW s \in Blocks, Put(s) PROVE Queue!Next
      <3>1. Queue!Put(s)
        BY <2>3, <2>5, BlocksAreSeqs DEF Put
      <3>2. QED
        BY <3>1 DEF Queue!Next, Queue!Blocks, Blocks
    <2>6. ASSUME NEW len \in 0..MaxLen, Get(len) PROVE Queue!Next
      <3>1. Queue!Get(len)
        BY <2>4, <2>6, MaxLenAssumption DEF Get
      <3>2. QED
        BY <3>1 DEF Queue!Next
    <2>7. ASSUME NEW ch \in Byte, PutChar(ch) PROVE Queue!Next
      <3>1. rb' = rt_ringbuffer_put(rb, <<ch>>)
        BY <2>1, <2>7, PutCharIsPut DEF PutChar
      <3>2. <<ch>> \in Seq(Byte) /\ Len(<<ch>>) = 1
        OBVIOUS
      <3>3. MinOf(rt_ringbuffer_space_len(rb), 1) =
              IF rt_ringbuffer_space_len(rb) = 0 THEN 0 ELSE 1
        BY <2>2, SizeAssumption DEF MinOf
      <3>4. ret' = Answer("put", MinOf(rt_ringbuffer_space_len(rb), Len(<<ch>>)), <<>>)
        BY <2>7, <3>2, <3>3 DEF PutChar
      <3>5. Queue!Put(<<ch>>)
        BY <2>3, <3>1, <3>2, <3>4
      <3>6. <<ch>> \in [1..1 -> Byte] /\ 1 \in 0..MaxLen
        BY MaxLenAssumption
      <3>7. QED
        BY <3>5, <3>6 DEF Queue!Next, Queue!Blocks
    <2>8. ASSUME NEW ch \in Byte, PutCharForce(ch) PROVE Queue!Next
      <3>1. Queue!PutCharForce(ch)
        BY <2>1, <2>8, PutCharForceContents
        DEF PutCharForce, Queue!PutCharForce, Queue!Space, Queue!Answer, Answer
      <3>2. QED
        BY <3>1 DEF Queue!Next
    <2>9. ASSUME GetChar PROVE Queue!Next
      <3>1. rb' = rt_ringbuffer_get(rb, 1)
        BY <2>1, <2>9, GetCharIsGet DEF GetChar
      <3> DEFINE n == MinOf(rt_ringbuffer_data_len(rb), 1)
      <3>2. n = (IF rt_ringbuffer_data_len(rb) = 0 THEN 0 ELSE 1) /\ n \in 0..Size
        BY <2>2, SizeAssumption DEF MinOf
      <3> HIDE DEF n
      <3>3. /\ CopyOut(rb, n) \in Seq(Byte) /\ Len(CopyOut(rb, n)) = n
            /\ \A i \in 1..n : CopyOut(rb, n)[i] = rb.buffer[Wrapped(rb, i - 1)]
        BY <2>1, <3>2, CopyOutBytes
      <3>4. ret' = Answer("get", n, CopyOut(rb, n))
        <4>1. CASE rt_ringbuffer_data_len(rb) = 0
          <5>1. n = 0 /\ CopyOut(rb, n) = <<>>
            BY <3>2, <3>3, <4>1, EmptySeq
          <5>2. QED
            BY <2>9, <4>1, <5>1 DEF GetChar
        <4>2. CASE rt_ringbuffer_data_len(rb) # 0
          <5>1. n = 1
            BY <3>2, <4>2
          <5>2. Wrapped(rb, 1 - 1) = rb.read_index
            BY <2>1, Fields, SizeAssumption DEF Wrapped
          <5>3. CopyOut(rb, n)[1] = rb.buffer[rb.read_index] /\ Len(CopyOut(rb, n)) = 1
            BY <3>3, <5>1, <5>2
          <5>4. rb.buffer[rb.read_index] \in Byte
            BY <2>1, Fields DEF Offsets
          <5>5. CopyOut(rb, n) = <<rb.buffer[rb.read_index]>>
            <6> DEFINE v == rb.buffer[rb.read_index]
                       t == <<v>>
            <6>1. t \in Seq(Byte) /\ Len(t) = 1 /\ t[1] = v
              BY <5>4
            <6> HIDE DEF t
            <6>2. \A i \in 1 .. Len(CopyOut(rb, n)) : CopyOut(rb, n)[i] = t[i]
              BY <5>3, <6>1
            <6>3. QED
              BY <3>3, <5>3, <6>1, <6>2, SeqEqual DEF t
          <5>6. QED
            BY <2>9, <4>2, <5>1, <5>5 DEF GetChar
        <4>3. QED
          BY <4>1, <4>2
      <3>5. Queue!Get(1)
        BY <2>4, <3>1, <3>4 DEF n
      <3>6. 1 \in 0..MaxLen
        BY MaxLenAssumption
      <3>7. QED
        BY <3>5, <3>6 DEF Queue!Next
    <2>10. ASSUME Reset PROVE Queue!Next
      <3>1. WellFormed(rb') /\ rb'.read_index = 0 /\ rb'.write_index = 0
            /\ rb'.read_mirror = 0 /\ rb'.write_mirror = 0
        <4>1. rb \in RingBuffers
          BY <2>1, Fields
        <4>2. WellFormed(rb')
          BY <2>1, <2>10, ResetWellFormed DEF Reset
        <4>3. QED
          BY <2>10, <4>1, <4>2 DEF Reset, rt_ringbuffer_reset, RingBuffers
      <3>2. rt_ringbuffer_data_len(rb') = 0
        BY <3>1, DataLen, SizeAssumption
      <3>3. Contents(rb') \in Seq(Byte) /\ Len(Contents(rb')) = 0
        BY <3>1, <3>2, ContentsBytes
      <3>4. Contents(rb') = <<>>
        BY <3>3, EmptySeq
      <3>5. QED
        BY <2>10, <3>4 DEF Reset, Answer, Queue!Next, Queue!Reset, Queue!Answer
    <2>11. ASSUME UNCHANGED vars PROVE UNCHANGED <<Contents(rb), ret>>
      BY <2>11 DEF vars
    <2>12. ASSUME NEW s \in Blocks, PutForce(s) PROVE Queue!Next
      <3> DEFINE all == Contents(rb) \o s
      <3>1. s \in Seq(Byte) /\ Contents(rb) \in Seq(Byte)
        BY <2>1, BlocksAreSeqs, ContentsBytes
      <3>2. all \in Seq(Byte) /\ Len(all) \in Nat /\ Len(s) \in Nat
        BY <3>1
      <3>3. Contents(rb') = IF Emptied(s) THEN <<>> ELSE Newest(all)
        BY <2>1, <2>12, <3>1, PutForceContents DEF PutForce, Emptied
      <3> HIDE DEF all
      <3>4. Newest(all) = SubSeq(all, Len(all) - Queue!MinOf(Size, Len(all)) + 1, Len(all))
        <4>1. (IF Len(all) > Size THEN Len(all) - Size + 1 ELSE 1) =
                Len(all) - Queue!MinOf(Size, Len(all)) + 1
          BY <3>2, SizeAssumption DEF Queue!MinOf
        <4>2. QED
          BY <4>1 DEF Newest
      <3>5. Emptied(s) => Len(s) > Queue!Space
        BY <2>2, <3>2, SizeAssumption DEF Emptied, MinOf, Queue!Space
      <3>6. Contents(rb') \in
              {SubSeq(all, Len(all) - Queue!MinOf(Size, Len(all)) + 1, Len(all)),
               IF Len(s) > Queue!Space THEN <<>> ELSE all}
        BY <3>3, <3>4, <3>5
      <3>7. ret' = Queue!Answer("put_force", Queue!MinOf(Size, Len(s)), <<>>)
        BY <2>12 DEF PutForce, Answer, MinOf, Queue!Answer, Queue!MinOf
      <3>8. Queue!PutForce(s)
        BY <3>6, <3>7 DEF Queue!PutForce, all
      <3>9. QED
        BY <3>8 DEF Queue!Next, Queue!Blocks, Blocks
    <2>13. QED
      BY <2>5, <2>6, <2>7, <2>8, <2>9, <2>10, <2>11, <2>12 DEF Next, NextFifo
  <1>3. QED
    BY <1>1, <1>2, MirrorsTellLaps, PTL DEF Spec, ImplementsQueue, Queue!Spec
=============================================================================
