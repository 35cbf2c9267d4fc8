--------------------------------- MODULE Heap ---------------------------------
(***************************************************************************)
(* The small-memory allocator (rt-thread/src/mem.c): a heap divided into   *)
(* blocks, each behind a header that links it to its neighbours, and       *)
(* lfree, from where rt_malloc starts to look.                             *)
(*                                                                         *)
(* Sizes and offsets count units of RT_ALIGN_SIZE, as all sizes in mem.c   *)
(* are aligned.  The semaphore heap_sem makes each section of mem.c one    *)
(* step; rt_realloc that cannot shrink in place has three, and other       *)
(* threads allocate in between.  A header that was merged away is memory   *)
(* nobody reads, and is forgotten.                                         *)
(***************************************************************************)
EXTENDS Integers, FiniteSets, FiniteSetsExt

CONSTANTS
    Client,         \* the threads that allocate
    HeapSize,       \* mem_size_aligned
    Header,         \* SIZEOF_STRUCT_MEM
    MinSize,        \* MIN_SIZE_ALIGNED, and MIN_SIZE, which is as long
    Requests,       \* the sizes threads ask for
    MaxHeld         \* bound: how many blocks a thread has

ASSUME HeapAssumption ==
    /\ Header \in Nat \ {0} /\ MinSize \in Nat \ {0}
    /\ HeapSize \in Nat /\ HeapSize >= MinSize /\ Requests \subseteq Nat \ {0}

VARIABLES
    block,      \* the headers: offset -> [used, next, prev]
    lfree,      \* lfree
    used_mem,   \* used_mem
    held,       \* the blocks a thread has
    re,         \* rt_realloc in progress: [pc, old, size] of a thread
    cut,        \* history: free blocks that rt_realloc cut off and nobody merged since
    missed      \* history: the free blocks large enough for the request refused last

heapVars == <<block, lfree, used_mem, held, re, cut, missed>>

HeapEnd == HeapSize + Header
NoRealloc == [pc |-> "none"]

\* rt_system_heap_init.
InitHeap ==
    /\ block = [p \in {0} |-> [used |-> FALSE, next |-> HeapEnd, prev |-> 0]]
    /\ lfree = 0 /\ used_mem = 0
    /\ held = [c \in Client |-> {}] /\ re = [c \in Client |-> NoRealloc]
    /\ cut = {} /\ missed = {}

Room(b, p) == b[p].next - p - Header
Free(b) == {p \in DOMAIN b : ~b[p].used}

\* The header q becomes the one before p.  (heap_end->prev is never read.)
SetPrev(b, p, q) == IF p = HeapEnd THEN b ELSE [b EXCEPT ![p].prev = q]

\* The block at p is divided: a free one begins at q.
Split(b, p, q) ==
    LET n == b[p].next
        c == [x \in DOMAIN b \cup {q} |->
                IF x = q THEN [used |-> FALSE, next |-> n, prev |-> p]
                ELSE IF x = p THEN [b[p] EXCEPT !.next = q] ELSE b[x]]
    IN SetPrev(c, n, q)

\* The block behind p is made part of it.
Join(b, p) ==
    LET n == b[p].next
        m == b[n].next
        c == [x \in DOMAIN b \ {n} |-> IF x = p THEN [b[p] EXCEPT !.next = m] ELSE b[x]]
    IN SetPrev(c, m, p)

\* A mutant: a free block before p stays apart.
PlugHoles_forward(b, l, p) ==
    LET n == b[p].next
        forward == n # HeapEnd /\ ~b[n].used
    IN [block |-> IF forward THEN Join(b, p) ELSE b,
        lfree |-> IF forward /\ l = n THEN p ELSE l]

\* plug_holes(p), with lfree = l.
PlugHoles(b, l, p) ==
    LET n == b[p].next
        forward == n # HeapEnd /\ ~b[n].used
        b1 == IF forward THEN Join(b, p) ELSE b
        l1 == IF forward /\ l = n THEN p ELSE l
        q == b1[p].prev
        backward == q # p /\ ~b1[q].used
    IN [block |-> IF backward THEN Join(b1, q) ELSE b1,
        lfree |-> IF backward /\ l1 = p THEN q ELSE l1]

\* The lowest free block from p on, or heap_end.
FreeFrom(b, p) == LET F == {q \in Free(b) : q >= p} IN IF F = {} THEN HeapEnd ELSE Min(F)

-----------------------------------------------------------------------------

\* A block has at least MIN_SIZE_ALIGNED.
Rounded(size) == IF size < MinSize THEN MinSize ELSE size

\* The blocks at which the loop of rt_malloc can stop.
Fits(n) == {p \in Free(block) : p >= lfree /\ p < HeapSize - n /\ Room(block, p) >= n}

\* rt_malloc has found p: it is split if a header and the smallest block fit in the rest,
\* and lfree moves on if it was p.
Allocate(p, n) ==
    LET splits == Room(block, p) >= n + Header + MinSize
        b1 == IF splits THEN Split(block, p, p + Header + n) ELSE block
        b == [b1 EXCEPT ![p].used = TRUE]
    IN /\ block' = b
       /\ used_mem' = used_mem + (b[p].next - p)
       /\ lfree' = IF p = lfree THEN FreeFrom(b, p) ELSE lfree
       /\ cut' = cut \ {p}

\* rt_malloc returns RT_NULL.
Refuse(n) ==
    /\ missed' = {[at |-> p, room |-> Room(block, p), size |-> n, cut |-> p \in cut] :
                      p \in {q \in Free(block) : Room(block, q) >= n}}
    /\ UNCHANGED <<block, lfree, used_mem, cut>>

\* rt_malloc, and rt_calloc and rt_realloc without a block.
Malloc(c, size) ==
    LET n == Rounded(size) IN
    /\ re[c].pc = "none" /\ Cardinality(held[c]) < MaxHeld
    /\ \/ /\ Fits(n) # {}
          /\ Allocate(Min(Fits(n)), n)
          /\ held' = [held EXCEPT ![c] = @ \cup {[at |-> Min(Fits(n)), size |-> size]}]
          /\ missed' = {}
       \/ /\ Fits(n) = {}
          /\ Refuse(n)
          /\ UNCHANGED held
    /\ UNCHANGED re

\* A mutant: lfree stays where it is.
Release_keeps_lfree(p) ==
    LET r == PlugHoles([block EXCEPT ![p].used = FALSE], lfree, p)
    IN /\ block' = r.block /\ lfree' = r.lfree
       /\ used_mem' = used_mem - (block[p].next - p)
       /\ cut' = cut \cap Free(r.block)

\* The section of rt_free.
Release(p) ==
    LET r == PlugHoles([block EXCEPT ![p].used = FALSE], IF p < lfree THEN p ELSE lfree, p)
    IN /\ block' = r.block /\ lfree' = r.lfree
       /\ used_mem' = used_mem - (block[p].next - p)
       /\ cut' = cut \cap Free(r.block)

\* rt_free, and rt_realloc to nothing.
FreeBlock(c, h) ==
    /\ re[c].pc = "none" /\ h \in held[c]
    /\ Release(h.at)
    /\ held' = [held EXCEPT ![c] = @ \ {h}]
    /\ missed' = {}
    /\ UNCHANGED re

\* rt_realloc up to its first rt_sem_release: nothing to do, the rest of the block cut off,
\* or a new block to be found.  Here the size is not rounded up, and lfree changes only if
\* it was the block that is merged.
Realloc(c, h, size) ==
    LET room == Room(block, h.at)
        q == h.at + Header + size
        r == PlugHoles(Split(block, h.at, q), lfree, q)
        kept == [held EXCEPT ![c] = (@ \ {h}) \cup {[h EXCEPT !.size = size]}]
    IN /\ re[c].pc = "none" /\ h \in held[c]
       /\ \/ /\ size = room
             /\ held' = kept
             /\ UNCHANGED <<block, lfree, used_mem, re, cut>>
          \/ /\ size # room /\ size + Header + MinSize < room
             /\ block' = r.block /\ lfree' = r.lfree
             /\ used_mem' = used_mem - (room - size)
             /\ cut' = (cut \cup IF q < r.lfree THEN {q} ELSE {}) \cap Free(r.block)
             /\ held' = kept
             /\ UNCHANGED re
          \/ /\ size # room /\ size + Header + MinSize >= room
             /\ re' = [re EXCEPT ![c] = [pc |-> "malloc", old |-> h, size |-> size]]
             /\ UNCHANGED <<block, lfree, used_mem, held, cut>>
       /\ missed' = {}

\* The rt_malloc of rt_realloc: if there is no memory the old block stays.
ReallocMalloc(c) ==
    LET n == Rounded(re[c].size) IN
    /\ re[c].pc = "malloc"
    /\ \/ /\ Fits(n) # {}
          /\ Allocate(Min(Fits(n)), n)
          /\ held' = [held EXCEPT ![c] = @ \cup {[at |-> Min(Fits(n)), size |-> re[c].size]}]
          /\ re' = [re EXCEPT ![c].pc = "free"]
          /\ missed' = {}
       \/ /\ Fits(n) = {}
          /\ Refuse(n)
          /\ re' = [re EXCEPT ![c] = NoRealloc]
          /\ UNCHANGED held

\* The rt_free of rt_realloc.
ReallocFree(c) ==
    /\ re[c].pc = "free"
    /\ Release(re[c].old.at)
    /\ held' = [held EXCEPT ![c] = @ \ {re[c].old}]
    /\ re' = [re EXCEPT ![c] = NoRealloc]
    /\ missed' = {}

NextHeap ==
    \E c \in Client :
        \/ \E size \in Requests : Malloc(c, size)
        \/ \E h \in held[c] : FreeBlock(c, h)
        \/ \E h \in held[c], size \in Requests : Realloc(c, h, size)
        \/ ReallocMalloc(c)
        \/ ReallocFree(c)

-----------------------------------------------------------------------------
(* Properties.                                                             *)

Held == UNION {held[c] : c \in Client}

\* The blocks tile the heap, linked both ways, no two free ones side by side.
Tiled ==
    /\ 0 \in DOMAIN block /\ block[0].prev = 0
    /\ \A p \in DOMAIN block :
          LET n == block[p].next IN
          /\ n \in DOMAIN block \cup {HeapEnd} /\ p + Header < n
          /\ \A q \in DOMAIN block : q <= p \/ n <= q
          /\ n # HeapEnd => block[n].prev = p /\ (block[p].used \/ block[n].used)

\* The units of memory in used blocks, their headers included.
UsedUnits(b) == UNION {p..(b[p].next - 1) : p \in DOMAIN b \ Free(b)}

\* The heap is intact: its blocks tile it, a block is used if and only if one thread, and
\* only one, has it, with the room it asked for; used_mem is what the used blocks take,
\* and lfree is a free block or heap_end.
HeapIntact ==
    /\ Tiled
    /\ {p \in DOMAIN block : block[p].used} = {h.at : h \in Held}
    /\ \A h \in Held : Room(block, h.at) >= h.size
    /\ \A c, d \in Client : \A h \in held[c], g \in held[d] : h.at = g.at => c = d /\ h = g
    /\ used_mem = Cardinality(UsedUnits(block))
    /\ lfree \in Free(block) \cup {HeapEnd}

\* rt_malloc returns RT_NULL only if no free block is large enough, but for two kinds it
\* does not find: what rt_realloc has cut off below lfree, and the last block of the heap
\* when it fits exactly.
RefusedOnlyWhenFull ==
    \A b \in missed : b.cut \/ (b.room = b.size /\ b.at + Header + b.room = HeapEnd)
=============================================================================
