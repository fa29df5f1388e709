------------------------------ MODULE SmallMem ------------------------------
(***************************************************************************)
(* The small-memory heap of mem.c.  Blocks lie one after the other, each   *)
(* behind a header; rt_malloc takes the first free block from lfree on     *)
(* that is large enough and splits it, rt_free joins a block with its free *)
(* neighbours.  heap_sem makes each of them one step; rt_realloc that must *)
(* move its block is three calls, and other threads run between them.      *)
(* Offsets and sizes are in words of 4 bytes.  What a block contains, and  *)
(* the magic number in its header, are left out.                           *)
(***************************************************************************)
EXTENDS Integers, Sequences, FiniteSets, FiniteSetsExt

CONSTANTS
    User,        \* the threads that use the heap
    MemSize,     \* mem_size_aligned
    Header,      \* SIZEOF_STRUCT_MEM
    MinSize,     \* MIN_SIZE
    Align,       \* RT_ALIGN_SIZE
    Sizes,       \* the sizes asked for
    MaxBlocks    \* how many blocks a thread holds at most

VARIABLES
    heap,        \* the headers by offset, lfree and used_mem
    own,         \* the blocks a thread holds: the offset of the header and
                 \* the size the thread asked for
    moving       \* the call of rt_realloc each thread is in: << >>, or the
                 \* old block and the new size, and then the new block

heapVars == << heap, own, moving >>

RoundUp(n) == ((n + Align - 1) \div Align) * Align
MinAligned == RoundUp(MinSize)
HeapEnd == MemSize + Header

ASSUME SmallMemAssumption ==
    /\ MemSize \in Nat /\ Header \in Nat \ {0} /\ MinSize \in Nat \ {0}
    /\ Align \in Nat \ {0} /\ Sizes \subseteq Nat /\ MaxBlocks \in Nat
    /\ RoundUp(Header) = Header /\ RoundUp(MemSize) = MemSize
    /\ MinAligned <= MemSize

HeapInit ==
    /\ heap = [blk |-> [o \in {0, HeapEnd} |->
                          [used |-> o = HeapEnd, next |-> HeapEnd, prev |-> o]],
               lfree |-> 0, used |-> 0]
    /\ own = [t \in User |-> {}]
    /\ moving = [t \in User |-> << >>]

-----------------------------------------------------------------------------
(* Operators on the headers blk, and on the whole heap h.                  *)

Room(blk, p) == blk[p].next - (p + Header)

(* A new free block behind the first n cells of block p's data.            *)
Split(blk, p, n) ==
    LET q == p + Header + n
        next == blk[p].next
    IN  [o \in DOMAIN blk \cup {q} |->
            CASE o = q -> [used |-> FALSE, next |-> next, prev |-> p]
              [] o = p -> [blk[p] EXCEPT !.next = q]
              [] o = next /\ next # HeapEnd -> [blk[o] EXCEPT !.prev = q]
              [] OTHER -> blk[o]]

(* Faulty Join: lfree keeps pointing at the header that is gone.           *)
JoinKeepLowest(h, p) ==
    LET n == h.blk[p].next
        next == h.blk[n].next
    IN  [h EXCEPT !.blk = [o \in DOMAIN @ \ {n} |->
                             CASE o = p -> [@[p] EXCEPT !.next = next]
                               [] o = next -> [@[o] EXCEPT !.prev = p]
                               [] OTHER -> @[o]]]

(* Block p takes over the block behind it.                                 *)
Join(h, p) ==
    LET n == h.blk[p].next
        next == h.blk[n].next
    IN  [h EXCEPT !.lfree = IF @ = n THEN p ELSE @,
                  !.blk = [o \in DOMAIN @ \ {n} |->
                             CASE o = p -> [@[p] EXCEPT !.next = next]
                               [] o = next -> [@[o] EXCEPT !.prev = p]
                               [] OTHER -> @[o]]]

PlugForward(h, p) ==
    LET n == h.blk[p].next
    IN  IF p # n /\ ~h.blk[n].used /\ n # HeapEnd THEN Join(h, p) ELSE h

PlugBackward(h, p) ==
    LET q == h.blk[p].prev
    IN  IF q # p /\ ~h.blk[q].used THEN Join(h, q) ELSE h

(* Faulty PlugHoles: only the block behind is looked at.                   *)
PlugForwardOnly(h, p) == PlugForward(h, p)

PlugHoles(h, p) == PlugBackward(PlugForward(h, p), p)

(* Faulty Fitting: a block counts as free because it lies above lfree.     *)
FittingAboveLowest(h, n) ==
    {p \in DOMAIN h.blk :
        p >= h.lfree /\ p < MemSize - n /\ Room(h.blk, p) >= n}

(* The blocks rt_malloc may take; it takes the first.  The loop stops      *)
(* before the last place where n cells would still fit.                    *)
Fitting(h, n) ==
    {p \in DOMAIN h.blk :
        /\ p >= h.lfree /\ p < MemSize - n
        /\ ~h.blk[p].used /\ Room(h.blk, p) >= n}

Occupy(h, p, n) ==
    LET split == IF Room(h.blk, p) >= n + Header + MinAligned
                 THEN Split(h.blk, p, n) ELSE h.blk
        blk == [split EXCEPT ![p].used = TRUE]
    IN  [blk |-> blk,
         used |-> h.used + blk[p].next - p,
         lfree |-> IF p # h.lfree THEN h.lfree
                   ELSE Min({o \in DOMAIN blk : o >= p /\ (~blk[o].used \/ o = HeapEnd)})]

Vacate(h, p) ==
    PlugHoles([blk |-> [h.blk EXCEPT ![p].used = FALSE],
               lfree |-> IF p < h.lfree THEN p ELSE h.lfree,
               used |-> h.used - (h.blk[p].next - p)], p)

Trim(h, p, n) ==
    PlugHoles([h EXCEPT !.used = @ - (Room(h.blk, p) - n),
                        !.blk = Split(@, p, n)], p + Header + n)

-----------------------------------------------------------------------------
(* The section of rt_malloc: it finds a block for n cells, or none.        *)
Data(n) == IF RoundUp(n) < MinAligned THEN MinAligned ELSE RoundUp(n)

CanAlloc(n) == n # 0 /\ RoundUp(n) <= MemSize /\ Fitting(heap, Data(n)) # {}

Place(n) == Min(Fitting(heap, Data(n)))

(* rt_malloc, rt_calloc, and rt_realloc without a block.  A call that      *)
(* finds no block changes nothing.                                         *)
Malloc(t, n) ==
    /\ moving[t] = << >> /\ Cardinality(own[t]) < MaxBlocks
    /\ CanAlloc(n)
    /\ heap' = Occupy(heap, Place(n), Data(n))
    /\ own' = [own EXCEPT ![t] = @ \cup {<< Place(n), n >>}]
    /\ UNCHANGED moving

Free(t, b) ==
    /\ moving[t] = << >>
    /\ heap' = Vacate(heap, b[1])
    /\ own' = [own EXCEPT ![t] = @ \ {b}]
    /\ UNCHANGED moving

(* rt_realloc up to its first rt_sem_release: the block stays where it is, *)
(* or is to be moved.                                                      *)
Realloc(t, b, n) ==
    LET size == Room(heap.blk, b[1])
        new == RoundUp(n)
    IN  /\ moving[t] = << >> /\ new <= MemSize
        /\ \/ /\ size = new
              /\ UNCHANGED << heap, moving >>
              /\ own' = [own EXCEPT ![t] = (@ \ {b}) \cup {<< b[1], n >>}]
           \/ /\ new + Header + MinSize < size
              /\ heap' = Trim(heap, b[1], new)
              /\ own' = [own EXCEPT ![t] = (@ \ {b}) \cup {<< b[1], n >>}]
              /\ UNCHANGED moving
           \/ /\ size # new /\ new + Header + MinSize >= size
              /\ moving' = [moving EXCEPT ![t] = << b, n >>]
              /\ UNCHANGED << heap, own >>

(* Its rt_malloc; without a block the old one stays and the call is over.  *)
ReallocGet(t) ==
    /\ Len(moving[t]) = 2
    /\ LET n == moving[t][2]
       IN  \/ /\ CanAlloc(RoundUp(n))
              /\ heap' = Occupy(heap, Place(n), Data(n))
              /\ own' = [own EXCEPT ![t] = @ \cup {<< Place(n), n >>}]
              /\ moving' = [moving EXCEPT ![t] = Append(@, Place(n))]
           \/ /\ ~CanAlloc(RoundUp(n))
              /\ moving' = [moving EXCEPT ![t] = << >>]
              /\ UNCHANGED << heap, own >>

(* The data copied, its rt_free of the old block.                          *)
ReallocFree(t) ==
    /\ Len(moving[t]) = 3
    /\ heap' = Vacate(heap, moving[t][1][1])
    /\ own' = [own EXCEPT ![t] = @ \ {moving[t][1]}]
    /\ moving' = [moving EXCEPT ![t] = << >>]

HeapNext ==
    \E t \in User :
        \/ \E n \in Sizes : Malloc(t, n) \/ \E b \in own[t] : Realloc(t, b, n)
        \/ \E b \in own[t] : Free(t, b)
        \/ ReallocGet(t) \/ ReallocFree(t)

HeapSpec == HeapInit /\ [][HeapNext]_heapVars

-----------------------------------------------------------------------------
(* Properties.                                                             *)

Blocks == DOMAIN heap.blk \ {HeapEnd}

HeapTypeOK ==
    /\ DOMAIN heap.blk \subseteq 0..HeapEnd
    /\ \A o \in DOMAIN heap.blk :
          heap.blk[o] \in [used: BOOLEAN, next: 0..HeapEnd, prev: 0..HeapEnd]
    /\ heap.lfree \in DOMAIN heap.blk /\ heap.used \in 0..HeapEnd
    /\ own \in [User -> SUBSET (Nat \X Sizes)]
    /\ \A t \in User : moving[t] = << >> \/ moving[t][1] \in own[t]

(* The headers tile the heap: each block ends where the next begins, knows *)
(* the one before it, and two free blocks never lie side by side.  (The    *)
(* prev of heap_end is not kept up to date, and not read.)                 *)
BlocksTile ==
    /\ {0, HeapEnd} \subseteq DOMAIN heap.blk /\ heap.blk[0].prev = 0
    /\ \A o \in Blocks :
         LET n == heap.blk[o].next
         IN  /\ n = Min({p \in DOMAIN heap.blk : p > o})
             /\ n >= o + Header
             /\ n # HeapEnd => heap.blk[n].prev = o
             /\ heap.blk[o].used \/ heap.blk[n].used

(* The cells of the used blocks, with their headers.                       *)
UsedCells(blk) ==
    UNION {o..(blk[o].next - 1) : o \in {p \in DOMAIN blk \ {HeapEnd} : blk[p].used}}

(* However the calls of the threads interleave: the headers tile the heap, *)
(* the used ones are the ones threads hold, each large enough, used_mem    *)
(* counts them, lfree is free (or the end), and when everything has been   *)
(* freed the heap is one block again.                                      *)
HeapExact ==
    /\ BlocksTile
    /\ \A o \in Blocks : heap.blk[o].used <=> \E t \in User : \E b \in own[t] : b[1] = o
    /\ \A t \in User : \A b \in own[t] : Room(heap.blk, b[1]) >= b[2]
    /\ heap.used = Cardinality(UsedCells(heap.blk))
    /\ heap.lfree = HeapEnd \/ ~heap.blk[heap.lfree].used
    /\ (\A t \in User : own[t] = {}) => Blocks = {0} /\ heap.lfree = 0

(* The heap implements an allocator: what a thread holds is its own.       *)
HeapAllocator == INSTANCE Allocator WITH
    Agent <- User, ArenaSize <- HeapEnd,
    held <- [t \in User |-> {<< b[1] + Header, b[2] >> : b \in own[t]}]

HeapImplementsAllocator == HeapAllocator!Spec

(* "pointer to the lowest free block" (mem.c): no free block lies below    *)
(* lfree, where rt_malloc would not find it.                               *)
LowestFree == \A o \in Blocks : ~heap.blk[o].used => heap.lfree <= o
=============================================================================
