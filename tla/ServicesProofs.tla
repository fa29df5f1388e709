--------------------------- MODULE ServicesProofs ---------------------------
(***************************************************************************)
(* Proofs about the heap of mem.c and the timers of timer.c, for every     *)
(* heap size, header size and alignment, every number of threads and       *)
(* timers and every width of rt_tick.  HeapInv: the headers tile the heap  *)
(* and no two free blocks touch, the used blocks are those the threads     *)
(* hold, and lfree is a free block.  TimerInv: the list is in the order of *)
(* the signed distances from rt_tick, which are all so small that the      *)
(* modular comparison of ticks is the comparison of distances.  From them, *)
(* the heap implements an allocator and the timers a countdown.            *)
(***************************************************************************)
EXTENDS MCServices, SequenceTheorems, FiniteSetTheorems, WellFoundedInduction, TLAPS

-----------------------------------------------------------------------------
(* The heap's headers.                                                     *)

Hdr == [used: BOOLEAN, next: 0..HeapEnd, prev: 0..HeapEnd]

UsedBlocks(blk) == {o \in DOMAIN blk \ {HeapEnd} : blk[o].used}

(* The headers tile the heap.                                              *)
Tiles(blk) ==
    /\ blk \in [DOMAIN blk -> Hdr]
    /\ DOMAIN blk \subseteq 0..HeapEnd /\ {0, HeapEnd} \subseteq DOMAIN blk
    /\ blk[HeapEnd].used = TRUE /\ blk[0].prev = 0
    /\ \A o \in DOMAIN blk \ {HeapEnd} :
         /\ blk[o].next \in DOMAIN blk /\ blk[o].next >= o + Header
         /\ \A p \in DOMAIN blk : p <= o \/ blk[o].next <= p
    /\ \A o \in DOMAIN blk \ {0, HeapEnd} :
         blk[o].prev \in DOMAIN blk \ {HeapEnd} /\ blk[blk[o].prev].next = o

(* Of two blocks side by side one is used.                                 *)
Alone(blk) == \A o \in DOMAIN blk \ {HeapEnd} : blk[o].used \/ blk[blk[o].next].used

(* The same, but perhaps for p and its neighbours.                         *)
AloneBut(blk, p) ==
    \A o \in DOMAIN blk \ {HeapEnd} :
       o = p \/ blk[o].next = p \/ blk[o].used \/ blk[blk[o].next].used

IsHeap(h) == h = [blk |-> h.blk, lfree |-> h.lfree, used |-> h.used]

LowestOK(h) ==
    h.lfree \in DOMAIN h.blk /\ (h.lfree = HeapEnd \/ h.blk[h.lfree].used = FALSE)

(* The used blocks of a are those of b, with the same ends.                *)
SameUsed(a, b) ==
    UsedBlocks(a) = UsedBlocks(b) /\ \A o \in UsedBlocks(a) : a[o].next = b[o].next

LEMMA Constants ==
    /\ MemSize \in Nat /\ Header \in Nat /\ Header > 0 /\ HeapEnd \in Nat
    /\ HeapEnd = MemSize + Header /\ HeapEnd # 0 /\ MinSize \in Nat
  BY SmallMemAssumption DEF HeapEnd

LEMMA TilesFacts ==
    ASSUME NEW blk, Tiles(blk)
    PROVE  /\ \A o \in DOMAIN blk : /\ o \in Nat /\ o <= HeapEnd
                                    /\ blk[o].next \in Nat /\ blk[o].prev \in Nat
                                    /\ blk[o].used \in BOOLEAN
           /\ \A o \in DOMAIN blk \ {HeapEnd} :
                 /\ o < blk[o].next /\ blk[o].next <= HeapEnd
                 /\ blk[o].next # HeapEnd => blk[blk[o].next].prev = o
<1>1. \A o \in DOMAIN blk : /\ o \in Nat /\ o <= HeapEnd
                            /\ blk[o].next \in 0..HeapEnd /\ blk[o].prev \in Nat
                            /\ blk[o].used \in BOOLEAN
  BY Constants DEF Tiles, Hdr
<1>2. ASSUME NEW o \in DOMAIN blk \ {HeapEnd}, blk[o].next # HeapEnd
      PROVE  blk[blk[o].next].prev = o
  <2> DEFINE n == blk[o].next
             q == blk[n].prev
  <2>1. n \in DOMAIN blk \ {0, HeapEnd} /\ o < n
    BY <1>1, <1>2, Constants DEF Tiles
  <2>2. q \in DOMAIN blk \ {HeapEnd} /\ blk[q].next = n
    BY <2>1 DEF Tiles
  <2>3. q < n
    BY <1>1, <2>2, Constants DEF Tiles
  <2>4. (o <= q \/ n <= o) /\ (q <= o \/ n <= q)
    BY <2>2 DEF Tiles
  <2> QED
    BY <1>1, <2>1, <2>2, <2>3, <2>4
<1>3. \A o \in DOMAIN blk \ {HeapEnd} : o < blk[o].next /\ blk[o].next <= HeapEnd
  BY <1>1, Constants DEF Tiles
<1> QED
  BY <1>1, <1>2, <1>3

-----------------------------------------------------------------------------
(* Splitting and joining.                                                  *)

(* The new block at q, behind n cells of data, has room for its header.    *)
CutAt(blk, p, n, q) == q = p + Header + n /\ q + Header <= blk[p].next

(* s is blk with block p cut in two at q.                                  *)
IsCut(blk, p, q, s) ==
    /\ Tiles(s)
    /\ q \notin DOMAIN blk /\ DOMAIN s = DOMAIN blk \cup {q}
    /\ s[q].used = FALSE /\ s[q].next = blk[p].next /\ s[q].prev = p
    /\ s[p].used = blk[p].used /\ s[p].next = q
    /\ \A o \in DOMAIN blk \ {p} : s[o].used = blk[o].used /\ s[o].next = blk[o].next

LEMMA SplitTiles ==
    ASSUME NEW blk, Tiles(blk), NEW p \in DOMAIN blk \ {HeapEnd}, NEW n \in Nat,
           NEW q, CutAt(blk, p, n, q)
    PROVE  IsCut(blk, p, q, Split(blk, p, n))
<1> DEFINE s == Split(blk, p, n)
           m == blk[p].next
           D == DOMAIN blk
<1>0. /\ p \in Nat /\ m \in Nat /\ q \in Nat /\ p < q /\ q >= p + Header /\ q + Header <= m /\ q < m
      /\ m <= HeapEnd /\ m \in D /\ p < m /\ D \subseteq Nat /\ m # 0 /\ q # 0 /\ q # HeapEnd
  <2>1. /\ p \in Nat /\ m \in Nat /\ m <= HeapEnd /\ m \in D /\ p < m /\ D \subseteq Nat
    BY TilesFacts DEF Tiles
  <2> QED BY <2>1, Constants DEF CutAt
<1>1. q \notin D /\ \A o \in D : o <= p \/ m <= o
  BY <1>0, Constants DEF Tiles
<1>2. s = [o \in D \cup {q} |->
            CASE o = q -> [used |-> FALSE, next |-> m, prev |-> p]
              [] o = p -> [blk[p] EXCEPT !.next = q]
              [] o = m /\ m # HeapEnd -> [blk[o] EXCEPT !.prev = q]
              [] OTHER -> blk[o]]
  BY DEF Split, CutAt
<1>H. \A o \in D : blk[o] \in Hdr
  BY DEF Tiles
<1> HIDE DEF s, m, D
<1>3. DOMAIN s = D \cup {q}
  BY <1>2
<1>4. s[q] = [used |-> FALSE, next |-> m, prev |-> p]
  BY <1>0, <1>1, <1>2
<1>5. s[p] = [blk[p] EXCEPT !.next = q]
  BY <1>0, <1>1, <1>2 DEF D
<1>6. m # HeapEnd => s[m] = [blk[m] EXCEPT !.prev = q]
  BY <1>0, <1>1, <1>2
<1>7. \A o \in D : o # p /\ (o # m \/ m = HeapEnd) => s[o] = blk[o]
  BY <1>1, <1>2
<1>8. s[q] \in Hdr /\ s[q].used = FALSE /\ s[q].next = m /\ s[q].prev = p
  BY <1>0, <1>4, Constants DEF Hdr
<1>9. s[p] \in Hdr /\ s[p].used = blk[p].used /\ s[p].next = q /\ s[p].prev = blk[p].prev
  <2>1. blk[p] \in Hdr /\ q \in 0..HeapEnd
    BY <1>0, <1>H, Constants DEF D
  <2> QED BY <1>5, <2>1 DEF Hdr
<1>10. m # HeapEnd => /\ s[m] \in Hdr /\ s[m].used = blk[m].used /\ s[m].next = blk[m].next
                      /\ s[m].prev = q
  <2>1. blk[m] \in Hdr /\ q \in 0..HeapEnd
    BY <1>0, <1>H, Constants
  <2> QED BY <1>6, <2>1 DEF Hdr
<1>11. \A o \in D \ {p} : /\ s[o] \in Hdr /\ s[o].used = blk[o].used /\ s[o].next = blk[o].next
                          /\ (o # m \/ m = HeapEnd => s[o].prev = blk[o].prev)
  BY <1>7, <1>10, <1>H
<1>12. \A o \in D \cup {q} : s[o] \in Hdr
  BY <1>8, <1>9, <1>11
<1>13. s \in [DOMAIN s -> Hdr]
  <2>1. s = [o \in DOMAIN s |-> s[o]]
    BY <1>2
  <2> QED BY <1>3, <1>12, <2>1
<1>14. /\ D \cup {q} \subseteq 0..HeapEnd /\ {0, HeapEnd} \subseteq D \cup {q}
       /\ s[HeapEnd].used = TRUE /\ s[0].prev = 0
  <2>1. D \subseteq 0..HeapEnd /\ {0, HeapEnd} \subseteq D /\ blk[HeapEnd].used = TRUE /\ blk[0].prev = 0
    BY DEF Tiles, D
  <2>2. s[HeapEnd].used = TRUE
    BY <1>11, <2>1
  <2>3. s[0].prev = 0
    BY <1>0, <1>9, <1>11, <2>1
  <2> QED BY <1>0, <2>1, <2>2, <2>3, Constants
<1>15. ASSUME NEW o \in (D \cup {q}) \ {HeapEnd}
       PROVE  /\ s[o].next \in D \cup {q} /\ s[o].next >= o + Header
              /\ \A x \in D \cup {q} : x <= o \/ s[o].next <= x
  <2>1. \A x \in D \ {HeapEnd} :
          /\ blk[x].next \in D /\ blk[x].next >= x + Header
          /\ \A y \in D : y <= x \/ blk[x].next <= y
    BY DEF Tiles, D
  <2>2. CASE o = q
    BY <1>0, <1>1, <1>8, <2>2, Constants
  <2>3. CASE o = p
    BY <1>0, <1>1, <1>9, <2>3, Constants
  <2>4. CASE o \in D \ {p}
    <3>1. s[o].next = blk[o].next /\ o \in D \ {HeapEnd} /\ o \in Nat /\ o # p
      BY <1>0, <1>11, <2>4
    <3>2. q <= o \/ blk[o].next <= q
      <4>1. p <= o \/ blk[o].next <= p
        BY <2>1, <3>1 DEF D
      <4>2. o <= p \/ m <= o
        BY <1>1, <3>1
      <4>3. blk[o].next \in Nat
        BY <1>0, <2>1, <3>1
      <4> QED BY <1>0, <3>1, <4>1, <4>2, <4>3
    <3> QED BY <2>1, <3>1, <3>2
  <2> QED BY <2>2, <2>3, <2>4
<1>16. ASSUME NEW o \in (D \cup {q}) \ {0, HeapEnd}
       PROVE  s[o].prev \in (D \cup {q}) \ {HeapEnd} /\ s[s[o].prev].next = o
  <2>1. \A x \in D \ {0, HeapEnd} : blk[x].prev \in D \ {HeapEnd} /\ blk[blk[x].prev].next = x
    BY DEF Tiles, D
  <2>2. p \in D /\ p # HeapEnd
    BY DEF D
  <2>3. CASE o = q
    BY <1>8, <1>9, <2>2, <2>3
  <2>4. CASE o # q /\ o = m
    BY <1>0, <1>8, <1>10, <2>4
  <2>5. CASE o # q /\ o # m
    <3>1. s[o].prev = blk[o].prev
      BY <1>9, <1>11, <2>5
    <3>2. blk[o].prev \in D \ {HeapEnd} /\ blk[blk[o].prev].next = o
      BY <2>1, <2>5
    <3>3. blk[o].prev # p
      BY <2>5, <3>2 DEF m
    <3> QED BY <1>11, <3>1, <3>2, <3>3
  <2> QED BY <2>3, <2>4, <2>5
<1>17. Tiles(s)
  BY <1>3, <1>13, <1>14, <1>15, <1>16 DEF Tiles
<1> QED
  BY <1>1, <1>3, <1>8, <1>9, <1>11, <1>17 DEF s, m, D, IsCut

LEMMA JoinTiles ==
    ASSUME NEW h, IsHeap(h), Tiles(h.blk),
           NEW p \in DOMAIN h.blk \ {HeapEnd}, h.blk[p].next # HeapEnd
    PROVE  LET j == Join(h, p)
               n == h.blk[p].next
           IN  /\ IsHeap(j)
               /\ j.used = h.used /\ j.lfree = IF h.lfree = n THEN p ELSE h.lfree
               /\ Tiles(j.blk) /\ DOMAIN j.blk = DOMAIN h.blk \ {n}
               /\ j.blk[p].used = h.blk[p].used /\ j.blk[p].next = h.blk[n].next
               /\ \A o \in DOMAIN h.blk \ {p, n} :
                     j.blk[o].used = h.blk[o].used /\ j.blk[o].next = h.blk[o].next
<1> DEFINE j == Join(h, p)
           s == j.blk
           blk == h.blk
           D == DOMAIN blk
           n == blk[p].next
           m == blk[n].next
<1>0. /\ p \in D /\ n \in D /\ m \in D /\ p \in Nat /\ n \in Nat /\ m \in Nat
      /\ p < n /\ n < m /\ m <= HeapEnd /\ p # HeapEnd /\ n # HeapEnd /\ n # 0 /\ m # 0
      /\ D \subseteq Nat
  <2>1. p \in D /\ n \in D \ {HeapEnd} /\ D \subseteq Nat /\ p < n
    BY TilesFacts DEF Tiles
  <2>2. m \in D /\ n < m /\ m <= HeapEnd
    BY <2>1, TilesFacts DEF Tiles
  <2> QED BY <2>1, <2>2
<1>H. \A o \in D : blk[o] \in Hdr
  BY DEF Tiles
<1>T. /\ D \subseteq 0..HeapEnd /\ {0, HeapEnd} \subseteq D /\ blk[HeapEnd].used = TRUE /\ blk[0].prev = 0
      /\ \A x \in D \ {HeapEnd} :
          /\ blk[x].next \in D /\ blk[x].next >= x + Header
          /\ \A y \in D : y <= x \/ blk[x].next <= y
      /\ \A x \in D \ {0, HeapEnd} : blk[x].prev \in D \ {HeapEnd} /\ blk[blk[x].prev].next = x
  BY DEF Tiles
<1>1. /\ s = [o \in D \ {n} |->
              CASE o = p -> [blk[p] EXCEPT !.next = m]
                [] o = m -> [blk[o] EXCEPT !.prev = p]
                [] OTHER -> blk[o]]
      /\ j = [blk |-> j.blk, lfree |-> j.lfree, used |-> j.used]
      /\ j.used = h.used /\ j.lfree = IF h.lfree = n THEN p ELSE h.lfree
  <2> DEFINE N == [o \in D \ {n} |->
              CASE o = p -> [blk[p] EXCEPT !.next = m]
                [] o = m -> [blk[o] EXCEPT !.prev = p]
                [] OTHER -> blk[o]]
             L == IF h.lfree = n THEN p ELSE h.lfree
  <2>1. j = [h EXCEPT !.lfree = L, !.blk = N]
    BY DEF Join
  <2> HIDE DEF N, L, j, blk, D, n, m
  <2>2. j = [blk |-> N, lfree |-> L, used |-> h.used]
    BY <2>1 DEF IsHeap
  <2>3. j.blk = N /\ j.lfree = L /\ j.used = h.used
    BY <2>2
  <2> QED BY <2>2, <2>3 DEF N, L
<1> HIDE DEF s, j, n, m, D, blk
<1>3. DOMAIN s = D \ {n}
  BY <1>1
<1>4. s[p] = [blk[p] EXCEPT !.next = m]
  BY <1>0, <1>1
<1>5. s[m] = [blk[m] EXCEPT !.prev = p]
  BY <1>0, <1>1
<1>6. \A o \in D \ {n, p, m} : s[o] = blk[o]
  BY <1>1
<1>7. s[p] \in Hdr /\ s[p].used = blk[p].used /\ s[p].next = m /\ s[p].prev = blk[p].prev
  <2>1. blk[p] \in Hdr /\ m \in 0..HeapEnd
    BY <1>0, <1>H, Constants
  <2> QED BY <1>4, <2>1 DEF Hdr
<1>8. s[m] \in Hdr /\ s[m].used = blk[m].used /\ s[m].next = blk[m].next /\ s[m].prev = p
  <2>1. blk[m] \in Hdr /\ p \in 0..HeapEnd
    BY <1>0, <1>H, Constants
  <2> QED BY <1>5, <2>1 DEF Hdr
<1>9. \A o \in D \ {n, p} : /\ s[o] \in Hdr /\ s[o].used = blk[o].used /\ s[o].next = blk[o].next
                            /\ (o # m => s[o].prev = blk[o].prev)
  BY <1>6, <1>8, <1>H
<1>10. s \in [DOMAIN s -> Hdr]
  <2>1. s = [o \in DOMAIN s |-> s[o]]
    BY <1>1
  <2>2. \A o \in DOMAIN s : s[o] \in Hdr
    BY <1>3, <1>7, <1>9
  <2> QED BY <2>1, <2>2
<1>11. /\ D \ {n} \subseteq 0..HeapEnd /\ {0, HeapEnd} \subseteq D \ {n}
       /\ s[HeapEnd].used = TRUE /\ s[0].prev = 0
  <2>1. s[HeapEnd].used = TRUE
    BY <1>0, <1>9, <1>T
  <2>2. s[0].prev = 0
    BY <1>0, <1>7, <1>9, <1>T
  <2> QED BY <1>0, <1>T, <2>1, <2>2
<1>12. ASSUME NEW o \in (D \ {n}) \ {HeapEnd}
       PROVE  /\ s[o].next \in D \ {n} /\ s[o].next >= o + Header
              /\ \A x \in D \ {n} : x <= o \/ s[o].next <= x
  <2>1. CASE o = p
    <3>1. m \in D \ {n} /\ m >= p + Header
      <4>1. n >= p + Header
        BY <1>0, <1>T DEF n
      <4> QED BY <1>0, <4>1, Constants
    <3>2. ASSUME NEW x \in D \ {n} PROVE x <= p \/ m <= x
      <4>1. (x <= p \/ n <= x) /\ (x <= n \/ m <= x)
        BY <1>0, <1>T DEF n, m
      <4> QED BY <1>0, <4>1
    <3> QED BY <1>7, <2>1, <3>1, <3>2
  <2>2. CASE o # p
    <3>1. s[o].next = blk[o].next /\ o \in D \ {HeapEnd} /\ o \in Nat
      BY <1>0, <1>9, <2>2
    <3>2. blk[o].next # n
      <4>1. blk[o].next = n => blk[n].prev = o /\ blk[n].prev = p
        BY <1>0, <3>1, TilesFacts DEF blk, D, n
      <4> QED BY <2>2, <4>1
    <3> QED BY <1>T, <3>1, <3>2
  <2> QED BY <2>1, <2>2
<1>13. ASSUME NEW o \in (D \ {n}) \ {0, HeapEnd}
       PROVE  s[o].prev \in (D \ {n}) \ {HeapEnd} /\ s[s[o].prev].next = o
  <2>1. CASE o = m
    BY <1>0, <1>7, <1>8, <2>1
  <2>2. CASE o # m
    <3>1. s[o].prev = blk[o].prev
      BY <1>7, <1>9, <2>2
    <3>2. blk[o].prev \in D \ {HeapEnd} /\ blk[blk[o].prev].next = o
      BY <1>T
    <3>3. blk[o].prev # n /\ blk[o].prev # p
      BY <2>2, <3>2 DEF m, n
    <3> QED BY <1>9, <3>1, <3>2, <3>3
  <2> QED BY <2>1, <2>2
<1>14. Tiles(s)
  BY <1>3, <1>10, <1>11, <1>12, <1>13 DEF Tiles
<1> QED
  BY <1>1, <1>3, <1>7, <1>9, <1>14 DEF s, n, m, D, blk, j, IsHeap

(* plug_holes, first half.                                                 *)
LEMMA PlugForwardFacts ==
    ASSUME NEW h, IsHeap(h), Tiles(h.blk), LowestOK(h),
           NEW p \in DOMAIN h.blk \ {HeapEnd}, h.blk[p].used = FALSE, AloneBut(h.blk, p)
    PROVE  LET f == PlugForward(h, p)
           IN  /\ IsHeap(f) /\ Tiles(f.blk) /\ LowestOK(f)
               /\ f.used = h.used /\ f.lfree <= h.lfree /\ SameUsed(f.blk, h.blk)
               /\ p \in DOMAIN f.blk \ {HeapEnd} /\ f.blk[p].used = FALSE
               /\ \A o \in DOMAIN f.blk \ {HeapEnd} :
                    f.blk[o].next = p \/ f.blk[o].used \/ f.blk[f.blk[o].next].used
<1> DEFINE n == h.blk[p].next
           f == PlugForward(h, p)
           D == DOMAIN h.blk
<1>1. /\ n \in D /\ p < n /\ p \in Nat /\ n \in Nat /\ p \in D /\ D \subseteq Nat
      /\ h.lfree \in D
  BY TilesFacts DEF Tiles, LowestOK
<1>2. CASE ~h.blk[n].used /\ n # HeapEnd
  <2> DEFINE m == h.blk[n].next
  <2>1. f = Join(h, p)
    BY <1>1, <1>2 DEF PlugForward
  <2>2. m \in D /\ n < m /\ m \in Nat
    BY <1>1, <1>2, TilesFacts DEF Tiles
  <2>3. h.blk[m].used
    BY <1>1, <1>2, <2>2 DEF AloneBut
  <2> HIDE DEF f
  <2>4. /\ IsHeap(f) /\ f.used = h.used /\ f.lfree = (IF h.lfree = n THEN p ELSE h.lfree)
        /\ Tiles(f.blk) /\ DOMAIN f.blk = D \ {n}
        /\ f.blk[p].used = FALSE /\ f.blk[p].next = m
        /\ \A o \in D \ {p, n} :
              f.blk[o].used = h.blk[o].used /\ f.blk[o].next = h.blk[o].next
    BY <1>1, <1>2, <2>1, JoinTiles
  <2>5. \A o \in D : h.blk[o].used \in BOOLEAN
    BY TilesFacts
  <2>6. UsedBlocks(f.blk) = UsedBlocks(h.blk)
    BY <1>2, <2>4 DEF UsedBlocks
  <2>7. SameUsed(f.blk, h.blk)
    BY <1>2, <2>4, <2>6 DEF SameUsed, UsedBlocks
  <2>8. LowestOK(f) /\ f.lfree <= h.lfree
    BY <1>1, <2>4 DEF LowestOK
  <2>9. ASSUME NEW o \in (D \ {n}) \ {HeapEnd}
        PROVE  f.blk[o].next = p \/ f.blk[o].used \/ f.blk[f.blk[o].next].used
    <3>1. CASE o = p
      BY <1>1, <2>2, <2>3, <2>4, <3>1
    <3>2. CASE o # p
      <4>1. h.blk[o].next # n
        <5>1. h.blk[o].next = n => h.blk[n].prev = o /\ h.blk[n].prev = p
          BY <1>2, TilesFacts
        <5> QED BY <3>2, <5>1
      <4>2. h.blk[o].next \in D
        BY DEF Tiles
      <4>3. h.blk[o].next = p \/ h.blk[o].used \/ h.blk[h.blk[o].next].used
        BY <3>2 DEF AloneBut
      <4> QED BY <2>4, <3>2, <4>1, <4>2, <4>3
    <3> QED BY <3>1, <3>2
  <2> QED BY <1>1, <2>4, <2>7, <2>8, <2>9 DEF f
<1>3. CASE ~(~h.blk[n].used /\ n # HeapEnd)
  <2>1. f = h
    BY <1>1, <1>3 DEF PlugForward
  <2>2. h.blk[n].used
    BY <1>3 DEF Tiles
  <2>3. SameUsed(h.blk, h.blk) /\ h.lfree <= h.lfree
    BY <1>1 DEF SameUsed
  <2>4. \A o \in D \ {HeapEnd} : h.blk[o].next = p \/ h.blk[o].used \/ h.blk[h.blk[o].next].used
    BY <2>2 DEF AloneBut
  <2> HIDE DEF f
  <2> QED BY <1>1, <2>1, <2>3, <2>4 DEF f
<1> QED
  BY <1>2, <1>3

(* plug_holes: block p and its neighbours, when they are free, become one. *)
LEMMA PlugHolesFacts ==
    ASSUME NEW h, IsHeap(h), Tiles(h.blk), LowestOK(h),
           NEW p \in DOMAIN h.blk \ {HeapEnd}, h.blk[p].used = FALSE, AloneBut(h.blk, p)
    PROVE  LET g == PlugHoles(h, p)
           IN  /\ IsHeap(g) /\ Tiles(g.blk) /\ LowestOK(g) /\ Alone(g.blk)
               /\ g.used = h.used /\ g.lfree <= h.lfree /\ SameUsed(g.blk, h.blk)
<1> DEFINE f == PlugForward(h, p)
           g == PlugHoles(h, p)
           D == DOMAIN f.blk
           q == f.blk[p].prev
<1>0. g = PlugBackward(f, p)
  BY DEF PlugHoles
<1>1. /\ IsHeap(f) /\ Tiles(f.blk) /\ LowestOK(f)
      /\ f.used = h.used /\ f.lfree <= h.lfree /\ SameUsed(f.blk, h.blk)
      /\ p \in D \ {HeapEnd} /\ f.blk[p].used = FALSE
      /\ \A o \in D \ {HeapEnd} :
           f.blk[o].next = p \/ f.blk[o].used \/ f.blk[f.blk[o].next].used
  BY PlugForwardFacts
<1> HIDE DEF f, g
<1>2. /\ D \subseteq Nat /\ p \in Nat /\ f.lfree \in Nat /\ f.lfree \in D
      /\ h.lfree \in Nat
  BY <1>1, TilesFacts DEF Tiles, LowestOK
<1>3. \A o \in D \ {HeapEnd} : f.blk[o].next = p => o = q
  BY <1>1, TilesFacts
<1>4. CASE q # p /\ ~f.blk[q].used
  <2>1. p # 0
    BY <1>1, <1>4 DEF Tiles
  <2>2. q \in D \ {HeapEnd} /\ f.blk[q].next = p
    BY <1>1, <2>1 DEF Tiles
  <2>3. g = Join(f, q)
    BY <1>0, <1>4 DEF PlugBackward
  <2> DEFINE m == f.blk[p].next
  <2>4. m \in D /\ p < m /\ m # p /\ m # q /\ q < p
    <3>1. m \in D /\ p < m /\ q < p
      <4>1. m \in D /\ p < m
        BY <1>1, TilesFacts DEF Tiles
      <4>2. q < f.blk[q].next
        BY <1>1, <2>2, TilesFacts
      <4> QED BY <2>2, <4>1, <4>2
    <3>2. m \in Nat /\ q \in Nat
      BY <1>2, <2>2, <3>1
    <3> QED BY <1>2, <3>1, <3>2
  <2>5. f.blk[m].used
    BY <1>1, <2>4
  <2>6. /\ IsHeap(g) /\ g.used = f.used /\ g.lfree = (IF f.lfree = p THEN q ELSE f.lfree)
        /\ Tiles(g.blk) /\ DOMAIN g.blk = D \ {p}
        /\ g.blk[q].used = f.blk[q].used /\ g.blk[q].next = m
        /\ \A o \in D \ {q, p} :
              g.blk[o].used = f.blk[o].used /\ g.blk[o].next = f.blk[o].next
    BY <1>1, <2>2, <2>3, JoinTiles
  <2>7. UsedBlocks(g.blk) = UsedBlocks(f.blk)
    BY <1>1, <1>4, <2>6 DEF UsedBlocks
  <2>8. SameUsed(g.blk, h.blk)
    BY <1>1, <1>4, <2>6, <2>7 DEF SameUsed, UsedBlocks
  <2>9. f.blk[q].used = FALSE
    BY <1>1, <1>4, <2>2, TilesFacts
  <2>10. LowestOK(g) /\ g.lfree <= h.lfree
    BY <1>1, <1>2, <2>2, <2>4, <2>6, <2>9 DEF LowestOK
  <2>11. ASSUME NEW o \in (D \ {p}) \ {HeapEnd} PROVE g.blk[o].used \/ g.blk[g.blk[o].next].used
    <3>1. CASE o = q
      BY <2>4, <2>5, <2>6, <3>1
    <3>2. CASE o # q
      <4>1. f.blk[o].next # p
        BY <1>3, <3>2
      <4>2. f.blk[o].next \in D
        BY <1>1 DEF Tiles
      <4> QED BY <1>1, <2>6, <2>9, <3>2, <4>1, <4>2
    <3> QED BY <3>1, <3>2
  <2> QED BY <1>1, <2>6, <2>8, <2>10, <2>11 DEF Alone, g
<1>5. CASE ~(q # p /\ ~f.blk[q].used)
  <2>1. g = f
    BY <1>0, <1>5 DEF PlugBackward
  <2>2. ASSUME NEW o \in D \ {HeapEnd}, f.blk[o].next = p PROVE f.blk[o].used
    <3>1. o = q /\ o < p
      BY <1>1, <1>3, <2>2, TilesFacts
    <3> QED BY <1>2, <1>5, <3>1
  <2>3. Alone(f.blk)
    BY <1>1, <2>2 DEF Alone
  <2> QED BY <1>1, <2>1, <2>3 DEF g
<1> QED
  BY <1>4, <1>5

-----------------------------------------------------------------------------
(* The cells of the used blocks.                                           *)

LEMMA MinOfOffsets ==
    ASSUME NEW I \in SUBSET Nat, I # {}
    PROVE  Min(I) \in I /\ \A j \in I : Min(I) <= j
<1> DEFINE T == {0..x : x \in I}
<1>1. T \subseteq FiniteSubsetsOf(Nat) /\ T # {}
  <2>1. ASSUME NEW x \in I PROVE 0..x \in SUBSET Nat /\ IsFiniteSet(0..x)
    <3>1. x \in Int /\ 0 \in Int
      OBVIOUS
    <3> QED BY <3>1, FS_Interval
  <2> QED BY <2>1 DEF FiniteSubsetsOf
<1>2. PICK u \in T : \A v \in T : ~(<<v, u>> \in StrictSubsetOrdering(Nat))
  BY <1>1, WFMin, FS_StrictSubsetOrderingWellFounded
<1>3. PICK x \in I : u = 0..x
  BY <1>2
<1>4. ASSUME NEW y \in I, y < x PROVE FALSE
  <2>1. 0..y \in T /\ 0..y \subseteq u /\ 0..y \in SUBSET Nat /\ u \in SUBSET Nat
    BY <1>3, <1>4
  <2>2. x \in u /\ x \notin 0..y
    BY <1>3, <1>4
  <2>3. <<0..y, u>> \in StrictSubsetOrdering(Nat)
    BY <2>1, <2>2 DEF StrictSubsetOrdering
  <2> QED BY <1>2, <2>1, <2>3
<1>5. \E m \in I : \A y \in I : m <= y
  BY <1>4
<1> QED BY <1>5 DEF Min

LEMMA CellsMore ==
    ASSUME NEW C, IsFiniteSet(C), NEW i \in Nat, NEW j \in Nat, i <= j,
           C \cap (i..(j - 1)) = {}
    PROVE  Cardinality(C \cup (i..(j - 1))) = Cardinality(C) + (j - i)
<1> DEFINE R == i..(j - 1)
<1>1. IsFiniteSet(R) /\ Cardinality(R) = j - i
  <2>1. i \in Int /\ j - 1 \in Int
    OBVIOUS
  <2>2. IsFiniteSet(R) /\ Cardinality(R) = IF i > j - 1 THEN 0 ELSE (j - 1) - i + 1
    BY <2>1, FS_Interval
  <2> QED BY <2>2
<1>2. Cardinality(C) \in Nat /\ Cardinality({}) = 0
  BY FS_CardinalityType, FS_EmptySet
<1>3. Cardinality(C \cup R) = Cardinality(C) + Cardinality(R) - Cardinality(C \cap R)
  BY <1>1, FS_Union
<1>4. Cardinality(C \cap R) = 0
  BY <1>2
<1> HIDE DEF R
<1>5. Cardinality(C \cup R) = Cardinality(C) + (j - i)
  BY <1>1, <1>2, <1>3, <1>4
<1> QED
  BY <1>5 DEF R

LEMMA CellsLess ==
    ASSUME NEW C, IsFiniteSet(C), NEW i \in Nat, NEW j \in Nat, i <= j,
           i..(j - 1) \subseteq C
    PROVE  Cardinality(C \ (i..(j - 1))) = Cardinality(C) - (j - i)
<1> DEFINE B == C \ (i..(j - 1))
<1>1. IsFiniteSet(B) /\ B \cap (i..(j - 1)) = {}
  BY FS_Subset
<1>2. Cardinality(B \cup (i..(j - 1))) = Cardinality(B) + (j - i)
  BY <1>1, CellsMore
<1>3. B \cup (i..(j - 1)) = C
  OBVIOUS
<1>4. Cardinality(B) \in Nat
  BY <1>1, FS_CardinalityType
<1>5. Cardinality(C) = Cardinality(B) + (j - i)
  BY <1>2, <1>3
<1> HIDE DEF B
<1>6. Cardinality(B) = Cardinality(C) - (j - i)
  BY <1>4, <1>5
<1> QED
  BY <1>6 DEF B

(* A cell belongs to one block.                                            *)
LEMMA CellsFacts ==
    ASSUME NEW blk, Tiles(blk)
    PROVE  /\ IsFiniteSet(UsedCells(blk)) /\ Cardinality(UsedCells(blk)) \in 0..HeapEnd
           /\ \A c : c \in UsedCells(blk) <=>
                     \E o \in UsedBlocks(blk) : c \in o..(blk[o].next - 1)
           /\ \A o \in DOMAIN blk \ {HeapEnd}, p \in DOMAIN blk \ {HeapEnd} :
                 o # p => (o..(blk[o].next - 1)) \cap (p..(blk[p].next - 1)) = {}
<1>1. \A c : c \in UsedCells(blk) <=> \E o \in UsedBlocks(blk) : c \in o..(blk[o].next - 1)
  BY DEF UsedCells, UsedBlocks
<1>2. UsedCells(blk) \subseteq 0..(HeapEnd - 1)
  <2> SUFFICES ASSUME NEW o \in UsedBlocks(blk), NEW c \in o..(blk[o].next - 1)
               PROVE  c \in 0..(HeapEnd - 1)
    BY <1>1
  <2> QED BY TilesFacts, Constants DEF UsedBlocks
<1>3. IsFiniteSet(0..(HeapEnd - 1)) /\ Cardinality(0..(HeapEnd - 1)) = HeapEnd
  <2>1. 0 \in Int /\ HeapEnd - 1 \in Int
    BY Constants
  <2>2. /\ IsFiniteSet(0..(HeapEnd - 1))
        /\ Cardinality(0..(HeapEnd - 1)) = IF 0 > HeapEnd - 1 THEN 0 ELSE (HeapEnd - 1) - 0 + 1
    BY <2>1, FS_Interval
  <2> QED BY <2>2, Constants
<1>4. /\ IsFiniteSet(UsedCells(blk))
      /\ Cardinality(UsedCells(blk)) <= HeapEnd
  BY <1>2, <1>3, FS_Subset
<1>5. Cardinality(UsedCells(blk)) \in 0..HeapEnd
  BY <1>4, FS_CardinalityType, Constants
<1>6. ASSUME NEW o \in DOMAIN blk \ {HeapEnd}, NEW p \in DOMAIN blk \ {HeapEnd}, o # p,
             NEW c \in (o..(blk[o].next - 1)) \cap (p..(blk[p].next - 1))
      PROVE  FALSE
  <2>1. /\ o \in Nat /\ p \in Nat /\ blk[o].next \in Nat /\ blk[p].next \in Nat
    BY TilesFacts
  <2>2. (p <= o \/ blk[o].next <= p) /\ (o <= p \/ blk[p].next <= o)
    BY DEF Tiles
  <2> QED BY <1>6, <2>1, <2>2
<1> QED
  BY <1>1, <1>4, <1>5, <1>6

LEMMA SameCells ==
    ASSUME NEW a, NEW b, SameUsed(a, b)
    PROVE  UsedCells(a) = UsedCells(b)
  BY DEF UsedCells, UsedBlocks, SameUsed

-----------------------------------------------------------------------------
(* The three operations on the heap.                                       *)

HeapOK(h) ==
    /\ IsHeap(h) /\ Tiles(h.blk) /\ Alone(h.blk) /\ LowestOK(h)
    /\ h.used = Cardinality(UsedCells(h.blk))

LEMMA MarkTiles ==
    ASSUME NEW blk, Tiles(blk), NEW p \in DOMAIN blk \ {HeapEnd}, NEW v \in BOOLEAN
    PROVE  LET b == [blk EXCEPT ![p].used = v]
           IN  /\ Tiles(b) /\ DOMAIN b = DOMAIN blk /\ b[p].used = v
               /\ \A o \in DOMAIN blk : b[o].next = blk[o].next
               /\ \A o \in DOMAIN blk \ {p} : b[o].used = blk[o].used
<1> DEFINE b == [blk EXCEPT ![p].used = v]
           D == DOMAIN blk
<1>H. \A o \in D : blk[o] \in Hdr
  BY DEF Tiles
<1>1. /\ DOMAIN b = D /\ b[p] = [blk[p] EXCEPT !.used = v] /\ \A o \in D \ {p} : b[o] = blk[o]
      /\ b = [o \in D |-> b[o]]
  OBVIOUS
<1> HIDE DEF b
<1>2. b[p] \in Hdr /\ b[p].used = v /\ b[p].next = blk[p].next /\ b[p].prev = blk[p].prev
  <2>1. blk[p] \in Hdr
    BY <1>H
  <2> QED BY <1>1, <2>1 DEF Hdr
<1>3. \A o \in D : b[o] \in Hdr /\ b[o].next = blk[o].next /\ b[o].prev = blk[o].prev
  BY <1>1, <1>2, <1>H
<1>4. \A o \in D \ {p} : b[o].used = blk[o].used
  BY <1>1
<1>5. b \in [D -> Hdr]
  BY <1>1, <1>3
<1>6. b[HeapEnd].used = TRUE /\ b[0].prev = 0
  BY <1>3, <1>4 DEF Tiles
<1>7. Tiles(b)
  BY <1>1, <1>3, <1>5, <1>6 DEF Tiles
<1> QED
  BY <1>1, <1>2, <1>3, <1>4, <1>7 DEF b

LEMMA OccupyFacts ==
    ASSUME NEW h, HeapOK(h), NEW p \in DOMAIN h.blk \ {HeapEnd}, h.blk[p].used = FALSE,
           NEW n \in Nat, Room(h.blk, p) >= n, MinAligned \in Nat
    PROVE  LET g == Occupy(h, p, n)
           IN  /\ HeapOK(g) /\ UsedBlocks(g.blk) = UsedBlocks(h.blk) \cup {p}
               /\ \A o \in UsedBlocks(h.blk) : g.blk[o].next = h.blk[o].next
               /\ Room(g.blk, p) >= n
<1> DEFINE g == Occupy(h, p, n)
           D == DOMAIN h.blk
           m == h.blk[p].next
           q == p + Header + n
           s == IF Room(h.blk, p) >= n + Header + MinAligned THEN Split(h.blk, p, n) ELSE h.blk
           b == [s EXCEPT ![p].used = TRUE]
<1>0. /\ Tiles(h.blk) /\ Alone(h.blk) /\ LowestOK(h) /\ h.used = Cardinality(UsedCells(h.blk))
      /\ p \in D /\ p # HeapEnd /\ D \subseteq Nat /\ p \in Nat /\ m \in D /\ m \in Nat
      /\ p < m /\ m <= HeapEnd /\ q \in Nat
      /\ \A o \in D : h.blk[o].used \in BOOLEAN /\ h.blk[o].next \in Nat
  <2>1. Tiles(h.blk) /\ Alone(h.blk) /\ LowestOK(h) /\ h.used = Cardinality(UsedCells(h.blk))
    BY DEF HeapOK
  <2>2. \A o \in D : o \in Nat /\ h.blk[o].used \in BOOLEAN /\ h.blk[o].next \in Nat
    BY <2>1, TilesFacts
  <2>3. m \in D /\ p < m /\ m <= HeapEnd
    BY <2>1, TilesFacts DEF Tiles
  <2>4. p \in Nat /\ q \in Nat /\ m \in Nat
    BY <2>2, <2>3, Constants
  <2> QED BY <2>1, <2>2, <2>3, <2>4
<1>1. h.blk[m].used
  BY <1>0 DEF Alone
<1>2. /\ Tiles(s) /\ s[p].used = FALSE /\ D \subseteq DOMAIN s
      /\ \A o \in D \ {p} : s[o].used = h.blk[o].used /\ s[o].next = h.blk[o].next
      /\ \A o \in DOMAIN s \ D : s[o].used = FALSE /\ s[o].next = m /\ o # p
      /\ s[p].next >= q /\ s[p].next <= m /\ s[p].next > p /\ s[p].next \in Nat
  <2>1. CASE Room(h.blk, p) >= n + Header + MinAligned
    <3>1. s = Split(h.blk, p, n) /\ q + Header <= m
      BY <1>0, <2>1, Constants DEF Room
    <3> HIDE DEF s
    <3>a. CutAt(h.blk, p, n, q)
      BY <1>0, <3>1 DEF CutAt
    <3> HIDE DEF q
    <3>b. IsCut(h.blk, p, q, s)
      BY <1>0, <3>1, <3>a, SplitTiles
    <3>2. /\ Tiles(s) /\ q \notin D /\ DOMAIN s = D \cup {q}
          /\ s[q].used = FALSE /\ s[q].next = m
          /\ s[p].used = h.blk[p].used /\ s[p].next = q
          /\ \A o \in D \ {p} : s[o].used = h.blk[o].used /\ s[o].next = h.blk[o].next
      BY <3>b DEF IsCut
    <3>3. q >= p + Header /\ p < q
      BY <1>0, Constants DEF q
    <3> QED BY <1>0, <3>1, <3>2, <3>3, Constants
  <2>2. CASE ~(Room(h.blk, p) >= n + Header + MinAligned)
    <3>1. s = h.blk
      BY <2>2
    <3>2. m >= q
      BY <1>0, Constants DEF Room
    <3> HIDE DEF s
    <3> QED BY <1>0, <3>1, <3>2
  <2> QED BY <2>1, <2>2
<1> HIDE DEF s
<1>3. /\ Tiles(b) /\ DOMAIN b = DOMAIN s /\ b[p].used = TRUE
      /\ \A o \in DOMAIN s : b[o].next = s[o].next
      /\ \A o \in DOMAIN s \ {p} : b[o].used = s[o].used
  BY <1>0, <1>2, MarkTiles
<1> HIDE DEF b
<1> DEFINE I == {o \in DOMAIN b : o >= p /\ (~b[o].used \/ o = HeapEnd)}
           L == IF p # h.lfree THEN h.lfree ELSE Min(I)
<1>4. g = [blk |-> b, used |-> h.used + b[p].next - p, lfree |-> L]
  BY DEF Occupy, s, b
<1> HIDE DEF g, L
<1>5. g.blk = b /\ g.used = h.used + b[p].next - p /\ g.lfree = L /\ IsHeap(g)
  BY <1>4 DEF IsHeap
<1>6. \A o \in DOMAIN b : o \in Nat /\ b[o].used \in BOOLEAN
  BY <1>3, TilesFacts
<1>7. LowestOK(g)
  <2>1. CASE p # h.lfree
    <3>1. L = h.lfree /\ h.lfree \in D \ {p}
      BY <1>0, <2>1 DEF L, LowestOK
    <3> QED BY <1>0, <1>2, <1>3, <1>5, <3>1 DEF LowestOK
  <2>2. CASE p = h.lfree
    <3>1. HeapEnd \in I
      BY <1>0, <1>3, Constants DEF Tiles
    <3>2. I \in SUBSET Nat /\ I # {}
      BY <1>6, <3>1
    <3>3. Min(I) \in I
      BY <3>2, MinOfOffsets
    <3>4. L \in I
      BY <2>2, <3>3 DEF L
    <3> QED BY <1>5, <1>6, <3>4 DEF LowestOK
  <2> QED BY <2>1, <2>2
<1>8. UsedBlocks(b) = UsedBlocks(h.blk) \cup {p}
  BY <1>0, <1>2, <1>3 DEF UsedBlocks
<1>9. \A o \in UsedBlocks(h.blk) : o # p /\ o \in D /\ b[o].next = h.blk[o].next
  BY <1>2, <1>3 DEF UsedBlocks
<1>10. Alone(b)
  <2> SUFFICES ASSUME NEW o \in DOMAIN b \ {HeapEnd} PROVE b[o].used \/ b[b[o].next].used
    BY DEF Alone
  <2>1. CASE o = p
    BY <1>3, <2>1
  <2>2. CASE o \in D \ {p}
    <3>1. h.blk[o].next \in D /\ (h.blk[o].used \/ h.blk[h.blk[o].next].used)
      BY <1>0, <2>2 DEF Alone, Tiles
    <3>2. b[o].next = h.blk[o].next /\ b[o].used = h.blk[o].used
      BY <1>2, <1>3, <2>2
    <3> QED BY <1>2, <1>3, <3>1, <3>2
  <2>3. CASE o \in DOMAIN s \ D
    <3>1. b[o].next = m /\ m # p
      BY <1>0, <1>2, <1>3, <2>3
    <3> QED BY <1>0, <1>1, <1>2, <1>3, <3>1
  <2> QED BY <1>3, <2>1, <2>2, <2>3
<1>11. g.used = Cardinality(UsedCells(b))
  <2> DEFINE e == b[p].next
             C == UsedCells(h.blk)
  <2>1. e \in Nat /\ p <= e /\ e <= m
    BY <1>0, <1>2, <1>3
  <2>2. /\ IsFiniteSet(C) /\ Cardinality(C) \in Nat
        /\ \A c : c \in C <=> \E o \in UsedBlocks(h.blk) : c \in o..(h.blk[o].next - 1)
        /\ \A o \in UsedBlocks(h.blk) : (o..(h.blk[o].next - 1)) \cap (p..(m - 1)) = {}
    BY <1>0, <1>9, CellsFacts DEF UsedBlocks
  <2>3. C \cap (p..(e - 1)) = {}
    BY <1>0, <2>1, <2>2
  <2>4. \A c : c \in UsedCells(b) <=> \E o \in UsedBlocks(b) : c \in o..(b[o].next - 1)
    BY <1>3, CellsFacts
  <2>5. UsedCells(b) = C \cup (p..(e - 1))
    BY <1>8, <1>9, <2>2, <2>4
  <2>6. Cardinality(UsedCells(b)) = Cardinality(C) + (e - p)
    BY <1>0, <2>1, <2>2, <2>3, <2>5, CellsMore
  <2> QED BY <1>0, <1>5, <2>1, <2>2, <2>6
<1>12. Room(b, p) >= n
  BY <1>0, <1>2, <1>3, Constants DEF Room
<1>13. HeapOK(g)
  BY <1>3, <1>5, <1>7, <1>10, <1>11 DEF HeapOK
<1> QED
  BY <1>5, <1>8, <1>9, <1>12, <1>13 DEF g

LEMMA VacateFacts ==
    ASSUME NEW h, HeapOK(h), NEW p \in UsedBlocks(h.blk)
    PROVE  LET g == Vacate(h, p)
           IN  /\ HeapOK(g) /\ UsedBlocks(g.blk) = UsedBlocks(h.blk) \ {p}
               /\ \A o \in UsedBlocks(h.blk) \ {p} : g.blk[o].next = h.blk[o].next
               /\ g.lfree <= p
<1> DEFINE g == Vacate(h, p)
           D == DOMAIN h.blk
           m == h.blk[p].next
           b == [h.blk EXCEPT ![p].used = FALSE]
           L == IF p < h.lfree THEN p ELSE h.lfree
           C == UsedCells(h.blk)
           f == [blk |-> b, lfree |-> L, used |-> h.used - (m - p)]
<1>1. /\ Tiles(h.blk) /\ Alone(h.blk) /\ LowestOK(h) /\ h.used = Cardinality(C)
  BY DEF HeapOK
<1>2. /\ p \in D /\ p # HeapEnd /\ p \in Nat /\ m \in Nat /\ p < m /\ h.lfree \in Nat
      /\ h.lfree \in D
  <2>1. p \in D \ {HeapEnd} /\ h.lfree \in D
    BY <1>1 DEF UsedBlocks, LowestOK
  <2> QED BY <1>1, <2>1, TilesFacts
<1>3. /\ Tiles(b) /\ DOMAIN b = D /\ b[p].used = FALSE
      /\ \A o \in D : b[o].next = h.blk[o].next
      /\ \A o \in D \ {p} : b[o].used = h.blk[o].used
  BY <1>1, <1>2, MarkTiles
<1> HIDE DEF b
<1>4. UsedBlocks(b) = UsedBlocks(h.blk) \ {p}
  BY <1>3 DEF UsedBlocks
<1>5. Cardinality(UsedCells(b)) = h.used - (m - p)
  <2>1. /\ IsFiniteSet(C) /\ Cardinality(C) \in Nat
        /\ \A c : c \in C <=> \E o \in UsedBlocks(h.blk) : c \in o..(h.blk[o].next - 1)
        /\ \A o \in UsedBlocks(h.blk) \ {p} : (o..(h.blk[o].next - 1)) \cap (p..(m - 1)) = {}
    BY <1>1, <1>2, CellsFacts DEF UsedBlocks
  <2>2. p..(m - 1) \subseteq C
    BY <2>1
  <2>3. \A c : c \in UsedCells(b) <=> \E o \in UsedBlocks(b) : c \in o..(b[o].next - 1)
    BY <1>3, CellsFacts
  <2>4. \A o \in UsedBlocks(b) : o \in UsedBlocks(h.blk) \ {p} /\ b[o].next = h.blk[o].next
    BY <1>3, <1>4 DEF UsedBlocks
  <2> HIDE DEF C
  <2>5. UsedCells(b) = C \ (p..(m - 1))
    <3>1. ASSUME NEW c \in UsedCells(b) PROVE c \in C \ (p..(m - 1))
      <4>1. PICK o \in UsedBlocks(b) : c \in o..(b[o].next - 1)
        BY <2>3
      <4>2. o \in UsedBlocks(h.blk) \ {p} /\ c \in o..(h.blk[o].next - 1)
        BY <2>4, <4>1
      <4> QED BY <2>1, <4>2
    <3>2. ASSUME NEW c \in C, c \notin p..(m - 1) PROVE c \in UsedCells(b)
      <4>1. PICK o \in UsedBlocks(h.blk) : c \in o..(h.blk[o].next - 1)
        BY <2>1
      <4>2. o # p
        BY <3>2, <4>1
      <4>3. o \in UsedBlocks(b)
        BY <1>4, <4>2
      <4> QED BY <2>3, <2>4, <4>1, <4>3
    <3> QED BY <3>1, <3>2
  <2> QED BY <1>1, <1>2, <2>1, <2>2, <2>5, CellsLess
<1>6. IsHeap(f) /\ f.blk = b /\ f.lfree = L /\ f.used = h.used - (m - p)
  BY DEF IsHeap
<1>7. g = PlugHoles(f, p)
  BY DEF Vacate, b
<1>8. L \in D /\ L <= p /\ L \in Nat /\ (L = HeapEnd \/ b[L].used = FALSE)
  BY <1>1, <1>2, <1>3 DEF LowestOK
<1> HIDE DEF f, g, L
<1>9. LowestOK(f)
  BY <1>3, <1>6, <1>8 DEF LowestOK
<1>10. AloneBut(b, p)
  <2> SUFFICES ASSUME NEW o \in D \ {HeapEnd}
               PROVE  o = p \/ b[o].next = p \/ b[o].used \/ b[b[o].next].used
    BY <1>3 DEF AloneBut
  <2>1. h.blk[o].next \in D /\ (h.blk[o].used \/ h.blk[h.blk[o].next].used)
    BY <1>1 DEF Alone, Tiles
  <2> QED BY <1>3, <2>1
<1>11. /\ IsHeap(g) /\ Tiles(g.blk) /\ LowestOK(g) /\ Alone(g.blk)
       /\ g.used = f.used /\ g.lfree <= f.lfree /\ SameUsed(g.blk, f.blk)
  <2>1. p \in DOMAIN f.blk \ {HeapEnd} /\ f.blk[p].used = FALSE /\ AloneBut(f.blk, p) /\ Tiles(f.blk)
    BY <1>2, <1>3, <1>6, <1>10
  <2> QED BY <1>6, <1>7, <1>9, <2>1, PlugHolesFacts
<1>12. UsedCells(g.blk) = UsedCells(b)
  BY <1>6, <1>11, SameCells
<1>13. HeapOK(g)
  BY <1>5, <1>6, <1>11, <1>12 DEF HeapOK
<1>14. UsedBlocks(g.blk) = UsedBlocks(h.blk) \ {p}
  BY <1>4, <1>6, <1>11 DEF SameUsed
<1>15. \A o \in UsedBlocks(h.blk) \ {p} : g.blk[o].next = h.blk[o].next
  BY <1>3, <1>4, <1>6, <1>11 DEF SameUsed, UsedBlocks
<1>16. g.lfree <= p
  <2>1. g.lfree \in Nat
    BY <1>11, TilesFacts DEF LowestOK
  <2> QED BY <1>2, <1>6, <1>8, <1>11, <2>1
<1> QED
  BY <1>13, <1>14, <1>15, <1>16 DEF g

LEMMA TrimFacts ==
    ASSUME NEW h, HeapOK(h), NEW p \in UsedBlocks(h.blk), NEW n \in Nat,
           n + Header <= Room(h.blk, p)
    PROVE  LET g == Trim(h, p, n)
           IN  /\ HeapOK(g) /\ UsedBlocks(g.blk) = UsedBlocks(h.blk)
               /\ \A o \in UsedBlocks(h.blk) \ {p} : g.blk[o].next = h.blk[o].next
               /\ Room(g.blk, p) = n
<1> DEFINE g == Trim(h, p, n)
           D == DOMAIN h.blk
           m == h.blk[p].next
           q == p + Header + n
           b == Split(h.blk, p, n)
           C == UsedCells(h.blk)
           f == [h EXCEPT !.used = @ - (Room(h.blk, p) - n), !.blk = Split(@, p, n)]
<1>1. /\ Tiles(h.blk) /\ Alone(h.blk) /\ LowestOK(h) /\ h.used = Cardinality(C) /\ IsHeap(h)
  BY DEF HeapOK
<1>2. /\ p \in D /\ p # HeapEnd /\ p \in Nat /\ m \in Nat /\ p < m
      /\ h.lfree \in D /\ D \subseteq Nat /\ h.blk[p].used = TRUE
  <2>1. p \in D \ {HeapEnd} /\ h.lfree \in D
    BY <1>1 DEF UsedBlocks, LowestOK
  <2>2. h.blk[p].used \in BOOLEAN /\ h.blk[p].used
    BY <1>1, <2>1, TilesFacts DEF UsedBlocks
  <2> QED BY <1>1, <2>1, <2>2, TilesFacts
<1>3. q \in Nat /\ CutAt(h.blk, p, n, q) /\ q <= m /\ p < q /\ Room(h.blk, p) - n = m - q
      /\ q # HeapEnd
  <2>1. m <= HeapEnd
    BY <1>1, <1>2, TilesFacts
  <2> QED BY <1>2, <2>1, Constants DEF CutAt, Room
<1> HIDE DEF b
<1>5. IsHeap(f) /\ f.blk = b /\ f.lfree = h.lfree /\ f.used = h.used - (m - q)
  <2> DEFINE U == h.used - (Room(h.blk, p) - n)
  <2>1. f = [h EXCEPT !.used = U, !.blk = b]
    BY Zenon DEF b
  <2> HIDE DEF f, U
  <2>2. f = [blk |-> b, lfree |-> h.lfree, used |-> U]
    BY <1>1, <2>1 DEF IsHeap
  <2>3. U = h.used - (m - q)
    BY <1>3 DEF U
  <2> QED BY <2>2, <2>3 DEF IsHeap
<1>6. g = PlugHoles(f, q)
  BY DEF Trim
<1> HIDE DEF q
<1>4. IsCut(h.blk, p, q, b)
  BY <1>1, <1>2, <1>3, SplitTiles DEF b
<1>7. /\ Tiles(b) /\ q \notin D /\ DOMAIN b = D \cup {q}
      /\ b[q].used = FALSE /\ b[q].next = m /\ b[q].prev = p
      /\ b[p].used = TRUE /\ b[p].next = q
      /\ \A o \in D \ {p} : b[o].used = h.blk[o].used /\ b[o].next = h.blk[o].next
  BY <1>2, <1>4 DEF IsCut
<1> HIDE DEF f, g
<1>8. UsedBlocks(b) = UsedBlocks(h.blk)
  BY <1>2, <1>7 DEF UsedBlocks
<1>9. Cardinality(UsedCells(b)) = h.used - (m - q)
  <2>1. /\ IsFiniteSet(C) /\ Cardinality(C) \in Nat
        /\ \A c : c \in C <=> \E o \in UsedBlocks(h.blk) : c \in o..(h.blk[o].next - 1)
        /\ \A o \in UsedBlocks(h.blk) \ {p} : (o..(h.blk[o].next - 1)) \cap (p..(m - 1)) = {}
    BY <1>1, <1>2, CellsFacts DEF UsedBlocks
  <2>2. /\ q..(m - 1) \subseteq p..(m - 1) /\ p..(q - 1) = (p..(m - 1)) \ (q..(m - 1))
    BY <1>2, <1>3
  <2>3. \A c : c \in UsedCells(b) <=> \E o \in UsedBlocks(b) : c \in o..(b[o].next - 1)
    BY <1>7, CellsFacts
  <2>4. \A o \in UsedBlocks(b) \ {p} : b[o].next = h.blk[o].next
    BY <1>7, <1>8 DEF UsedBlocks
  <2>5. q..(m - 1) \subseteq C
    BY <2>1, <2>2
  <2> HIDE DEF C
  <2>6. UsedCells(b) = C \ (q..(m - 1))
    <3>1. ASSUME NEW c \in UsedCells(b) PROVE c \in C \ (q..(m - 1))
      <4>1. PICK o \in UsedBlocks(b) : c \in o..(b[o].next - 1)
        BY <2>3
      <4>2. CASE o = p
        BY <1>7, <2>1, <2>2, <4>1, <4>2
      <4>3. CASE o # p
        BY <1>8, <2>1, <2>2, <2>4, <4>1, <4>3
      <4> QED BY <4>2, <4>3
    <3>2. ASSUME NEW c \in C, c \notin q..(m - 1) PROVE c \in UsedCells(b)
      <4>1. PICK o \in UsedBlocks(h.blk) : c \in o..(h.blk[o].next - 1)
        BY <2>1
      <4>2. CASE o = p
        BY <1>7, <1>8, <2>2, <2>3, <3>2, <4>1, <4>2
      <4>3. CASE o # p
        BY <1>8, <2>3, <2>4, <4>1, <4>3
      <4> QED BY <4>2, <4>3
    <3> QED BY <3>1, <3>2
  <2> QED BY <1>1, <1>2, <1>3, <2>1, <2>5, <2>6, CellsLess
<1>10. LowestOK(f)
  BY <1>1, <1>2, <1>5, <1>7 DEF LowestOK
<1>11. AloneBut(b, q)
  <2> SUFFICES ASSUME NEW o \in DOMAIN b \ {HeapEnd}, o # q
               PROVE  b[o].used \/ b[b[o].next].used
    BY DEF AloneBut
  <2>1. CASE o = p
    BY <1>7, <2>1
  <2>2. CASE o # p
    <3>1. o \in D \ {p, HeapEnd}
      BY <1>7, <2>2
    <3>2. h.blk[o].next \in D /\ (h.blk[o].used \/ h.blk[h.blk[o].next].used)
      BY <1>1, <3>1 DEF Alone, Tiles
    <3> QED BY <1>7, <3>1, <3>2
  <2> QED BY <2>1, <2>2
<1>12. /\ IsHeap(g) /\ Tiles(g.blk) /\ LowestOK(g) /\ Alone(g.blk)
       /\ g.used = f.used /\ SameUsed(g.blk, f.blk)
  <2>1. q \in DOMAIN f.blk \ {HeapEnd} /\ f.blk[q].used = FALSE /\ AloneBut(f.blk, q) /\ Tiles(f.blk)
    BY <1>3, <1>5, <1>7, <1>11
  <2> QED BY <1>5, <1>6, <1>10, <2>1, PlugHolesFacts
<1>13. UsedCells(g.blk) = UsedCells(b)
  BY <1>5, <1>12, SameCells
<1>14. HeapOK(g)
  BY <1>5, <1>9, <1>12, <1>13 DEF HeapOK
<1>15. UsedBlocks(g.blk) = UsedBlocks(h.blk) /\ \A o \in UsedBlocks(h.blk) : g.blk[o].next = b[o].next
  BY <1>5, <1>8, <1>12 DEF SameUsed
<1>16. \A o \in UsedBlocks(h.blk) \ {p} : g.blk[o].next = h.blk[o].next
  BY <1>7, <1>15 DEF UsedBlocks
<1>17. Room(g.blk, p) = n
  BY <1>2, <1>7, <1>15, Constants DEF Room, q
<1> QED
  BY <1>14, <1>15, <1>16, <1>17 DEF g

-----------------------------------------------------------------------------
(* Sizes.                                                                  *)

LEMMA DivFacts ==
    ASSUME NEW a \in Nat, NEW b \in Nat \ {0}
    PROVE  /\ a \div b \in Nat
           /\ (a \div b) * b <= a
           /\ a < (a \div b) * b + b
  OBVIOUS
LEMMA DivUnique ==
    ASSUME NEW q \in Nat, NEW b \in Nat \ {0}, NEW r \in 0..(b-1)
    PROVE  (q * b + r) \div b = q
  OBVIOUS
LEMMA RoundFacts ==
    ASSUME NEW n \in Nat
    PROVE  RoundUp(n) \in Nat /\ n <= RoundUp(n)
<1>1. /\ (n + Align - 1) \div Align \in Nat
      /\ n + Align - 1 < ((n + Align - 1) \div Align) * Align + Align
  <2> DEFINE a == n + Align - 1
  <2>1. a \in Nat BY SmallMemAssumption
  <2> HIDE DEF a
  <2>2. a \div Align \in Nat /\ a < (a \div Align) * Align + Align
    BY <2>1, SmallMemAssumption, DivFacts
  <2> QED BY <2>2 DEF a
<1> QED BY <1>1, SmallMemAssumption DEF RoundUp
LEMMA RoundTwice ==
    ASSUME NEW n \in Nat
    PROVE  RoundUp(RoundUp(n)) = RoundUp(n)
<1> DEFINE q == (n + Align - 1) \div Align
<1>1. q \in Nat
  <2> DEFINE a == n + Align - 1
  <2>1. a \in Nat BY SmallMemAssumption
  <2> HIDE DEF a
  <2>2. a \div Align \in Nat
    BY <2>1, SmallMemAssumption, DivFacts
  <2> QED BY <2>2 DEF a
<1>2. RoundUp(n) = q * Align BY DEF RoundUp
<1> HIDE DEF q
<1>3. (q * Align + (Align - 1)) \div Align = q
  BY <1>1, DivUnique, SmallMemAssumption
<1>4. q * Align \in Nat BY <1>1, SmallMemAssumption
<1>5. q * Align + Align - 1 = q * Align + (Align - 1) BY <1>4, SmallMemAssumption
<1> QED BY <1>2, <1>3, <1>5 DEF RoundUp

LEMMA DataFacts ==
    /\ MinAligned \in Nat
    /\ \A n \in Nat : /\ RoundUp(n) \in Nat /\ n <= RoundUp(n)
                      /\ Data(n) \in Nat /\ n <= Data(n) /\ Data(RoundUp(n)) = Data(n)
<1>1. MinAligned \in Nat
  BY RoundFacts, SmallMemAssumption DEF MinAligned
<1>2. ASSUME NEW n \in Nat
      PROVE  /\ RoundUp(n) \in Nat /\ n <= RoundUp(n) /\ Data(n) \in Nat /\ n <= Data(n)
             /\ Data(RoundUp(n)) = Data(n)
  <2>1. RoundUp(n) \in Nat /\ n <= RoundUp(n) /\ RoundUp(RoundUp(n)) = RoundUp(n)
    BY RoundFacts, RoundTwice
  <2> QED BY <1>1, <2>1 DEF Data
<1> QED
  BY <1>1, <1>2

(* rt_malloc finds a free block that is large enough.                      *)
LEMMA PlaceFacts ==
    ASSUME HeapOK(heap), NEW n \in Nat, Fitting(heap, Data(n)) # {}
    PROVE  /\ Place(n) \in DOMAIN heap.blk \ {HeapEnd} /\ heap.blk[Place(n)].used = FALSE
           /\ Room(heap.blk, Place(n)) >= Data(n)
<1> DEFINE F == Fitting(heap, Data(n))
<1>1. Tiles(heap.blk) /\ \A o \in DOMAIN heap.blk : o \in Nat /\ heap.blk[o].used \in BOOLEAN
  BY TilesFacts DEF HeapOK
<1>2. F \in SUBSET Nat
  BY <1>1 DEF Fitting
<1>3. Place(n) \in F
  BY <1>2, MinOfOffsets DEF Place
<1>4. /\ Place(n) \in DOMAIN heap.blk /\ Place(n) < MemSize - Data(n)
      /\ ~heap.blk[Place(n)].used /\ Room(heap.blk, Place(n)) >= Data(n)
  BY <1>3 DEF Fitting
<1>5. Place(n) # HeapEnd
  BY <1>1, <1>4, DataFacts, Constants
<1> QED
  BY <1>1, <1>4, <1>5

-----------------------------------------------------------------------------
(* The blocks threads hold.                                                *)

(* With the headers blk and the holdings w: each held block is used, large *)
(* enough and held once, and every used block is held.                     *)
Owned(blk, w) ==
    /\ w \in [User -> SUBSET (Nat \X Sizes)]
    /\ \A t \in User : \A b \in w[t] : b[1] \in UsedBlocks(blk) /\ Room(blk, b[1]) >= b[2]
    /\ \A o \in UsedBlocks(blk) : \E t \in User : \E b \in w[t] : b[1] = o
    /\ \A t, u \in User : \A b \in w[t], c \in w[u] : b[1] = c[1] => t = u /\ b = c

LEMMA OwnedMore ==
    ASSUME NEW a, NEW blk, NEW w, Owned(a, w), NEW t \in User, NEW p \in Nat, NEW n \in Sizes,
           p \notin UsedBlocks(a), UsedBlocks(blk) = UsedBlocks(a) \cup {p},
           \A o \in UsedBlocks(a) : blk[o].next = a[o].next,
           Room(blk, p) >= n
    PROVE  Owned(blk, [w EXCEPT ![t] = @ \cup {<< p, n >>}])
<1> DEFINE v == [w EXCEPT ![t] = @ \cup {<< p, n >>}]
           e == << p, n >>
<1>1. e \in Nat \X Sizes /\ e[1] = p /\ e[2] = n
  OBVIOUS
<1>2. w \in [User -> SUBSET (Nat \X Sizes)]
  BY DEF Owned
<1> HIDE DEF e
<1>3. \A u \in User : v[u] = IF u = t THEN w[u] \cup {e} ELSE w[u]
  BY <1>2 DEF e
<1>4. v \in [User -> SUBSET (Nat \X Sizes)]
  BY <1>1, <1>2 DEF e
<1> HIDE DEF v
<1>5. ASSUME NEW u \in User, NEW b \in v[u]
      PROVE  b[1] \in UsedBlocks(blk) /\ Room(blk, b[1]) >= b[2]
  <2>1. CASE b = e
    BY <1>1, <2>1
  <2>2. CASE b # e
    <3>1. b \in w[u]
      BY <1>3, <2>2
    <3> QED BY <3>1 DEF Owned, Room
  <2> QED BY <2>1, <2>2
<1>6. ASSUME NEW o \in UsedBlocks(blk) PROVE \E u \in User : \E b \in v[u] : b[1] = o
  <2>1. CASE o = p
    BY <1>1, <1>3, <2>1
  <2>2. CASE o # p
    <3>1. PICK u \in User : \E b \in w[u] : b[1] = o
      BY <2>2 DEF Owned
    <3> QED BY <1>3, <3>1
  <2> QED BY <2>1, <2>2
<1>7. ASSUME NEW u \in User, NEW x \in User, NEW b \in v[u], NEW c \in v[x], b[1] = c[1]
      PROVE  u = x /\ b = c
  <2>1. ASSUME NEW y \in User, NEW d \in v[y] PROVE (d = e /\ y = t) \/ (d \in w[y] /\ d[1] # p)
    <3>1. (d = e /\ y = t) \/ d \in w[y]
      BY <1>3
    <3>2. d \in w[y] => d[1] \in UsedBlocks(a)
      BY DEF Owned
    <3> QED BY <3>1, <3>2
  <2> QED BY <1>1, <1>7, <2>1 DEF Owned
<1> QED
  BY <1>4, <1>5, <1>6, <1>7 DEF Owned, v

LEMMA OwnedLess ==
    ASSUME NEW a, NEW blk, NEW w, Owned(a, w), NEW t \in User, NEW e \in w[t],
           UsedBlocks(blk) = UsedBlocks(a) \ {e[1]},
           \A o \in UsedBlocks(a) \ {e[1]} : blk[o].next = a[o].next
    PROVE  Owned(blk, [w EXCEPT ![t] = @ \ {e}])
<1> DEFINE v == [w EXCEPT ![t] = @ \ {e}]
<1>2. w \in [User -> SUBSET (Nat \X Sizes)]
  BY DEF Owned
<1>3. \A u \in User : v[u] = IF u = t THEN w[u] \ {e} ELSE w[u]
  BY <1>2
<1>4. v \in [User -> SUBSET (Nat \X Sizes)]
  BY <1>2
<1> HIDE DEF v
<1>5. ASSUME NEW u \in User, NEW b \in v[u] PROVE b \in w[u] /\ b[1] # e[1]
  <2>1. b \in w[u] /\ (u # t \/ b # e)
    BY <1>3
  <2> QED BY <2>1 DEF Owned
<1>6. ASSUME NEW o \in UsedBlocks(blk) PROVE \E u \in User : \E b \in v[u] : b[1] = o
  <2>1. PICK u \in User : \E b \in w[u] : b[1] = o
    BY DEF Owned
  <2> QED BY <1>3, <2>1
<1>7. ASSUME NEW u \in User, NEW b \in v[u]
      PROVE  b[1] \in UsedBlocks(blk) /\ Room(blk, b[1]) >= b[2]
  BY <1>5 DEF Owned, Room
<1>8. \A u, x \in User : \A b \in v[u], c \in v[x] : b[1] = c[1] => u = x /\ b = c
  BY <1>5 DEF Owned
<1> QED
  BY <1>4, <1>6, <1>7, <1>8 DEF Owned, v

LEMMA OwnedSame ==
    ASSUME NEW a, NEW blk, NEW w, Owned(a, w), NEW t \in User, NEW e \in w[t], NEW n \in Sizes,
           UsedBlocks(blk) = UsedBlocks(a),
           \A o \in UsedBlocks(a) \ {e[1]} : blk[o].next = a[o].next,
           Room(blk, e[1]) >= n
    PROVE  Owned(blk, [w EXCEPT ![t] = (@ \ {e}) \cup {<< e[1], n >>}])
<1> DEFINE d == << e[1], n >>
           v == [w EXCEPT ![t] = (@ \ {e}) \cup {d}]
<1>2. w \in [User -> SUBSET (Nat \X Sizes)]
  BY DEF Owned
<1>1. d \in Nat \X Sizes /\ d[1] = e[1] /\ d[2] = n
  <2>1. e \in Nat \X Sizes
    BY <1>2
  <2> QED BY <2>1
<1> HIDE DEF d
<1>3. \A u \in User : v[u] = IF u = t THEN (w[u] \ {e}) \cup {d} ELSE w[u]
  BY <1>2
<1>4. v \in [User -> SUBSET (Nat \X Sizes)]
  BY <1>1, <1>2
<1> HIDE DEF v
<1>5. ASSUME NEW u \in User, NEW b \in v[u] PROVE (u = t /\ b = d) \/ (b \in w[u] /\ b[1] # e[1])
  <2>1. (u = t /\ b = d) \/ (b \in w[u] /\ (u # t \/ b # e))
    BY <1>3
  <2> QED BY <2>1 DEF Owned
<1>6. ASSUME NEW o \in UsedBlocks(blk) PROVE \E u \in User : \E b \in v[u] : b[1] = o
  <2>0. PICK u \in User : \E b \in w[u] : b[1] = o
    BY DEF Owned
  <2>1. PICK b \in w[u] : b[1] = o
    BY <2>0
  <2>2. CASE u = t /\ b = e
    BY <1>1, <1>3, <2>1, <2>2
  <2>3. CASE ~(u = t /\ b = e)
    BY <1>3, <2>1, <2>3
  <2> QED BY <2>2, <2>3
<1>7. ASSUME NEW u \in User, NEW b \in v[u]
      PROVE  b[1] \in UsedBlocks(blk) /\ Room(blk, b[1]) >= b[2]
  <2>1. CASE b = d
    BY <1>1, <2>1 DEF Owned
  <2>2. CASE b \in w[u] /\ b[1] # e[1]
    BY <2>2 DEF Owned, Room
  <2> QED BY <1>5, <2>1, <2>2
<1>8. \A u, x \in User : \A b \in v[u], c \in v[x] : b[1] = c[1] => u = x /\ b = c
  BY <1>1, <1>5 DEF Owned
<1>9. Owned(blk, v)
  BY <1>4, <1>6, <1>7, <1>8 DEF Owned
<1> QED
  BY <1>9 DEF v, d

-----------------------------------------------------------------------------
(* The invariant.                                                          *)

(* A thread inside rt_realloc still holds the old block.                   *)
Moves ==
    /\ moving = [t \in User |-> moving[t]]
    /\ \A t \in User :
         \/ moving[t] = << >>
         \/ \E b \in own[t] : \E n \in Sizes :
              moving[t] = << b, n >> \/ \E p \in Nat : moving[t] = << b, n, p >>

HeapInv ==
    /\ HeapOK(heap) /\ Owned(heap.blk, own) /\ Moves
    /\ (\A t \in User : own[t] = {}) => heap.lfree = 0

(* What a step does to the holdings.                                       *)
Obtains(t, p, n) ==
    p \notin UsedBlocks(heap.blk) /\ own' = [own EXCEPT ![t] = @ \cup {<< p, n >>}]
Returns(t, b) == b \in own[t] /\ own' = [own EXCEPT ![t] = @ \ {b}]
Resizes(t, b, n) ==
    b \in own[t] /\ own' = [own EXCEPT ![t] = (@ \ {b}) \cup {<< b[1], n >>}]

Effect ==
    \/ own' = own
    \/ \E t \in User : \/ \E p \in Nat : \E n \in Sizes : Obtains(t, p, n)
                       \/ \E b \in own[t] : Returns(t, b)
                       \/ \E b \in own[t] : \E n \in Sizes : Resizes(t, b, n)

(* A heap without used blocks is one block.                                *)
LEMMA NothingUsed ==
    ASSUME NEW h, HeapOK(h), UsedBlocks(h.blk) = {}
    PROVE  DOMAIN h.blk = {0, HeapEnd} /\ h.lfree \in {0, HeapEnd}
<1>1. Tiles(h.blk) /\ Alone(h.blk) /\ h.lfree \in DOMAIN h.blk
  BY DEF HeapOK, LowestOK
<1>2. \A o \in DOMAIN h.blk \ {HeapEnd} : ~h.blk[o].used
  BY DEF UsedBlocks
<1>3. 0 \in DOMAIN h.blk \ {HeapEnd} /\ HeapEnd \in DOMAIN h.blk
  BY <1>1, Constants DEF Tiles
<1>4. h.blk[0].next = HeapEnd
  BY <1>1, <1>2, <1>3 DEF Tiles, Alone
<1>5. ASSUME NEW o \in DOMAIN h.blk PROVE o = 0 \/ o = HeapEnd
  <2>1. o \in Nat /\ o <= HeapEnd /\ (o <= 0 \/ HeapEnd <= o)
    BY <1>1, <1>3, <1>4, TilesFacts DEF Tiles
  <2> QED BY <2>1, Constants
<1> QED
  BY <1>1, <1>3, <1>5

LEMMA HeapInvInit == HeapInit => HeapInv
<1> SUFFICES ASSUME HeapInit PROVE HeapInv
  OBVIOUS
<1> DEFINE blk == [o \in {0, HeapEnd} |-> [used |-> o = HeapEnd, next |-> HeapEnd, prev |-> o]]
<1>1. heap = [blk |-> blk, lfree |-> 0, used |-> 0]
  BY DEF HeapInit
<1>2. /\ DOMAIN blk = {0, HeapEnd} /\ blk[0] = [used |-> FALSE, next |-> HeapEnd, prev |-> 0]
      /\ blk[HeapEnd] = [used |-> TRUE, next |-> HeapEnd, prev |-> HeapEnd]
  BY Constants
<1>3. blk \in [DOMAIN blk -> Hdr]
  BY Constants DEF Hdr
<1> HIDE DEF blk
<1>4. IsHeap(heap) /\ heap.blk = blk /\ heap.lfree = 0 /\ heap.used = 0
  BY <1>1 DEF IsHeap
<1>5. Tiles(blk)
  BY <1>2, <1>3, Constants DEF Tiles
<1>6. UsedBlocks(blk) = {}
  BY <1>2 DEF UsedBlocks
<1>7. UsedCells(blk) = {} /\ Cardinality({}) = 0
  BY <1>5, <1>6, CellsFacts, FS_EmptySet
<1>8. HeapOK(heap)
  BY <1>2, <1>4, <1>5, <1>7 DEF HeapOK, Alone, LowestOK
<1>9. own = [t \in User |-> {}] /\ moving = [t \in User |-> << >>]
  BY DEF HeapInit
<1>10. Owned(heap.blk, own)
  BY <1>4, <1>6, <1>9 DEF Owned
<1>11. Moves
  BY <1>9 DEF Moves
<1> QED
  BY <1>4, <1>8, <1>10, <1>11 DEF HeapInv

(* rt_malloc's section.                                                    *)
LEMMA GetStep ==
    ASSUME HeapInv, NEW t \in User, NEW n \in Sizes, Fitting(heap, Data(n)) # {},
           heap' = Occupy(heap, Place(n), Data(n)),
           own' = [own EXCEPT ![t] = @ \cup {<< Place(n), n >>}]
    PROVE  /\ HeapOK(heap') /\ Owned(heap.blk, own)' /\ Place(n) \in Nat /\ Obtains(t, Place(n), n)
           /\ own'[t] # {}
<1> DEFINE p == Place(n)
           a == heap.blk
           g == Occupy(heap, p, Data(n))
<1>1. HeapOK(heap) /\ Owned(a, own) /\ n \in Nat
  BY SmallMemAssumption DEF HeapInv
<1>2. p \in DOMAIN a \ {HeapEnd} /\ a[p].used = FALSE /\ Room(a, p) >= Data(n)
  BY <1>1, PlaceFacts
<1>3. Data(n) \in Nat /\ n <= Data(n) /\ MinAligned \in Nat
  BY <1>1, DataFacts
<1> HIDE DEF p
<1>4. /\ HeapOK(g) /\ UsedBlocks(g.blk) = UsedBlocks(a) \cup {p}
      /\ \A o \in UsedBlocks(a) : g.blk[o].next = a[o].next
      /\ Room(g.blk, p) >= Data(n)
  BY <1>1, <1>2, <1>3, OccupyFacts
<1>5. p \in Nat /\ p \notin UsedBlocks(a)
  BY <1>1, <1>2, TilesFacts DEF HeapOK, UsedBlocks
<1>6. p \in DOMAIN g.blk /\ g.blk[p].next \in Nat
  BY <1>4, TilesFacts DEF HeapOK, UsedBlocks
<1>7. Room(g.blk, p) >= n
  BY <1>1, <1>3, <1>4, <1>5, <1>6, Constants DEF Room
<1> HIDE DEF g
<1>8. Owned(g.blk, [own EXCEPT ![t] = @ \cup {<< p, n >>}])
  BY <1>1, <1>4, <1>5, <1>7, OwnedMore
<1>9. heap' = g /\ own' = [own EXCEPT ![t] = @ \cup {<< p, n >>}]
  BY DEF g, p
<1>10. Owned(heap.blk, own)'
  BY <1>8, <1>9
<1>11. own'[t] # {}
  <2>1. own \in [User -> SUBSET (Nat \X Sizes)]
    BY <1>1 DEF Owned
  <2>2. << p, n >> \in own'[t]
    BY <1>9, <2>1
  <2> QED BY <2>2
<1> QED
  BY <1>4, <1>5, <1>9, <1>10, <1>11 DEF Obtains, p

(* rt_free's section.                                                      *)
LEMMA PutStep ==
    ASSUME HeapInv, NEW t \in User, NEW b \in own[t],
           heap' = Vacate(heap, b[1]), own' = [own EXCEPT ![t] = @ \ {b}]
    PROVE  /\ HeapOK(heap') /\ Owned(heap.blk, own)' /\ Returns(t, b)
           /\ (\A u \in User : own'[u] = {}) => heap'.lfree = 0
<1> DEFINE p == b[1]
           a == heap.blk
           g == Vacate(heap, p)
<1>1. HeapOK(heap) /\ Owned(a, own)
  BY DEF HeapInv
<1>2. p \in UsedBlocks(a)
  BY <1>1 DEF Owned
<1>3. /\ HeapOK(g) /\ UsedBlocks(g.blk) = UsedBlocks(a) \ {p}
      /\ \A o \in UsedBlocks(a) \ {p} : g.blk[o].next = a[o].next
      /\ g.lfree <= p
  BY <1>1, <1>2, VacateFacts
<1> HIDE DEF g
<1>4. Owned(g.blk, [own EXCEPT ![t] = @ \ {b}])
  BY <1>1, <1>3, OwnedLess
<1>5. heap' = g
  BY DEF g
<1>6. Owned(heap.blk, own)'
  BY <1>4, <1>5
<1>7. ASSUME \A u \in User : own'[u] = {} PROVE g.lfree = 0
  <2>1. UsedBlocks(g.blk) = {}
    BY <1>5, <1>6, <1>7 DEF Owned
  <2>2. g.lfree \in {0, HeapEnd}
    BY <1>3, <2>1, NothingUsed
  <2>3. p \in Nat /\ p < HeapEnd
    <3>1. Tiles(a) /\ p \in DOMAIN a \ {HeapEnd}
      BY <1>1, <1>2 DEF HeapOK, UsedBlocks
    <3> QED BY <3>1, TilesFacts, Constants
  <2> QED BY <1>3, <2>2, <2>3, Constants
<1> QED
  BY <1>3, <1>5, <1>6, <1>7 DEF Returns

LEMMA OwnIsFunction ==
    ASSUME HeapInv
    PROVE  own \in [User -> SUBSET (Nat \X Sizes)]
  BY DEF HeapInv, Owned

LEMMA MallocStep ==
    ASSUME HeapInv, NEW t \in User, NEW n \in Sizes, Malloc(t, n)
    PROVE  HeapInv' /\ Effect
<1>1. /\ HeapOK(heap') /\ Owned(heap.blk, own)' /\ Place(n) \in Nat /\ Obtains(t, Place(n), n)
      /\ own'[t] # {}
  <2>1. Fitting(heap, Data(n)) # {}
    BY DEF Malloc, CanAlloc
  <2> QED BY <2>1, GetStep DEF Malloc
<1>2. Moves'
  <2>1. moving[t] = << >> /\ moving' = moving /\ \A u \in User \ {t} : own'[u] = own[u]
    BY OwnIsFunction DEF Malloc
  <2> QED BY <2>1 DEF HeapInv, Moves
<1>3. Effect
  BY <1>1 DEF Effect
<1> QED
  BY <1>1, <1>2, <1>3 DEF HeapInv

LEMMA FreeStep ==
    ASSUME HeapInv, NEW t \in User, NEW b \in own[t], Free(t, b)
    PROVE  HeapInv' /\ Effect
<1>1. /\ HeapOK(heap') /\ Owned(heap.blk, own)' /\ Returns(t, b)
      /\ (\A u \in User : own'[u] = {}) => heap'.lfree = 0
  BY PutStep DEF Free
<1>2. Moves'
  <2>1. moving[t] = << >> /\ moving' = moving /\ \A u \in User \ {t} : own'[u] = own[u]
    BY OwnIsFunction DEF Free
  <2> QED BY <2>1 DEF HeapInv, Moves
<1>3. Effect
  BY <1>1 DEF Effect
<1> QED
  BY <1>1, <1>2, <1>3 DEF HeapInv

LEMMA ReallocStep ==
    ASSUME HeapInv, NEW t \in User, NEW b \in own[t], NEW n \in Sizes, Realloc(t, b, n)
    PROVE  HeapInv' /\ Effect
<1> DEFINE size == Room(heap.blk, b[1])
           new == RoundUp(n)
<1>1. HeapOK(heap) /\ Owned(heap.blk, own) /\ Moves /\ b[1] \in UsedBlocks(heap.blk)
  BY DEF HeapInv, Owned
<1>2. n \in Nat /\ new \in Nat /\ n <= new
  BY SmallMemAssumption, DataFacts
<1>3. size \in Int
  <2>1. b[1] \in DOMAIN heap.blk /\ Tiles(heap.blk)
    BY <1>1 DEF HeapOK, UsedBlocks
  <2> QED BY <2>1, TilesFacts, Constants DEF Room
<1>4. moving[t] = << >> /\ own \in [User -> SUBSET (Nat \X Sizes)]
  BY <1>1 DEF Realloc, Owned
<1>5. ASSUME own' = [own EXCEPT ![t] = (@ \ {b}) \cup {<< b[1], n >>}], moving' = moving
      PROVE  Moves' /\ Effect /\ own'[t] # {}
  <2>1. \A u \in User \ {t} : own'[u] = own[u]
    BY <1>4, <1>5
  <2>2. << b[1], n >> \in own'[t]
    BY <1>4, <1>5
  <2>3. Moves'
    BY <1>1, <1>4, <1>5, <2>1 DEF Moves
  <2>4. Resizes(t, b, n)
    BY <1>5 DEF Resizes
  <2> QED BY <2>2, <2>3, <2>4 DEF Effect
<1>6. CASE /\ size = new /\ UNCHANGED << heap, moving >>
           /\ own' = [own EXCEPT ![t] = (@ \ {b}) \cup {<< b[1], n >>}]
  <2>1. Room(heap.blk, b[1]) >= n
    BY <1>2, <1>6
  <2>2. Owned(heap.blk, [own EXCEPT ![t] = (@ \ {b}) \cup {<< b[1], n >>}])
    BY <1>1, <2>1, OwnedSame
  <2>3. HeapOK(heap') /\ Owned(heap.blk, own)'
    BY <1>1, <1>6, <2>2
  <2> QED BY <1>5, <1>6, <2>3 DEF HeapInv
<1>7. CASE /\ new + Header + MinSize < size /\ heap' = Trim(heap, b[1], new)
           /\ own' = [own EXCEPT ![t] = (@ \ {b}) \cup {<< b[1], n >>}]
           /\ UNCHANGED moving
  <2> DEFINE g == Trim(heap, b[1], new)
  <2>1. new + Header <= Room(heap.blk, b[1])
    BY <1>2, <1>3, <1>7, Constants
  <2>2. /\ HeapOK(g) /\ UsedBlocks(g.blk) = UsedBlocks(heap.blk)
        /\ \A o \in UsedBlocks(heap.blk) \ {b[1]} : g.blk[o].next = heap.blk[o].next
        /\ Room(g.blk, b[1]) = new
    BY <1>1, <1>2, <2>1, TrimFacts
  <2> HIDE DEF g
  <2>3. Room(g.blk, b[1]) >= n
    BY <1>2, <2>2
  <2>4. Owned(g.blk, [own EXCEPT ![t] = (@ \ {b}) \cup {<< b[1], n >>}])
    BY <1>1, <2>2, <2>3, OwnedSame
  <2>5. HeapOK(heap') /\ Owned(heap.blk, own)'
    BY <1>7, <2>2, <2>4 DEF g
  <2> QED BY <1>5, <1>7, <2>5 DEF HeapInv
<1>8. CASE moving' = [moving EXCEPT ![t] = << b, n >>] /\ UNCHANGED << heap, own >>
  <2>1. moving' = [u \in User |-> moving'[u]] /\ moving'[t] = << b, n >>
        /\ \A u \in User \ {t} : moving'[u] = moving[u]
    BY <1>1, <1>8 DEF Moves
  <2>2. Moves'
    BY <1>1, <1>8, <2>1 DEF Moves
  <2> QED BY <1>1, <1>8, <2>2 DEF HeapInv, Effect
<1> QED
  BY <1>6, <1>7, <1>8 DEF Realloc

LEMMA AppendThird ==
    ASSUME NEW x, NEW y, NEW z
    PROVE  Append(<< x, y >>, z) = << x, y, z >>
<1>1. Append(<< x, y >>, z) = [i \in 1..3 |-> IF i = 3 THEN z ELSE << x, y >>[i]]
  OBVIOUS
<1>2. \A i \in 1..3 : (IF i = 3 THEN z ELSE << x, y >>[i]) = << x, y, z >>[i]
  OBVIOUS
<1>3. << x, y, z >> = [i \in 1..3 |-> << x, y, z >>[i]]
  OBVIOUS
<1> QED
  BY <1>1, <1>2, <1>3

LEMMA ReallocGetStep ==
    ASSUME HeapInv, NEW t \in User, ReallocGet(t)
    PROVE  HeapInv' /\ Effect
<1>1. Moves /\ own \in [User -> SUBSET (Nat \X Sizes)]
  BY OwnIsFunction DEF HeapInv
<1>2. PICK b \in own[t] : \E n \in Sizes : moving[t] = << b, n >>
  <2>1. Len(moving[t]) = 2
    BY DEF ReallocGet
  <2>2. \A b, n, p : Len(<< b, n, p >>) = 3
    OBVIOUS
  <2>3. Len(<< >>) = 0
    OBVIOUS
  <2> QED BY <1>1, <2>1, <2>2, <2>3 DEF Moves
<1>3. PICK n \in Sizes : moving[t] = << b, n >>
  BY <1>2
<1>4. moving[t][2] = n /\ n \in Nat
  BY <1>3, SmallMemAssumption
<1>5. CASE /\ CanAlloc(RoundUp(n)) /\ heap' = Occupy(heap, Place(n), Data(n))
           /\ own' = [own EXCEPT ![t] = @ \cup {<< Place(n), n >>}]
           /\ moving' = [moving EXCEPT ![t] = Append(@, Place(n))]
  <2>1. Fitting(heap, Data(n)) # {}
    BY <1>4, <1>5, DataFacts DEF CanAlloc
  <2>2. /\ HeapOK(heap') /\ Owned(heap.blk, own)' /\ Place(n) \in Nat /\ Obtains(t, Place(n), n)
        /\ own'[t] # {}
    BY <1>5, <2>1, GetStep
  <2>3. /\ moving' = [u \in User |-> moving'[u]] /\ moving'[t] = << b, n, Place(n) >>
        /\ \A u \in User \ {t} : moving'[u] = moving[u] /\ own'[u] = own[u]
        /\ b \in own'[t]
    <3>1. moving'[t] = Append(<< b, n >>, Place(n))
      BY <1>1, <1>3, <1>5 DEF Moves
    <3>2. Append(<< b, n >>, Place(n)) = << b, n, Place(n) >>
      BY AppendThird
    <3>3. moving' = [u \in User |-> moving'[u]] /\ \A u \in User \ {t} : moving'[u] = moving[u]
      BY <1>1, <1>5 DEF Moves
    <3>4. own'[t] = own[t] \cup {<< Place(n), n >>} /\ \A u \in User \ {t} : own'[u] = own[u]
      BY <1>1, <1>5
    <3> QED BY <3>1, <3>2, <3>3, <3>4
  <2>4. Moves'
    <3> DEFINE Good(u) == \/ moving'[u] = << >>
                          \/ \E c \in own'[u] : \E m \in Sizes :
                               moving'[u] = << c, m >> \/ \E p \in Nat : moving'[u] = << c, m, p >>
    <3>1. Good(t)
      <4>1. \E m \in Sizes : \E p \in Nat : moving'[t] = << b, m, p >>
        BY <2>2, <2>3, Zenon
      <4>2. b \in own'[t]
        BY <2>3
      <4>3. \E c \in own'[t] : \E m \in Sizes : \E p \in Nat : moving'[t] = << c, m, p >>
        BY <4>1, <4>2, Zenon
      <4> QED BY <4>3, Zenon
    <3>2. ASSUME NEW u \in User \ {t} PROVE Good(u)
      <4>1. moving'[u] = moving[u] /\ own'[u] = own[u]
        BY <2>3
      <4>2. \/ moving[u] = << >>
            \/ \E c \in own[u] : \E m \in Sizes :
                 moving[u] = << c, m >> \/ \E p \in Nat : moving[u] = << c, m, p >>
        BY <1>1, Zenon DEF Moves
      <4> QED BY <4>1, <4>2
    <3>3. \A u \in User : Good(u)
      <4> HIDE DEF Good
      <4> QED BY <3>1, <3>2
    <3> QED BY <2>3, <3>3 DEF Moves
  <2> QED BY <2>2, <2>4 DEF HeapInv, Effect
<1>6. CASE moving' = [moving EXCEPT ![t] = << >>] /\ UNCHANGED << heap, own >>
  <2>1. /\ moving' = [u \in User |-> moving'[u]] /\ moving'[t] = << >>
        /\ \A u \in User \ {t} : moving'[u] = moving[u]
    BY <1>1, <1>6 DEF Moves
  <2>2. Moves'
    BY <1>1, <1>6, <2>1 DEF Moves
  <2> QED BY <1>6, <2>2 DEF HeapInv, Effect
<1> QED
  BY <1>4, <1>5, <1>6 DEF ReallocGet

LEMMA ReallocFreeStep ==
    ASSUME HeapInv, NEW t \in User, ReallocFree(t)
    PROVE  HeapInv' /\ Effect
<1>1. Moves /\ own \in [User -> SUBSET (Nat \X Sizes)]
  BY OwnIsFunction DEF HeapInv
<1>2. moving[t][1] \in own[t]
  <2>1. Len(moving[t]) = 3
    BY DEF ReallocFree
  <2>2. \A b, n : Len(<< b, n >>) = 2
    OBVIOUS
  <2>3. Len(<< >>) = 0
    OBVIOUS
  <2>4. PICK b \in own[t] : \E n \in Sizes : \E p \in Nat : moving[t] = << b, n, p >>
    <3>1. moving[t] # << >>
      BY <2>1, <2>3
    <3>2. ASSUME NEW c, NEW m, moving[t] = << c, m >> PROVE FALSE
      <4>1. Len(moving[t]) = 2
        BY <2>2, <3>2
      <4> QED BY <2>1, <4>1
    <3> QED BY <1>1, <3>1, <3>2, Zenon DEF Moves
  <2> QED BY <2>4
<1> DEFINE b == moving[t][1]
<1>3. /\ HeapOK(heap') /\ Owned(heap.blk, own)' /\ Returns(t, b)
      /\ (\A u \in User : own'[u] = {}) => heap'.lfree = 0
  BY <1>2, PutStep DEF ReallocFree
<1>4. /\ moving' = [u \in User |-> moving'[u]] /\ moving'[t] = << >>
      /\ \A u \in User \ {t} : moving'[u] = moving[u] /\ own'[u] = own[u]
  BY <1>1 DEF ReallocFree, Moves
<1>5. Moves'
  BY <1>1, <1>4 DEF Moves
<1> QED
  BY <1>2, <1>3, <1>5 DEF HeapInv, Effect

LEMMA HeapSteps ==
    ASSUME HeapInv, [HeapNext]_heapVars
    PROVE  HeapInv' /\ Effect
<1>1. CASE HeapNext
  BY <1>1, MallocStep, FreeStep, ReallocStep, ReallocGetStep, ReallocFreeStep DEF HeapNext
<1>2. CASE UNCHANGED heapVars
  BY <1>2 DEF heapVars, HeapInv, Moves, Effect
<1> QED
  BY <1>1, <1>2

LEMMA HeapInvariant == HeapSpec => []HeapInv
<1>1. HeapInv /\ [HeapNext]_heapVars => HeapInv'
  BY HeapSteps
<1> QED
  BY <1>1, HeapInvInit, PTL DEF HeapSpec

-----------------------------------------------------------------------------
(* What the invariant says of the heap.                                    *)

LEMMA UsedIsHeld ==
    ASSUME HeapInv, NEW o \in DOMAIN heap.blk \ {HeapEnd}
    PROVE  heap.blk[o].used <=> \E t \in User : \E b \in own[t] : b[1] = o
<1>1. Owned(heap.blk, own)
  BY DEF HeapInv
<1>2. ASSUME heap.blk[o].used PROVE \E t \in User : \E b \in own[t] : b[1] = o
  BY <1>1, <1>2 DEF Owned, UsedBlocks
<1>3. ASSUME NEW t \in User, NEW b \in own[t], b[1] = o PROVE heap.blk[o].used
  BY <1>1, <1>3 DEF Owned, UsedBlocks
<1> QED
  BY <1>2, <1>3

LEMMA HeapInvTypes == HeapInv => HeapTypeOK
<1> SUFFICES ASSUME HeapInv PROVE HeapTypeOK
  OBVIOUS
<1>1. Tiles(heap.blk) /\ LowestOK(heap) /\ Owned(heap.blk, own) /\ Moves
      /\ heap.used = Cardinality(UsedCells(heap.blk))
  BY DEF HeapInv, HeapOK
<1>2. DOMAIN heap.blk \subseteq 0..HeapEnd /\ \A o \in DOMAIN heap.blk : heap.blk[o] \in Hdr
  BY <1>1 DEF Tiles
<1>3. heap.lfree \in DOMAIN heap.blk
  BY <1>1 DEF LowestOK
<1>4. heap.used \in 0..HeapEnd
  <2>1. UsedCells(heap.blk) \subseteq 0..(HeapEnd - 1)
    <3> SUFFICES ASSUME NEW o \in UsedBlocks(heap.blk), NEW x \in o..(heap.blk[o].next - 1)
                 PROVE  x \in 0..(HeapEnd - 1)
      BY DEF UsedCells, UsedBlocks
    <3>1. o \in DOMAIN heap.blk \ {HeapEnd}
      BY DEF UsedBlocks
    <3>2. o \in Nat /\ heap.blk[o].next \in Nat /\ heap.blk[o].next <= HeapEnd
      BY <1>1, <3>1, TilesFacts
    <3> QED BY <3>2, Constants
  <2>2. IsFiniteSet(0..(HeapEnd - 1)) /\ Cardinality(0..(HeapEnd - 1)) = HeapEnd
    <3>1. 0 \in Int /\ HeapEnd - 1 \in Int /\ ~(0 > HeapEnd - 1)
      BY Constants
    <3> QED BY <3>1, FS_Interval, Constants
  <2>3. Cardinality(UsedCells(heap.blk)) <= HeapEnd /\ IsFiniteSet(UsedCells(heap.blk))
    BY <2>1, <2>2, FS_Subset
  <2>4. Cardinality(UsedCells(heap.blk)) \in Nat
    BY <2>3, FS_CardinalityType
  <2> QED BY <1>1, <2>3, <2>4, Constants
<1>5. own \in [User -> SUBSET (Nat \X Sizes)]
  BY <1>1 DEF Owned
<1>6. ASSUME NEW t \in User PROVE moving[t] = << >> \/ moving[t][1] \in own[t]
  <2>1. \/ moving[t] = << >>
        \/ \E b \in own[t] : \E n \in Sizes :
             moving[t] = << b, n >> \/ \E p \in Nat : moving[t] = << b, n, p >>
    BY <1>1, Zenon DEF Moves
  <2> QED BY <2>1
<1> QED
  BY <1>2, <1>3, <1>4, <1>5, <1>6 DEF HeapTypeOK, Hdr

LEMMA HeapInvTiles == HeapInv => BlocksTile
<1> SUFFICES ASSUME HeapInv PROVE BlocksTile
  OBVIOUS
<1>1. Tiles(heap.blk) /\ Alone(heap.blk)
  BY DEF HeapInv, HeapOK
<1>2. {0, HeapEnd} \subseteq DOMAIN heap.blk /\ heap.blk[0].prev = 0
  BY <1>1 DEF Tiles
<1>3. ASSUME NEW o \in Blocks
      PROVE  /\ heap.blk[o].next = Min({p \in DOMAIN heap.blk : p > o})
             /\ heap.blk[o].next >= o + Header
             /\ heap.blk[o].next # HeapEnd => heap.blk[heap.blk[o].next].prev = o
             /\ heap.blk[o].used \/ heap.blk[heap.blk[o].next].used
  <2>1. o \in DOMAIN heap.blk \ {HeapEnd}
    BY DEF Blocks
  <2> DEFINE I == {p \in DOMAIN heap.blk : p > o}
             n == heap.blk[o].next
  <2>2. /\ n \in DOMAIN heap.blk /\ n >= o + Header /\ o < n /\ n \in Nat
        /\ \A p \in DOMAIN heap.blk : p <= o \/ n <= p
    BY <1>1, <2>1, TilesFacts DEF Tiles
  <2>3. /\ \A p \in DOMAIN heap.blk : p \in Nat
        /\ o \in Nat /\ (n # HeapEnd => heap.blk[n].prev = o)
    BY <1>1, <2>1, TilesFacts
  <2>4. I \in SUBSET Nat /\ n \in I /\ I # {} /\ \A p \in I : n <= p
    BY <2>2, <2>3
  <2>5. Min(I) \in I /\ Min(I) <= n
    <3> HIDE DEF I, n
    <3> QED BY <2>4, MinOfOffsets
  <2>6. n <= Min(I) /\ Min(I) \in Nat
    BY <2>4, <2>5
  <2>7. n = Min(I)
    BY <2>2, <2>5, <2>6
  <2>8. heap.blk[o].used \/ heap.blk[n].used
    BY <1>1, <2>1 DEF Alone
  <2> QED BY <2>2, <2>3, <2>7, <2>8
<1> QED
  BY <1>2, <1>3 DEF BlocksTile

LEMMA HeapInvExact == HeapInv => HeapExact
<1> SUFFICES ASSUME HeapInv PROVE HeapExact
  OBVIOUS
<1>1. BlocksTile
  BY HeapInvTiles
<1>2. \A o \in Blocks : heap.blk[o].used <=> \E t \in User : \E b \in own[t] : b[1] = o
  BY UsedIsHeld DEF Blocks
<1>3. HeapOK(heap) /\ Owned(heap.blk, own)
  BY DEF HeapInv
<1>4. \A t \in User : \A b \in own[t] : Room(heap.blk, b[1]) >= b[2]
  BY <1>3 DEF Owned
<1>5. heap.used = Cardinality(UsedCells(heap.blk))
  BY <1>3 DEF HeapOK
<1>6. heap.lfree = HeapEnd \/ ~heap.blk[heap.lfree].used
  BY <1>3 DEF HeapOK, LowestOK
<1>7. ASSUME \A t \in User : own[t] = {} PROVE Blocks = {0} /\ heap.lfree = 0
  <2>1. UsedBlocks(heap.blk) = {}
    BY <1>3, <1>7 DEF Owned
  <2>2. DOMAIN heap.blk = {0, HeapEnd}
    BY <1>3, <2>1, NothingUsed
  <2>3. heap.lfree = 0
    BY <1>7 DEF HeapInv
  <2> QED BY <2>2, <2>3, Constants DEF Blocks
<1> QED
  BY <1>1, <1>2, <1>4, <1>5, <1>6, <1>7 DEF HeapExact

(* For every heap size, header size, alignment and number of threads,      *)
(* rt_malloc, rt_free and rt_realloc of mem.c keep the heap exact: the     *)
(* headers tile it, no two free blocks lie side by side, the used blocks   *)
(* are those that threads hold and are large enough for them, used_mem     *)
(* counts their cells, lfree is never a used block, and a heap whose       *)
(* blocks have all been freed is one free block again.                     *)
THEOREM HeapIsExact == HeapSpec => []HeapExact
  BY HeapInvariant, HeapInvExact, PTL

-----------------------------------------------------------------------------
(* The heap as an allocator.                                               *)

Region(b) == << b[1] + Header, b[2] >>
Regions(w) == [t \in User |-> {Region(b) : b \in w[t]}]

InArena(r) == r[1] >= 0 /\ r[2] >= 0 /\ r[1] + r[2] <= HeapEnd
Disjoint(r, s) == r[1] + r[2] <= s[1] \/ s[1] + s[2] <= r[1]

LEMMA RegionFacts ==
    ASSUME NEW blk, Tiles(blk), NEW w, Owned(blk, w), NEW t \in User, NEW b \in w[t]
    PROVE  /\ InArena(Region(b))
           /\ \A u \in User : \A c \in w[u] : c[1] # b[1] => Disjoint(Region(b), Region(c))
<1>1. \A u \in User : \A c \in w[u] :
        /\ c[1] \in DOMAIN blk \ {HeapEnd} /\ c[1] \in Nat /\ c[2] \in Nat
        /\ c[1] + Header + c[2] <= blk[c[1]].next
  <2> SUFFICES ASSUME NEW u \in User, NEW c \in w[u]
               PROVE  /\ c[1] \in DOMAIN blk \ {HeapEnd} /\ c[1] \in Nat /\ c[2] \in Nat
                      /\ c[1] + Header + c[2] <= blk[c[1]].next
    OBVIOUS
  <2>1. c \in Nat \X Sizes /\ Sizes \subseteq Nat
    BY SmallMemAssumption DEF Owned
  <2>2. c[1] \in DOMAIN blk \ {HeapEnd} /\ Room(blk, c[1]) >= c[2]
    BY DEF Owned, UsedBlocks
  <2>3. blk[c[1]].next \in Nat
    BY <2>2, TilesFacts
  <2> DEFINE i == c[1]
             n == c[2]
  <2>4. i \in Nat /\ n \in Nat /\ blk[i].next - (i + Header) >= n
    BY <2>1, <2>2 DEF Room
  <2> HIDE DEF i, n
  <2>5. i + Header + n <= blk[i].next
    BY <2>3, <2>4, Constants DEF i
  <2> QED BY <2>2, <2>4, <2>5 DEF i, n
<1>2. \A o, p \in DOMAIN blk \ {HeapEnd} : blk[o].next \in Nat /\ blk[o].next <= HeapEnd
                                           /\ (p <= o \/ blk[o].next <= p)
  BY TilesFacts DEF Tiles
<1>3. InArena(Region(b))
  BY <1>1, <1>2, Constants DEF InArena, Region
<1>4. ASSUME NEW u \in User, NEW c \in w[u], c[1] # b[1]
      PROVE  Disjoint(Region(b), Region(c))
  <2> DEFINE i == b[1]
             j == c[1]
             m == b[2]
             n == c[2]
  <2>1. /\ i \in Nat /\ j \in Nat /\ m \in Nat /\ n \in Nat
        /\ i + Header + m <= blk[i].next /\ j + Header + n <= blk[j].next
        /\ i \in DOMAIN blk \ {HeapEnd} /\ j \in DOMAIN blk \ {HeapEnd}
    BY <1>1
  <2>2. /\ blk[i].next \in Nat /\ blk[j].next \in Nat
        /\ (j <= i \/ blk[i].next <= j) /\ (i <= j \/ blk[j].next <= i)
    BY <1>2, <2>1
  <2>3. i # j
    BY <1>4
  <2> HIDE DEF i, j, m, n
  <2>4. (i + Header) + m <= j + Header \/ (j + Header) + n <= i + Header
    BY <2>1, <2>2, <2>3, Constants
  <2> QED BY <2>4 DEF Disjoint, Region, i, j, m, n
<1> QED
  BY <1>3, <1>4

(* v is w with X as the holdings of t.                                     *)
Updates(v, w, t, X) == v = [w EXCEPT ![t] = X]
RegionSet(X) == {Region(b) : b \in X}

LEMMA RegionsOf ==
    ASSUME NEW w \in [User -> SUBSET (Nat \X Sizes)], NEW t \in User,
           NEW X, NEW v, Updates(v, w, t, X)
    PROVE  Updates(Regions(v), Regions(w), t, RegionSet(X))
<1>1. v[t] = X /\ \A u \in User \ {t} : v[u] = w[u]
  BY DEF Updates
<1> DEFINE R == [Regions(w) EXCEPT ![t] = RegionSet(X)]
<1>2. R = [u \in User |-> IF u = t THEN RegionSet(X) ELSE {Region(b) : b \in w[u]}]
  BY DEF Regions
<1>3. \A u \in User : (IF u = t THEN RegionSet(X) ELSE {Region(b) : b \in w[u]})
                       = {Region(b) : b \in v[u]}
  BY <1>1 DEF RegionSet
<1> QED
  BY <1>2, <1>3 DEF Regions, Updates

LEMMA RegionInjective ==
    ASSUME NEW w \in [User -> SUBSET (Nat \X Sizes)], NEW t \in User, NEW b \in w[t], NEW c \in w[t],
           Region(b) = Region(c)
    PROVE  b = c
<1>1. b \in Nat \X Sizes /\ c \in Nat \X Sizes
  OBVIOUS
<1>2. b[1] + Header = c[1] + Header /\ b[2] = c[2]
  BY DEF Region
<1>3. b[1] \in Nat /\ c[1] \in Nat
  BY <1>1
<1>4. b[1] = c[1]
  BY <1>2, <1>3, Constants
<1> QED
  BY <1>1, <1>2, <1>4

(* The three steps of the allocator, on regions.                           *)
Gets(t, r, Old) ==
    /\ Old \subseteq Regions(own)[t] /\ InArena(r)
    /\ \A s \in UNION {[Regions(own) EXCEPT ![t] = @ \ Old][u] : u \in User} : Disjoint(r, s)
    /\ Regions(own') = [Regions(own) EXCEPT ![t] = (@ \ Old) \cup {r}]
Gives(t, r) ==
    r \in Regions(own)[t] /\ Regions(own') = [Regions(own) EXCEPT ![t] = @ \ {r}]

LEMMA ObtainsGets ==
    ASSUME HeapInv, HeapInv', NEW t \in User, NEW p \in Nat, NEW n \in Sizes, Obtains(t, p, n)
    PROVE  LET r == Region(<< p, n >>) IN r \in Regions(own')[t] /\ Gets(t, r, {})
<1> DEFINE e == << p, n >>
           r == Region(e)
<1>1. /\ Owned(heap.blk, own) /\ Owned(heap'.blk, own') /\ Tiles(heap'.blk)
      /\ own \in [User -> SUBSET (Nat \X Sizes)] /\ own' \in [User -> SUBSET (Nat \X Sizes)]
  BY DEF HeapInv, HeapOK, Owned
<1>2. own' = [own EXCEPT ![t] = own[t] \cup {e}] /\ p \notin UsedBlocks(heap.blk)
  BY DEF Obtains
<1>3. e \in own'[t] /\ \A u \in User : own[u] \subseteq own'[u]
  BY <1>1, <1>2
<1>4. Regions(own') = [Regions(own) EXCEPT ![t] = {Region(b) : b \in own[t] \cup {e}}]
  <2> DEFINE X == own[t] \cup {e}
  <2>1. Updates(own', own, t, X)
    BY <1>2 DEF Updates
  <2> HIDE DEF X
  <2>2. Updates(Regions(own'), Regions(own), t, RegionSet(X))
    BY <1>1, <2>1, RegionsOf
  <2> QED BY <2>2 DEF Updates, RegionSet, X
<1>5. {Region(b) : b \in own[t] \cup {e}} = (Regions(own)[t] \ {}) \cup {r}
  BY DEF Regions
<1>6. e[1] = p /\ \A u \in User : \A c \in own[u] : c[1] # p
  BY <1>1, <1>2 DEF Owned
<1> HIDE DEF e
<1>7. InArena(r) /\ \A u \in User : \A c \in own[u] : Disjoint(r, Region(c))
  BY <1>1, <1>3, <1>6, RegionFacts
<1>8. \A u \in User : \A s \in Regions(own)[u] : Disjoint(r, s)
  BY <1>7 DEF Regions
<1>9. \A u \in User : [Regions(own) EXCEPT ![t] = @ \ {}][u] \subseteq Regions(own)[u]
  BY DEF Regions
<1>10. r \in Regions(own')[t]
  BY <1>3 DEF Regions
<1> HIDE DEF r
<1>11. Gets(t, r, {})
  BY <1>4, <1>5, <1>7, <1>8, <1>9 DEF Gets
<1> QED
  BY <1>10, <1>11 DEF r, e

LEMMA ResizesGets ==
    ASSUME HeapInv, HeapInv', NEW t \in User, NEW b \in own[t], NEW n \in Sizes, Resizes(t, b, n)
    PROVE  LET r == Region(<< b[1], n >>)
           IN  r \in Regions(own')[t] /\ Region(b) \in Regions(own)[t] /\ Gets(t, r, {Region(b)})
<1> DEFINE e == << b[1], n >>
           r == Region(e)
           s0 == Region(b)
<1>1. /\ Owned(heap.blk, own) /\ Owned(heap'.blk, own') /\ Tiles(heap'.blk)
      /\ own \in [User -> SUBSET (Nat \X Sizes)] /\ own' \in [User -> SUBSET (Nat \X Sizes)]
  BY DEF HeapInv, HeapOK, Owned
<1>2. own' = [own EXCEPT ![t] = (own[t] \ {b}) \cup {e}] /\ e[1] = b[1]
  BY DEF Resizes
<1> HIDE DEF e
<1>3. e \in own'[t] /\ \A u \in User : own[u] \ {b} \subseteq own'[u]
  BY <1>1, <1>2
<1>4. Regions(own') = [Regions(own) EXCEPT ![t] = {Region(c) : c \in (own[t] \ {b}) \cup {e}}]
  <2> DEFINE X == (own[t] \ {b}) \cup {e}
  <2>1. Updates(own', own, t, X)
    BY <1>2 DEF Updates
  <2> HIDE DEF X
  <2>2. Updates(Regions(own'), Regions(own), t, RegionSet(X))
    BY <1>1, <2>1, RegionsOf
  <2> QED BY <2>2 DEF Updates, RegionSet, X
<1>5. Regions(own)[t] \ {s0} = {Region(c) : c \in own[t] \ {b}}
  BY <1>1, RegionInjective DEF Regions
<1>6. {Region(c) : c \in (own[t] \ {b}) \cup {e}} = (Regions(own)[t] \ {s0}) \cup {r}
  BY <1>5
<1>7. \A u \in User : \A c \in own[u] \ {b} : c[1] # b[1]
  BY <1>1 DEF Owned
<1>8. InArena(r) /\ \A u \in User : \A c \in own[u] \ {b} : Disjoint(r, Region(c))
  <2>1. InArena(r) /\ \A u \in User : \A c \in own'[u] : c[1] # e[1] => Disjoint(r, Region(c))
    BY <1>1, <1>3, RegionFacts
  <2> QED BY <1>2, <1>3, <1>7, <2>1
<1>9. \A u \in User \ {t} : b \notin own[u]
  BY <1>1 DEF Owned
<1>10. ASSUME NEW u \in User, NEW s \in [Regions(own) EXCEPT ![t] = @ \ {s0}][u]
       PROVE  Disjoint(r, s)
  <2>1. CASE u = t
    <3>1. s \in Regions(own)[t] \ {s0}
      BY <2>1 DEF Regions
    <3> QED BY <1>5, <1>8, <3>1
  <2>2. CASE u # t
    <3>1. s \in Regions(own)[u]
      BY <2>2 DEF Regions
    <3>2. PICK c \in own[u] : s = Region(c)
      BY <3>1 DEF Regions
    <3> QED BY <1>8, <1>9, <2>2, <3>2
  <2> QED BY <2>1, <2>2
<1>11. r \in Regions(own')[t] /\ s0 \in Regions(own)[t]
  BY <1>3 DEF Regions
<1>12. Regions(own') = [Regions(own) EXCEPT ![t] = (@ \ {s0}) \cup {r}]
  BY <1>4, <1>6
<1> HIDE DEF r, s0
<1>13. \A s \in UNION {[Regions(own) EXCEPT ![t] = @ \ {s0}][u] : u \in User} : Disjoint(r, s)
  BY <1>10
<1>14. Gets(t, r, {s0})
  BY <1>8, <1>11, <1>12, <1>13, Zenon DEF Gets
<1> QED
  BY <1>11, <1>14 DEF r, e, s0

LEMMA ReturnsGives ==
    ASSUME HeapInv, NEW t \in User, NEW b \in own[t], Returns(t, b)
    PROVE  Gives(t, Region(b))
<1>1. own \in [User -> SUBSET (Nat \X Sizes)]
  BY OwnIsFunction
<1>2. own' = [own EXCEPT ![t] = own[t] \ {b}]
  BY DEF Returns
<1>3. Regions(own') = [Regions(own) EXCEPT ![t] = {Region(c) : c \in own[t] \ {b}}]
  <2> DEFINE X == own[t] \ {b}
  <2>1. Updates(own', own, t, X)
    BY <1>2 DEF Updates
  <2> HIDE DEF X
  <2>2. Updates(Regions(own'), Regions(own), t, RegionSet(X))
    BY <1>1, <2>1, RegionsOf
  <2> QED BY <2>2 DEF Updates, RegionSet, X
<1>4. Regions(own)[t] \ {Region(b)} = {Region(c) : c \in own[t] \ {b}}
  BY <1>1, RegionInjective DEF Regions
<1>5. Region(b) \in Regions(own)[t]
  BY DEF Regions
<1> QED
  BY <1>3, <1>4, <1>5 DEF Gives

LEMMA RegionStep ==
    ASSUME HeapInv, HeapInv', Effect
    PROVE  \/ Regions(own') = Regions(own)
           \/ \E t \in User :
                \/ \E r \in Regions(own')[t] :
                     Gets(t, r, {}) \/ \E s \in Regions(own)[t] : Gets(t, r, {s})
                \/ \E r \in Regions(own)[t] : Gives(t, r)
<1>1. CASE own' = own
  BY <1>1
<1>2. ASSUME NEW t \in User, NEW p \in Nat, NEW n \in Sizes, Obtains(t, p, n)
      PROVE  \E r \in Regions(own')[t] : Gets(t, r, {})
  BY <1>2, ObtainsGets
<1>3. ASSUME NEW t \in User, NEW b \in own[t], Returns(t, b)
      PROVE  \E r \in Regions(own)[t] : Gives(t, r)
  <2>1. Gives(t, Region(b))
    BY <1>3, ReturnsGives
  <2> QED BY <2>1 DEF Gives
<1>4. ASSUME NEW t \in User, NEW b \in own[t], NEW n \in Sizes, Resizes(t, b, n)
      PROVE  \E r \in Regions(own')[t] : \E s \in Regions(own)[t] : Gets(t, r, {s})
  BY <1>4, ResizesGets
<1> QED
  BY <1>1, <1>2, <1>3, <1>4 DEF Effect

(* Every step of the heap of mem.c, seen through the regions the threads   *)
(* hold, is a step of an allocator: rt_malloc hands out cells of the arena *)
(* that no thread holds, rt_free takes back one region and no other, and   *)
(* rt_realloc resizes in place, or gets the new region before it gives     *)
(* back the old one, even when other threads allocate in between.          *)
THEOREM HeapRefinesAllocator == HeapSpec => HeapImplementsAllocator
<1>1. HeapInit => HeapAllocator!Init
  BY DEF HeapInit, HeapAllocator!Init
<1>2. HeapInv /\ HeapInv' /\ [HeapNext]_heapVars
        => HeapAllocator!Next \/ Regions(own') = Regions(own)
  <2> SUFFICES ASSUME HeapInv, HeapInv', [HeapNext]_heapVars
               PROVE  HeapAllocator!Next \/ Regions(own') = Regions(own)
    OBVIOUS
  <2>1. Effect
    BY HeapSteps
  <2>2. \A t, r, Old : Gets(t, r, Old) <=> HeapAllocator!Get(t, r, Old)
    BY DEF Gets, Regions, Region, InArena, Disjoint, HeapAllocator!Get, HeapAllocator!Held,
           HeapAllocator!Apart
  <2>3. \A t, r : Gives(t, r) <=> HeapAllocator!Give(t, r)
    BY DEF Gives, Regions, Region, HeapAllocator!Give
  <2>4. CASE Regions(own') = Regions(own)
    BY <2>4
  <2>5. CASE \E t \in User : \E r \in Regions(own')[t] :
               Gets(t, r, {}) \/ \E s \in Regions(own)[t] : Gets(t, r, {s})
    BY <2>2, <2>5 DEF HeapAllocator!Next, Regions, Region
  <2>6. CASE \E t \in User : \E r \in Regions(own)[t] : Gives(t, r)
    BY <2>3, <2>6 DEF HeapAllocator!Next, Regions, Region
  <2> QED BY <2>1, <2>4, <2>5, <2>6, RegionStep
<1>3. HeapInv /\ HeapInv' /\ [HeapNext]_heapVars
        => [HeapAllocator!Next]_[t \in User |-> {<< b[1] + Header, b[2] >> : b \in own[t]}]
  BY <1>2 DEF Regions, Region
<1> QED
  BY <1>1, <1>3, HeapInvariant, PTL DEF HeapSpec, HeapImplementsAllocator, HeapAllocator!Spec

-----------------------------------------------------------------------------
(* Ticks modulo TickMod.                                                   *)

LEMMA HorizonFacts == Horizon \in Times /\ \A d \in Times : d <= Horizon
<1> DEFINE I == {TickMod - d : d \in Times}
<1>1. TickMod \in Nat /\ Times # {} /\ \A d \in Times : d \in Nat /\ d < TickMod
  BY TimerAssumption
<1>2. I \in SUBSET Nat /\ I # {}
  BY <1>1
<1> DEFINE m == Min(I)
<1>3. m \in I /\ \A j \in I : m <= j
  BY <1>2, MinOfOffsets
<1> HIDE DEF m
<1>4. PICK e \in Times : m = TickMod - e
  BY <1>3
<1>5. ASSUME NEW d \in Times PROVE e >= d
  <2>1. m <= TickMod - d
    BY <1>3
  <2> QED BY <1>1, <1>4, <2>1
<1>6. \E x \in Times : \A y \in Times : x >= y
  BY <1>5
<1>7. Horizon \in Times /\ \A y \in Times : Horizon >= y
  BY <1>6 DEF Horizon, Max
<1> QED
  BY <1>1, <1>7

LEMMA TickFacts ==
    /\ TickMod \in Nat /\ Half \in Nat /\ MaxLate \in Nat /\ Horizon \in Nat
    /\ Horizon + MaxLate + 1 < Half /\ 2 * Half + 1 <= TickMod
    /\ \A d \in Times : d \in Nat /\ d <= Horizon
<1>1. TickMod \in Nat /\ MaxLate \in Nat /\ Horizon + MaxLate + 1 < Half
      /\ \A d \in Times : d \in Nat
  BY TimerAssumption
<1>2. Horizon \in Nat /\ \A d \in Times : d <= Horizon
  BY <1>1, HorizonFacts
<1>3. Half \in Int /\ 2 * Half + 1 <= TickMod
  BY <1>1 DEF Half
<1> QED
  BY <1>1, <1>2, <1>3

LEMMA ModFacts ==
    ASSUME NEW m \in Nat \ {0}, NEW z \in Int, -m <= z, z < 2 * m
    PROVE  z % m = IF z < 0 THEN z + m ELSE IF z < m THEN z ELSE z - m
<1>1. CASE z < 0
  <2>1. z + m \in 0..(m - 1)
    BY <1>1
  <2> QED BY <1>1, <2>1
<1>2. CASE 0 <= z /\ z < m
  BY <1>2
<1>3. CASE m <= z
  BY <1>3
<1> QED
  BY <1>1, <1>2, <1>3

(* How many ticks after t tick o comes; negative when it has passed.       *)
Gap(t, o) == IF Behind(t, o) < Half THEN Behind(t, o) ELSE Behind(t, o) - TickMod

Ticks == 0..(TickMod - 1)

LEMMA BehindFacts ==
    ASSUME NEW t \in Ticks, NEW o \in Ticks
    PROVE  Behind(t, o) = IF o < t THEN o - t + TickMod ELSE o - t
<1> DEFINE z == o - t
<1>1. TickMod \in Nat \ {0} /\ t \in Int /\ o \in Int /\ t < TickMod /\ o < TickMod /\ t >= 0 /\ o >= 0
  BY TickFacts DEF Ticks
<1>2. z \in Int /\ -TickMod <= z /\ z < 2 * TickMod /\ z < TickMod
  BY <1>1
<1>3. Behind(t, o) = z % TickMod
  BY DEF Behind
<1> HIDE DEF z
<1>4. z % TickMod = IF z < 0 THEN z + TickMod ELSE IF z < TickMod THEN z ELSE z - TickMod
  BY <1>1, <1>2, ModFacts
<1> QED
  BY <1>1, <1>2, <1>3, <1>4 DEF z

LEMMA PlusFacts ==
    ASSUME NEW t \in Ticks, NEW d \in Nat, d < TickMod
    PROVE  /\ (t + d) % TickMod \in Ticks
           /\ (t + d) % TickMod = IF t + d < TickMod THEN t + d ELSE (t + d) - TickMod
<1> DEFINE z == t + d
<1>1. TickMod \in Nat \ {0} /\ t \in Int /\ t < TickMod /\ t >= 0
  BY TickFacts DEF Ticks
<1>2. z \in Int /\ -TickMod <= z /\ z < 2 * TickMod /\ z >= 0
  BY <1>1
<1> HIDE DEF z
<1>3. z % TickMod = IF z < 0 THEN z + TickMod ELSE IF z < TickMod THEN z ELSE z - TickMod
  BY <1>1, <1>2, ModFacts
<1>4. z % TickMod = IF z < TickMod THEN z ELSE z - TickMod
  BY <1>2, <1>3
<1>5. z % TickMod \in Ticks
  BY <1>1, <1>2, <1>4 DEF Ticks
<1> QED
  BY <1>4, <1>5 DEF z

LEMMA MinusFacts ==
    ASSUME NEW t \in Ticks, NEW d \in Nat, d < TickMod
    PROVE  /\ (t - d) % TickMod \in Ticks
           /\ (t - d) % TickMod = IF t < d THEN t - d + TickMod ELSE t - d
<1> DEFINE z == t - d
<1>1. TickMod \in Nat \ {0} /\ t \in Int /\ t < TickMod /\ t >= 0
  BY TickFacts DEF Ticks
<1>2. z \in Int /\ -TickMod <= z /\ z < 2 * TickMod /\ z < TickMod /\ (z < 0 <=> t < d)
  BY <1>1
<1> HIDE DEF z
<1>3. z % TickMod = IF z < 0 THEN z + TickMod ELSE IF z < TickMod THEN z ELSE z - TickMod
  BY <1>1, <1>2, ModFacts
<1>4. z % TickMod = IF z < 0 THEN z + TickMod ELSE z
  BY <1>2, <1>3
<1>5. z % TickMod \in Ticks
  BY <1>1, <1>2, <1>4 DEF Ticks
<1> QED
  BY <1>2, <1>4, <1>5 DEF z

LEMMA TicksFacts == \A t \in Ticks : t \in Int /\ 0 <= t /\ t < TickMod
  BY TickFacts DEF Ticks

LEMMA GapRange ==
    ASSUME NEW t \in Ticks, NEW o \in Ticks
    PROVE  Gap(t, o) \in Int /\ Half - TickMod <= Gap(t, o) /\ Gap(t, o) < Half
  BY BehindFacts, TicksFacts, TickFacts DEF Gap

(* One tick later everything is one tick nearer.                           *)
LEMMA GapTick ==
    ASSUME NEW t \in Ticks, NEW o \in Ticks, Half - TickMod < Gap(t, o)
    PROVE  /\ (t + 1) % TickMod \in Ticks
           /\ Gap((t + 1) % TickMod, o) = Gap(t, o) - 1
<1> DEFINE n == (t + 1) % TickMod
<1>1. n \in Ticks /\ n = IF t + 1 < TickMod THEN t + 1 ELSE (t + 1) - TickMod
  <2>1. 1 \in Nat /\ 1 < TickMod
    BY TickFacts
  <2> QED BY <2>1, PlusFacts
<1> HIDE DEF n
<1>2. /\ Behind(t, o) = IF o < t THEN o - t + TickMod ELSE o - t
      /\ Behind(n, o) = IF o < n THEN o - n + TickMod ELSE o - n
  BY <1>1, BehindFacts
<1>3. Gap(n, o) = Gap(t, o) - 1
  BY <1>1, <1>2, TicksFacts, TickFacts DEF Gap
<1> QED
  BY <1>1, <1>3 DEF n

LEMMA GapStart ==
    ASSUME NEW t \in Ticks, NEW d \in Nat, d < Half
    PROVE  (t + d) % TickMod \in Ticks /\ Gap(t, (t + d) % TickMod) = d
<1> DEFINE n == (t + d) % TickMod
<1>1. n \in Ticks /\ n = IF t + d < TickMod THEN t + d ELSE (t + d) - TickMod
  <2>1. d < TickMod
    BY TickFacts
  <2> QED BY <2>1, PlusFacts
<1> HIDE DEF n
<1>2. Behind(t, n) = IF n < t THEN n - t + TickMod ELSE n - t
  BY <1>1, BehindFacts
<1>3. Gap(t, n) = d
  BY <1>1, <1>2, TicksFacts, TickFacts DEF Gap
<1> QED
  BY <1>1, <1>3 DEF n

(* The code's comparison of two expiry times that are near each other.     *)
LEMMA GapCompare ==
    ASSUME NEW t \in Ticks, NEW o \in Ticks, NEW p \in Ticks,
           Gap(t, o) - Gap(t, p) < Half, Gap(t, p) - Gap(t, o) < Half
    PROVE  Behind(o, p) \in 1..(Half - 1) <=> Gap(t, o) < Gap(t, p)
<1>1. /\ Behind(t, o) = IF o < t THEN o - t + TickMod ELSE o - t
      /\ Behind(t, p) = IF p < t THEN p - t + TickMod ELSE p - t
      /\ Behind(o, p) = IF p < o THEN p - o + TickMod ELSE p - o
  BY BehindFacts
<1> DEFINE g == Gap(t, o)
           h == Gap(t, p)
           b == Behind(o, p)
<1>2. /\ g \in Int /\ h \in Int /\ g - h < Half /\ h - g < Half
  BY GapRange
<1>3. b \in Int /\ (b = h - g \/ b = h - g + TickMod \/ b = h - g - TickMod \/ b = h - g + 2 * TickMod)
      /\ 0 <= b /\ b < TickMod
  BY <1>1, TicksFacts, TickFacts DEF Gap
<1>4. (b \in 1..(Half - 1)) <=> 1 <= b /\ b <= Half - 1
  BY <1>3, TickFacts
<1> HIDE DEF g, h, b
<1>5. (b \in 1..(Half - 1)) <=> g < h
  BY <1>2, <1>3, <1>4, TickFacts
<1> QED
  BY <1>5 DEF g, h, b

(* rt_timer_check's test of the expiry time.                               *)
LEMMA GapExpired ==
    ASSUME NEW t \in Ticks, NEW o \in Ticks, -Half < Gap(t, o)
    PROVE  Behind(o, t) < Half <=> Gap(t, o) <= 0
<1>1. /\ Behind(t, o) = IF o < t THEN o - t + TickMod ELSE o - t
      /\ Behind(o, t) = IF t < o THEN t - o + TickMod ELSE t - o
  BY BehindFacts
<1> QED
  BY <1>1, TicksFacts, TickFacts DEF Gap

(* How late a start is: Lateness(o, d, t) ticks after its call.            *)
Lateness(o, d, t) == Behind((o - d) % TickMod, t)

LEMMA LateStart ==
    ASSUME NEW t \in Ticks, NEW d \in Nat, d < Half
    PROVE  Lateness((t + d) % TickMod, d, t) = 0
<1> DEFINE n == (t + d) % TickMod
           c == (n - d) % TickMod
<1>0. d < TickMod
  BY TickFacts
<1>1. n \in Ticks /\ n = IF t + d < TickMod THEN t + d ELSE (t + d) - TickMod
  BY <1>0, PlusFacts
<1> HIDE DEF n
<1>2. c \in Ticks /\ c = IF n < d THEN n - d + TickMod ELSE n - d
  BY <1>0, <1>1, MinusFacts
<1>3. c = t
  BY <1>0, <1>1, <1>2, TicksFacts, TickFacts
<1> HIDE DEF c
<1>4. Behind(c, t) = 0
  BY <1>2, <1>3, BehindFacts, TicksFacts
<1> QED
  BY <1>4 DEF Lateness, n, c

LEMMA LateTick ==
    ASSUME NEW t \in Ticks, NEW o \in Ticks, NEW d \in Nat, d < Half, Lateness(o, d, t) < TickMod - 1
    PROVE  Lateness(o, d, (t + 1) % TickMod) = Lateness(o, d, t) + 1
<1> DEFINE c == (o - d) % TickMod
           n == (t + 1) % TickMod
<1>1. c \in Ticks
  <2>1. d < TickMod
    BY TickFacts
  <2> QED BY <2>1, MinusFacts
<1>2. n \in Ticks /\ n = IF t + 1 < TickMod THEN t + 1 ELSE (t + 1) - TickMod
  <2>1. 1 \in Nat /\ 1 < TickMod
    BY TickFacts
  <2> QED BY <2>1, PlusFacts
<1>3. Behind(c, t) < TickMod - 1
  BY DEF Lateness
<1> HIDE DEF c, n
<1>4. /\ Behind(c, t) = IF t < c THEN t - c + TickMod ELSE t - c
      /\ Behind(c, n) = IF n < c THEN n - c + TickMod ELSE n - c
  BY <1>1, <1>2, BehindFacts
<1>5. Behind(c, n) = Behind(c, t) + 1
  BY <1>1, <1>2, <1>3, <1>4, TicksFacts, TickFacts
<1> QED
  BY <1>5 DEF Lateness, c, n

LEMMA LateType ==
    ASSUME NEW t \in Ticks, NEW o \in Ticks, NEW d \in Nat, d < Half
    PROVE  Lateness(o, d, t) \in Nat
<1> DEFINE c == (o - d) % TickMod
<1>1. c \in Ticks
  <2>1. d < TickMod
    BY TickFacts
  <2> QED BY <2>1, MinusFacts
<1> HIDE DEF c
<1>2. Behind(c, t) \in Nat
  BY <1>1, BehindFacts, TicksFacts, TickFacts
<1> QED
  BY <1>2 DEF Lateness, c

-----------------------------------------------------------------------------
(* Lists.                                                                  *)

LEMMA RemoveAtFacts ==
    ASSUME NEW S, NEW s \in Seq(S), NEW n \in 1..Len(s)
    PROVE  /\ RemoveAt(s, n) \in Seq(S)
           /\ Len(RemoveAt(s, n)) = Len(s) - 1
           /\ \A i \in 1..(Len(s) - 1) :
                 RemoveAt(s, n)[i] = IF i < n THEN s[i] ELSE s[i + 1]
<1> DEFINE a == SubSeq(s, 1, n - 1)
           b == SubSeq(s, n + 1, Len(s))
           w == a \o b
           l == Len(s)
<1>1. l \in Nat /\ n \in 1..l
  BY LenProperties
<1>2. /\ a \in Seq(S) /\ Len(a) = n - 1
      /\ \A i \in 1..(n - 1) : a[i] = s[i]
  BY SubSeqProperties
<1>3. /\ b \in Seq(S) /\ Len(b) = l - n
      /\ \A i \in 1..(l - n) : b[i] = s[n + i]
  BY SubSeqProperties
<1>4. RemoveAt(s, n) = w
  BY DEF RemoveAt
<1> HIDE DEF a, b, l
<1>5. /\ w \in Seq(S) /\ Len(w) = Len(a) + Len(b)
      /\ \A i \in 1..(Len(a) + Len(b)) :
             w[i] = IF i <= Len(a) THEN a[i] ELSE b[i - Len(a)]
  BY <1>2, <1>3, ConcatProperties
<1> HIDE DEF w
<1>6. Len(a) + Len(b) = l - 1
  BY <1>1, <1>2, <1>3
<1>7. ASSUME NEW i \in 1..(l - 1) PROVE w[i] = IF i < n THEN s[i] ELSE s[i + 1]
  <2>1. w[i] = IF i <= n - 1 THEN a[i] ELSE b[i - (n - 1)]
    BY <1>2, <1>5, <1>6
  <2>2. CASE i < n
    <3>1. i \in 1..(n - 1)
      BY <1>1, <2>2
    <3> QED BY <1>1, <1>2, <2>1, <2>2, <3>1
  <2>3. CASE ~(i < n)
    <3>1. i - (n - 1) \in 1..(l - n) /\ n + (i - (n - 1)) = i + 1
      BY <1>1, <2>3
    <3>2. b[i - (n - 1)] = s[i + 1]
      BY <1>3, <3>1
    <3> QED BY <1>1, <2>1, <2>3, <3>2
  <2> QED BY <2>2, <2>3
<1> QED BY <1>4, <1>5, <1>6, <1>7 DEF l

(* Linking a node before position n moves the rest of the list up.         *)
LEMMA InsertAtFacts ==
    ASSUME NEW S, NEW s \in Seq(S), NEW e \in S, NEW n \in 1..Len(s)
    PROVE  /\ InsertAt(s, n, e) \in Seq(S)
           /\ Len(InsertAt(s, n, e)) = Len(s) + 1
           /\ \A i \in 1..(Len(s) + 1) : InsertAt(s, n, e)[i] =
                 IF i < n THEN s[i] ELSE IF i = n THEN e ELSE s[i - 1]
<1> DEFINE a == SubSeq(s, 1, n - 1)
           b == SubSeq(s, n, Len(s))
           c == a \o <<e>>
           w == c \o b
           l == Len(s)
<1>1. l \in Nat /\ n \in 1..l
  BY LenProperties
<1>2. /\ a \in Seq(S) /\ Len(a) = n - 1
      /\ \A i \in 1..(n - 1) : a[i] = s[i]
  BY SubSeqProperties
<1>3. /\ b \in Seq(S) /\ Len(b) = l - n + 1
      /\ \A i \in 1..(l - n + 1) : b[i] = s[n + i - 1]
  BY SubSeqProperties
<1>4. InsertAt(s, n, e) = w
  BY DEF InsertAt
<1> HIDE DEF a, b, l
<1>5. /\ c \in Seq(S) /\ Len(c) = n
      /\ \A i \in 1..n : c[i] = IF i < n THEN a[i] ELSE e
  <2>1. <<e>> \in Seq(S) /\ Len(<<e>>) = 1 /\ <<e>>[1] = e
    OBVIOUS
  <2>2. /\ c \in Seq(S) /\ Len(c) = Len(a) + Len(<<e>>)
        /\ \A i \in 1..(Len(a) + Len(<<e>>)) :
               c[i] = IF i <= Len(a) THEN a[i] ELSE <<e>>[i - Len(a)]
    BY <1>2, <2>1, ConcatProperties
  <2> HIDE DEF c
  <2>3. ASSUME NEW i \in 1..n PROVE c[i] = IF i < n THEN a[i] ELSE e
    <3>1. c[i] = IF i <= n - 1 THEN a[i] ELSE <<e>>[i - (n - 1)]
      BY <1>1, <1>2, <2>1, <2>2
    <3>2. CASE i < n
      BY <1>1, <3>1, <3>2
    <3>3. CASE i = n
      <4>1. i - (n - 1) = 1
        BY <1>1, <3>3
      <4> QED BY <1>1, <2>1, <3>1, <3>3, <4>1
    <3> QED BY <1>1, <3>2, <3>3
  <2> QED BY <1>1, <1>2, <2>1, <2>2, <2>3
<1> HIDE DEF c
<1>6. /\ w \in Seq(S) /\ Len(w) = Len(c) + Len(b)
      /\ \A i \in 1..(Len(c) + Len(b)) :
             w[i] = IF i <= Len(c) THEN c[i] ELSE b[i - Len(c)]
  BY <1>3, <1>5, ConcatProperties
<1> HIDE DEF w
<1>7. Len(c) + Len(b) = l + 1
  BY <1>1, <1>3, <1>5
<1>8. ASSUME NEW i \in 1..(l + 1)
      PROVE  w[i] = IF i < n THEN s[i] ELSE IF i = n THEN e ELSE s[i - 1]
  <2>1. w[i] = IF i <= n THEN c[i] ELSE b[i - n]
    BY <1>5, <1>6, <1>7
  <2>2. CASE i < n
    <3>1. i \in 1..(n - 1) /\ i \in 1..n
      BY <1>1, <2>2
    <3> QED BY <1>1, <1>2, <1>5, <2>1, <2>2, <3>1
  <2>3. CASE i = n
    BY <1>1, <1>5, <2>1, <2>3
  <2>4. CASE i > n
    <3>1. i - n \in 1..(l - n + 1) /\ n + (i - n) - 1 = i - 1
      BY <1>1, <2>4
    <3>2. b[i - n] = s[i - 1]
      BY <1>3, <3>1
    <3> QED BY <1>1, <2>1, <2>4, <3>2
  <2> QED BY <1>1, <2>2, <2>3, <2>4
<1> QED BY <1>4, <1>6, <1>7, <1>8 DEF l

(* No timer is in list s twice.                                            *)
Once(s) == \A i, j \in 1..Len(s) : i < j => s[i] # s[j]

LEMMA OnceFacts ==
    ASSUME NEW S, NEW s \in Seq(S), Once(s), NEW i \in 1..Len(s), NEW j \in 1..Len(s)
    PROVE  /\ s[i] = s[j] => i = j
           /\ Precedes(s, s[i], s[j]) <=> i < j
<1> DEFINE l == Len(s)
<1>1. l \in Nat /\ i \in 1..l /\ j \in 1..l
  BY LenProperties
<1>2. \A a, b \in 1..l : s[a] = s[b] => a = b
  <2>1. \A a, b \in 1..l : a < b => s[a] # s[b]
    BY DEF Once
  <2> HIDE DEF l
  <2> QED BY <1>1, <2>1
<1>3. Precedes(s, s[i], s[j]) <=> \E a, b \in 1..l : a < b /\ s[a] = s[i] /\ s[b] = s[j]
  BY DEF Precedes
<1> HIDE DEF l
<1> QED
  BY <1>1, <1>2, <1>3

(* What lists of timers are looked at for: members and their order.        *)
LEMMA RemovedFacts ==
    ASSUME NEW S, NEW s \in Seq(S), Once(s), NEW x
    PROVE  /\ Removed(s, x) \in Seq(S) /\ Once(Removed(s, x))
           /\ \A y : Contains(Removed(s, x), y) <=> Contains(s, y) /\ y # x
           /\ \A y, z : Precedes(Removed(s, x), y, z) <=> Precedes(s, y, z) /\ y # x /\ z # x
<1>1. CASE ~Contains(s, x)
  <2>1. Removed(s, x) = s
    BY <1>1 DEF Removed
  <2>2. \A y, z : Precedes(s, y, z) => Contains(s, y) /\ Contains(s, z)
    BY DEF Precedes, Contains
  <2>3. \A y : Contains(s, y) => y # x
    BY <1>1
  <2> QED BY <2>1, <2>2, <2>3
<1>2. CASE Contains(s, x)
  <2> DEFINE n == CHOOSE i \in 1..Len(s) : s[i] = x
             w == RemoveAt(s, n)
             l == Len(s)
  <2>1. n \in 1..l /\ s[n] = x /\ l \in Nat
    BY <1>2, LenProperties DEF Contains
  <2>2. w = Removed(s, x)
    BY <1>2 DEF Removed
  <2> HIDE DEF n
  <2>3. /\ w \in Seq(S) /\ Len(w) = l - 1
        /\ \A i \in 1..(l - 1) : w[i] = IF i < n THEN s[i] ELSE s[i + 1]
    BY <2>1, RemoveAtFacts
  <2>4. \A i, j \in 1..l : s[i] = s[j] => i = j
    BY OnceFacts
  <2>5. /\ \A y : Contains(s, y) <=> \E i \in 1..l : s[i] = y
        /\ \A y : Contains(w, y) <=> \E i \in 1..(l - 1) : w[i] = y
        /\ \A y, z : Precedes(s, y, z) <=> \E i, j \in 1..l : i < j /\ s[i] = y /\ s[j] = z
        /\ \A y, z : Precedes(w, y, z) <=> \E i, j \in 1..(l - 1) : i < j /\ w[i] = y /\ w[j] = z
        /\ Once(w) <=> \A i, j \in 1..(l - 1) : i < j => w[i] # w[j]
    BY <2>3 DEF Contains, Precedes, Once
  <2> HIDE DEF w, l
  <2> DEFINE from(i) == IF i < n THEN i ELSE i + 1
             to(i) == IF i < n THEN i ELSE i - 1
  <2>6. \A i \in 1..(l - 1) : from(i) \in 1..l /\ from(i) # n /\ w[i] = s[from(i)]
    BY <2>1, <2>3
  <2>7. \A i \in 1..l : i # n => to(i) \in 1..(l - 1) /\ from(to(i)) = i
    BY <2>1
  <2>8. \A i, j \in 1..(l - 1) : i < j => from(i) < from(j)
    BY <2>1
  <2>9. \A i, j \in 1..l : i # n /\ j # n /\ i < j => to(i) < to(j)
    BY <2>1
  <2> HIDE DEF from, to
  <2>10. \A i \in 1..l : i # n <=> s[i] # x
    BY <2>1, <2>4
  <2>11. Once(w)
    BY <2>1, <2>4, <2>5, <2>6, <2>8
  <2>12. ASSUME NEW y PROVE Contains(w, y) <=> Contains(s, y) /\ y # x
    <3>1. ASSUME Contains(w, y) PROVE Contains(s, y) /\ y # x
      <4>1. PICK i \in 1..(l - 1) : w[i] = y
        BY <2>5, <3>1
      <4> QED BY <2>5, <2>6, <2>10, <4>1
    <3>2. ASSUME Contains(s, y), y # x PROVE Contains(w, y)
      <4>1. PICK i \in 1..l : s[i] = y
        BY <2>5, <3>2
      <4>2. i # n
        BY <2>10, <3>2, <4>1
      <4>3. w[to(i)] = y /\ to(i) \in 1..(l - 1)
        BY <2>6, <2>7, <4>1, <4>2
      <4> QED BY <2>5, <4>3
    <3> QED BY <3>1, <3>2
  <2>13. ASSUME NEW y, NEW z PROVE Precedes(w, y, z) <=> Precedes(s, y, z) /\ y # x /\ z # x
    <3>1. ASSUME Precedes(w, y, z) PROVE Precedes(s, y, z) /\ y # x /\ z # x
      <4>1. PICK i, j \in 1..(l - 1) : i < j /\ w[i] = y /\ w[j] = z
        BY <2>5, <3>1
      <4>2. /\ from(i) \in 1..l /\ from(j) \in 1..l /\ from(i) < from(j)
            /\ s[from(i)] = y /\ s[from(j)] = z /\ from(i) # n /\ from(j) # n
        BY <2>6, <2>8, <4>1
      <4> QED BY <2>5, <2>10, <4>2
    <3>2. ASSUME Precedes(s, y, z), y # x, z # x PROVE Precedes(w, y, z)
      <4>1. PICK i, j \in 1..l : i < j /\ s[i] = y /\ s[j] = z
        BY <2>5, <3>2
      <4>2. i # n /\ j # n
        BY <2>10, <3>2, <4>1
      <4>3. /\ to(i) \in 1..(l - 1) /\ to(j) \in 1..(l - 1) /\ to(i) < to(j)
            /\ w[to(i)] = y /\ w[to(j)] = z
        BY <2>6, <2>7, <2>9, <4>1, <4>2
      <4> QED BY <2>5, <4>3
    <3> QED BY <3>1, <3>2
  <2> QED BY <2>2, <2>3, <2>11, <2>12, <2>13
<1> QED
  BY <1>1, <1>2

LEMMA TailFacts ==
    ASSUME NEW S, NEW s \in Seq(S), Once(s), s # << >>
    PROVE  /\ Head(s) \in S /\ Contains(s, Head(s)) /\ \A y : ~Precedes(s, y, Head(s))
           /\ \A y : Contains(s, y) => y = Head(s) \/ Precedes(s, Head(s), y)
           /\ Tail(s) \in Seq(S) /\ Once(Tail(s))
           /\ \A y : Contains(Tail(s), y) <=> Contains(s, y) /\ y # Head(s)
           /\ \A y, z : Precedes(Tail(s), y, z) <=> Precedes(s, y, z) /\ y # Head(s) /\ z # Head(s)
<1> DEFINE l == Len(s)
           w == Tail(s)
           h == Head(s)
<1>1. /\ l \in Nat /\ l >= 1 /\ h = s[1] /\ h \in S /\ w \in Seq(S) /\ Len(w) = l - 1
      /\ \A i \in 1..(l - 1) : w[i] = s[i + 1]
  BY HeadTailProperties, LenProperties, EmptySeq
<1>2. \A i, j \in 1..l : s[i] = s[j] => i = j
  BY OnceFacts
<1>3. /\ \A y : Contains(s, y) <=> \E i \in 1..l : s[i] = y
      /\ \A y : Contains(w, y) <=> \E i \in 1..(l - 1) : w[i] = y
      /\ \A y, z : Precedes(s, y, z) <=> \E i, j \in 1..l : i < j /\ s[i] = y /\ s[j] = z
      /\ \A y, z : Precedes(w, y, z) <=> \E i, j \in 1..(l - 1) : i < j /\ w[i] = y /\ w[j] = z
      /\ Once(w) <=> \A i, j \in 1..(l - 1) : i < j => w[i] # w[j]
  BY <1>1 DEF Contains, Precedes, Once
<1> HIDE DEF l, w, h
<1>4. \A i \in 1..l : i # 1 <=> s[i] # h
  BY <1>1, <1>2
<1>5. \A i \in 1..l : i # 1 => i - 1 \in 1..(l - 1) /\ w[i - 1] = s[i]
  BY <1>1
<1>6. \A i \in 1..(l - 1) : i + 1 \in 1..l /\ i + 1 # 1 /\ w[i] = s[i + 1]
  BY <1>1
<1>7. Contains(s, h) /\ \A y : ~Precedes(s, y, h)
  <2>1. 1 \in 1..l
    BY <1>1
  <2>2. ASSUME NEW y, Precedes(s, y, h) PROVE FALSE
    <3>1. PICK i, j \in 1..l : i < j /\ s[i] = y /\ s[j] = h
      BY <1>3, <2>2
    <3>2. j # 1
      BY <1>1, <3>1
    <3> QED BY <1>4, <3>1, <3>2
  <2>3. Contains(s, h)
    BY <1>1, <1>3, <2>1
  <2> QED BY <2>2, <2>3
<1>8. ASSUME NEW y, Contains(s, y) PROVE y = h \/ Precedes(s, h, y)
  <2>1. PICK i \in 1..l : s[i] = y
    BY <1>3, <1>8
  <2>2. 1 \in 1..l /\ (i = 1 \/ 1 < i)
    BY <1>1
  <2> QED BY <1>1, <1>3, <2>1, <2>2
<1>9. Once(w)
  <2> SUFFICES ASSUME NEW i \in 1..(l - 1), NEW j \in 1..(l - 1), i < j PROVE w[i] # w[j]
    BY <1>3
  <2>1. i + 1 # j + 1
    BY <1>1
  <2> QED BY <1>2, <1>6, <2>1
<1>10. ASSUME NEW y PROVE Contains(w, y) <=> Contains(s, y) /\ y # h
  <2>1. ASSUME Contains(w, y) PROVE Contains(s, y) /\ y # h
    <3>1. PICK i \in 1..(l - 1) : w[i] = y
      BY <1>3, <2>1
    <3> QED BY <1>3, <1>4, <1>6, <3>1
  <2>2. ASSUME Contains(s, y), y # h PROVE Contains(w, y)
    <3>1. PICK i \in 1..l : s[i] = y
      BY <1>3, <2>2
    <3> QED BY <1>3, <1>4, <1>5, <2>2, <3>1
  <2> QED BY <2>1, <2>2
<1>11. ASSUME NEW y, NEW z PROVE Precedes(w, y, z) <=> Precedes(s, y, z) /\ y # h /\ z # h
  <2>1. ASSUME Precedes(w, y, z) PROVE Precedes(s, y, z) /\ y # h /\ z # h
    <3>1. PICK i, j \in 1..(l - 1) : i < j /\ w[i] = y /\ w[j] = z
      BY <1>3, <2>1
    <3>2. i + 1 < j + 1
      BY <1>1, <3>1
    <3> QED BY <1>3, <1>4, <1>6, <3>1, <3>2
  <2>2. ASSUME Precedes(s, y, z), y # h, z # h PROVE Precedes(w, y, z)
    <3>1. PICK i, j \in 1..l : i < j /\ s[i] = y /\ s[j] = z
      BY <1>3, <2>2
    <3>2. i - 1 < j - 1
      BY <1>1, <3>1
    <3> QED BY <1>3, <1>4, <1>5, <2>2, <3>1, <3>2
  <2> QED BY <2>1, <2>2
<1> QED
  BY <1>1, <1>7, <1>8, <1>9, <1>10, <1>11 DEF w, h

(* A list with x linked before position n.                                 *)
InsertedAt(w, s, x, n) ==
    /\ Len(w) = Len(s) + 1
    /\ \A i \in 1..(Len(s) + 1) : w[i] = IF i < n THEN s[i] ELSE IF i = n THEN x ELSE s[i - 1]

LEMMA InsertedFacts ==
    ASSUME NEW S, NEW s \in Seq(S), Once(s), NEW x, ~Contains(s, x), NEW w,
           NEW n \in 1..(Len(s) + 1), InsertedAt(w, s, x, n)
    PROVE  /\ Once(w)
           /\ \A y : Contains(w, y) <=> Contains(s, y) \/ y = x
           /\ \A y, z : y # x /\ z # x => (Precedes(w, y, z) <=> Precedes(s, y, z))
           /\ \A y : Precedes(w, y, x) <=> \E i \in 1..Len(s) : i < n /\ s[i] = y
           /\ \A y : Precedes(w, x, y) <=> \E i \in 1..Len(s) : i >= n /\ s[i] = y
<1> DEFINE l == Len(s)
<1>1. l \in Nat /\ n \in 1..(l + 1)
  BY LenProperties
<1>2. \A i, j \in 1..l : s[i] = s[j] => i = j
  BY OnceFacts
<1>3. /\ Len(w) = l + 1 /\ \A i \in 1..l : s[i] # x
      /\ \A i \in 1..(l + 1) : w[i] = IF i < n THEN s[i] ELSE IF i = n THEN x ELSE s[i - 1]
  BY DEF InsertedAt, Contains
<1>4. /\ \A y : Contains(s, y) <=> \E i \in 1..l : s[i] = y
      /\ \A y : Contains(w, y) <=> \E i \in 1..(l + 1) : w[i] = y
      /\ \A y, z : Precedes(s, y, z) <=> \E i, j \in 1..l : i < j /\ s[i] = y /\ s[j] = z
      /\ \A y, z : Precedes(w, y, z) <=> \E i, j \in 1..(l + 1) : i < j /\ w[i] = y /\ w[j] = z
      /\ Once(w) <=> \A i, j \in 1..(l + 1) : i < j => w[i] # w[j]
  BY <1>3 DEF Contains, Precedes, Once
<1> HIDE DEF l
<1> DEFINE from(i) == IF i < n THEN i ELSE i - 1
           to(i) == IF i < n THEN i ELSE i + 1
<1>5. \A i \in 1..(l + 1) : i # n => from(i) \in 1..l /\ w[i] = s[from(i)]
                                     /\ (from(i) < n <=> i < n)
  BY <1>1, <1>3
<1>6. \A i \in 1..l : /\ to(i) \in 1..(l + 1) /\ to(i) # n /\ w[to(i)] = s[i]
                      /\ (to(i) < n <=> i < n)
  <2> SUFFICES ASSUME NEW i \in 1..l
               PROVE  /\ to(i) \in 1..(l + 1) /\ to(i) # n /\ w[to(i)] = s[i]
                      /\ (to(i) < n <=> i < n)
    OBVIOUS
  <2>1. CASE i < n
    <3>1. to(i) = i /\ i \in 1..(l + 1)
      BY <1>1, <2>1
    <3> HIDE DEF to
    <3> QED BY <1>1, <1>3, <2>1, <3>1
  <2>2. CASE ~(i < n)
    <3>1. to(i) = i + 1 /\ i + 1 \in 1..(l + 1) /\ ~(i + 1 < n) /\ i + 1 # n /\ (i + 1) - 1 = i
      BY <1>1, <2>2
    <3> HIDE DEF to
    <3>2. w[i + 1] = s[(i + 1) - 1]
      BY <1>3, <3>1
    <3> QED BY <2>2, <3>1, <3>2
  <2> QED BY <2>1, <2>2
<1>7. w[n] = x
  BY <1>1, <1>3
<1>8. \A i, j \in 1..(l + 1) : i # n /\ j # n /\ i < j => from(i) < from(j)
  BY <1>1
<1>9. \A i, j \in 1..l : i < j => to(i) < to(j)
  BY <1>1
<1> HIDE DEF from, to
<1>10. \A i \in 1..(l + 1) : i # n <=> w[i] # x
  BY <1>3, <1>5, <1>7
<1>11. ASSUME NEW y PROVE Contains(w, y) <=> Contains(s, y) \/ y = x
  <2>1. ASSUME Contains(w, y) PROVE Contains(s, y) \/ y = x
    <3>1. PICK i \in 1..(l + 1) : w[i] = y
      BY <1>4, <2>1
    <3> QED BY <1>4, <1>5, <1>7, <3>1
  <2>2. ASSUME Contains(s, y) PROVE Contains(w, y)
    <3>1. PICK i \in 1..l : s[i] = y
      BY <1>4, <2>2
    <3> QED BY <1>4, <1>6, <3>1
  <2>3. Contains(w, x)
    BY <1>1, <1>4, <1>7
  <2> QED BY <2>1, <2>2, <2>3
<1>12. Once(w)
  <2> SUFFICES ASSUME NEW i \in 1..(l + 1), NEW j \in 1..(l + 1), i < j, w[i] = w[j] PROVE FALSE
    BY <1>4
  <2>1. i # n /\ j # n
    BY <1>1, <1>7, <1>10
  <2>2. from(i) \in 1..l /\ from(j) \in 1..l /\ from(i) < from(j) /\ s[from(i)] = s[from(j)]
    BY <1>5, <1>8, <2>1
  <2>3. from(i) = from(j)
    BY <1>2, <2>2
  <2> QED BY <1>1, <2>2, <2>3
<1>13. ASSUME NEW y, NEW z, y # x, z # x PROVE Precedes(w, y, z) <=> Precedes(s, y, z)
  <2>1. ASSUME Precedes(w, y, z) PROVE Precedes(s, y, z)
    <3>1. PICK i, j \in 1..(l + 1) : i < j /\ w[i] = y /\ w[j] = z
      BY <1>4, <2>1
    <3>2. i # n /\ j # n
      BY <1>7, <1>13, <3>1
    <3>3. from(i) \in 1..l /\ from(j) \in 1..l /\ from(i) < from(j) /\ s[from(i)] = y /\ s[from(j)] = z
      BY <1>5, <1>8, <3>1, <3>2
    <3> QED BY <1>4, <3>3
  <2>2. ASSUME Precedes(s, y, z) PROVE Precedes(w, y, z)
    <3>1. PICK i, j \in 1..l : i < j /\ s[i] = y /\ s[j] = z
      BY <1>4, <2>2
    <3>2. to(i) \in 1..(l + 1) /\ to(j) \in 1..(l + 1) /\ to(i) < to(j) /\ w[to(i)] = y /\ w[to(j)] = z
      BY <1>6, <1>9, <3>1
    <3> QED BY <1>4, <3>2
  <2> QED BY <2>1, <2>2
<1>14. ASSUME NEW y PROVE Precedes(w, y, x) <=> \E i \in 1..l : i < n /\ s[i] = y
  <2>1. ASSUME Precedes(w, y, x) PROVE \E i \in 1..l : i < n /\ s[i] = y
    <3>1. PICK i, j \in 1..(l + 1) : i < j /\ w[i] = y /\ w[j] = x
      BY <1>4, <2>1
    <3>2. j = n /\ i # n /\ i < n
      BY <1>1, <1>10, <3>1
    <3> QED BY <1>5, <3>1, <3>2
  <2>2. ASSUME NEW i \in 1..l, i < n, s[i] = y PROVE Precedes(w, y, x)
    <3>1. to(i) \in 1..(l + 1) /\ to(i) < n /\ w[to(i)] = y
      BY <1>6, <2>2
    <3> QED BY <1>1, <1>4, <1>7, <3>1
  <2> QED BY <2>1, <2>2
<1>15. ASSUME NEW y PROVE Precedes(w, x, y) <=> \E i \in 1..l : i >= n /\ s[i] = y
  <2>1. ASSUME Precedes(w, x, y) PROVE \E i \in 1..l : i >= n /\ s[i] = y
    <3>1. PICK i, j \in 1..(l + 1) : i < j /\ w[i] = x /\ w[j] = y
      BY <1>4, <2>1
    <3>2. i = n /\ j # n /\ ~(j < n)
      BY <1>1, <1>10, <3>1
    <3>3. from(j) \in 1..l /\ s[from(j)] = y /\ ~(from(j) < n)
      BY <1>5, <3>1, <3>2
    <3>4. from(j) >= n
      BY <1>1, <3>3
    <3> QED BY <3>3, <3>4
  <2>2. ASSUME NEW i \in 1..l, i >= n, s[i] = y PROVE Precedes(w, x, y)
    <3>1. to(i) \in 1..(l + 1) /\ to(i) # n /\ ~(to(i) < n) /\ w[to(i)] = y
      BY <1>1, <1>6, <2>2
    <3>2. n < to(i)
      BY <1>1, <3>1
    <3> QED BY <1>1, <1>4, <1>7, <3>1, <3>2
  <2> QED BY <2>1, <2>2
<1> QED
  BY <1>11, <1>12, <1>13, <1>14, <1>15 DEF l

-----------------------------------------------------------------------------
(* The ordered list.                                                       *)

Dist(x) == Gap(tick, timer[x].out)

(* The list is in order, and every timer in it is near enough to tick out  *)
(* for the code's comparison to be right.                                  *)
Ordered(s) == Once(s) /\ \A y, z \in Timers : Precedes(s, y, z) => Dist(y) <= Dist(z)
NearTo(s, out) ==
    \A y \in Timers :
       Contains(s, y) => Dist(y) - Gap(tick, out) < Half /\ Gap(tick, out) - Dist(y) < Half

(* x is linked in s where its expiry time puts it, behind its equals.      *)
LinkedIn(w, s, x, g) ==
    /\ w \in Seq(Timers) /\ Once(w)
    /\ \A y : Contains(w, y) <=> Contains(s, y) \/ y = x
    /\ \A y, z : y # x /\ z # x => (Precedes(w, y, z) <=> Precedes(s, y, z))
    /\ \A y \in Timers : Precedes(w, y, x) <=> Contains(s, y) /\ Dist(y) <= g
    /\ \A y \in Timers : Precedes(w, x, y) <=> Contains(s, y) /\ Dist(y) > g

LEMMA AppendFacts ==
    ASSUME NEW S, NEW s \in Seq(S), NEW x \in S
    PROVE  Append(s, x) \in Seq(S) /\ InsertedAt(Append(s, x), s, x, Len(s) + 1)
<1> DEFINE l == Len(s)
           w == Append(s, x)
<1>1. l \in Nat /\ w \in Seq(S) /\ Len(w) = l + 1 /\ w[l + 1] = x /\ \A i \in 1..l : w[i] = s[i]
  BY AppendProperties, LenProperties
<1> HIDE DEF l, w
<1>2. \A i \in 1..(l + 1) : i < l + 1 \/ i = l + 1
  BY <1>1
<1>3. \A i \in 1..(l + 1) : i < l + 1 => i \in 1..l
  BY <1>1
<1>4. \A i \in 1..(l + 1) : w[i] = IF i < l + 1 THEN s[i] ELSE IF i = l + 1 THEN x ELSE s[i - 1]
  BY <1>1, <1>2, <1>3
<1> QED
  BY <1>1, <1>4 DEF l, w, InsertedAt

LEMMA InsertFacts ==
    ASSUME tick \in Ticks, \A y \in Timers : timer[y].out \in Ticks,
           NEW s \in Seq(Timers), Ordered(s), NEW out \in Ticks, NearTo(s, out),
           NEW x \in Timers, ~Contains(s, x)
    PROVE  LinkedIn(Insert(s, x, out), s, x, Gap(tick, out))
<1> DEFINE l == Len(s)
           g == Gap(tick, out)
           I == {i \in 1..l : Behind(out, timer[s[i]].out) \in 1..(Half - 1)}
           w == Insert(s, x, out)
<1>1. l \in Nat /\ \A i \in 1..l : s[i] \in Timers /\ Contains(s, s[i])
  BY LenProperties, ElementOfSeq DEF Contains
<1>2. g \in Int /\ \A y \in Timers : Dist(y) \in Int
  BY GapRange DEF Dist
<1>3. \A i \in 1..l : i \in I <=> g < Dist(s[i])
  <2> SUFFICES ASSUME NEW i \in 1..l PROVE i \in I <=> g < Dist(s[i])
    OBVIOUS
  <2>1. timer[s[i]].out \in Ticks /\ s[i] \in Timers
    BY <1>1
  <2>2. g - Dist(s[i]) < Half /\ Dist(s[i]) - g < Half
    BY <1>1 DEF NearTo
  <2>3. Behind(out, timer[s[i]].out) \in 1..(Half - 1) <=> Gap(tick, out) < Gap(tick, timer[s[i]].out)
    BY <2>1, <2>2, GapCompare DEF Dist
  <2> QED BY <2>3 DEF Dist
<1>4. w = IF I = {} THEN Append(s, x) ELSE InsertAt(s, Min(I), x)
  BY DEF Insert
<1>5. \A i, j \in 1..l : i < j => Dist(s[i]) <= Dist(s[j])
  <2> SUFFICES ASSUME NEW i \in 1..l, NEW j \in 1..l, i < j PROVE Dist(s[i]) <= Dist(s[j])
    OBVIOUS
  <2>1. Precedes(s, s[i], s[j])
    BY DEF Precedes
  <2> QED BY <1>1, <2>1 DEF Ordered
<1>6. I \in SUBSET (1..l)
  OBVIOUS
<1> HIDE DEF I
<1>7. ASSUME NEW n \in 1..(l + 1), w \in Seq(Timers), InsertedAt(w, s, x, n),
             \A i \in 1..l : i < n <=> Dist(s[i]) <= g
      PROVE  LinkedIn(w, s, x, g)
  <2>0. Once(s)
    BY DEF Ordered
  <2>1. /\ Once(w)
        /\ \A y : Contains(w, y) <=> Contains(s, y) \/ y = x
        /\ \A y, z : y # x /\ z # x => (Precedes(w, y, z) <=> Precedes(s, y, z))
        /\ \A y : Precedes(w, y, x) <=> \E i \in 1..l : i < n /\ s[i] = y
        /\ \A y : Precedes(w, x, y) <=> \E i \in 1..l : i >= n /\ s[i] = y
    <3> HIDE DEF w
    <3> QED BY <1>7, <2>0, InsertedFacts
  <2>2. \A i \in 1..l : i >= n <=> Dist(s[i]) > g
    <3>1. \A i \in 1..l : i >= n <=> ~(i < n)
      BY <1>1
    <3>2. \A i \in 1..l : Dist(s[i]) > g <=> ~(Dist(s[i]) <= g)
      BY <1>1, <1>2
    <3> QED BY <1>7, <3>1, <3>2
  <2>3. \A y : Contains(s, y) <=> \E i \in 1..l : s[i] = y
    BY DEF Contains
  <2> HIDE DEF w, l, g
  <2>4. \A y : Precedes(w, y, x) <=> Contains(s, y) /\ Dist(y) <= g
    BY <1>7, <2>1, <2>3
  <2>5. \A y : Precedes(w, x, y) <=> Contains(s, y) /\ Dist(y) > g
    BY <2>1, <2>2, <2>3
  <2> QED BY <1>7, <2>1, <2>4, <2>5 DEF LinkedIn
<1>8. CASE I = {}
  <2>1. w \in Seq(Timers) /\ InsertedAt(w, s, x, l + 1)
    BY <1>4, <1>8, AppendFacts
  <2>2. \A i \in 1..l : i < l + 1 <=> Dist(s[i]) <= g
    BY <1>1, <1>2, <1>3, <1>8
  <2>3. l + 1 \in 1..(l + 1)
    BY <1>1
  <2> HIDE DEF w, l, g
  <2> QED BY <1>7, <2>1, <2>2, <2>3 DEF w, g
<1>9. CASE I # {}
  <2> DEFINE n == Min(I)
  <2>1. n \in I /\ \A j \in I : n <= j
    <3>1. I \in SUBSET Nat
      BY <1>1, <1>6
    <3> QED BY <1>9, <3>1, MinOfOffsets
  <2>2. w = InsertAt(s, n, x)
    BY <1>4, <1>9
  <2> HIDE DEF n, w
  <2>3. n \in 1..l /\ n \in 1..(l + 1) /\ g < Dist(s[n])
    BY <1>1, <1>3, <1>6, <2>1
  <2>4. w \in Seq(Timers) /\ InsertedAt(w, s, x, n)
    <3>1. /\ InsertAt(s, n, x) \in Seq(Timers) /\ Len(InsertAt(s, n, x)) = l + 1
          /\ \A i \in 1..(l + 1) : InsertAt(s, n, x)[i] =
                IF i < n THEN s[i] ELSE IF i = n THEN x ELSE s[i - 1]
      BY <2>3, InsertAtFacts
    <3> QED BY <2>2, <3>1 DEF InsertedAt
  <2>5. ASSUME NEW i \in 1..l PROVE i < n <=> Dist(s[i]) <= g
    <3>1. i < n => i \notin I
      BY <1>1, <1>6, <2>1, <2>3
    <3>2. n < i => g < Dist(s[i])
      <4>1. n < i => Dist(s[n]) <= Dist(s[i])
        BY <1>5, <2>3
      <4> QED BY <1>1, <1>2, <2>3, <4>1
    <3>3. i < n \/ i = n \/ n < i
      BY <1>1, <2>3
    <3> QED BY <1>1, <1>2, <1>3, <2>3, <3>1, <3>2, <3>3
  <2> HIDE DEF l, g
  <2> QED BY <1>7, <2>3, <2>4, <2>5 DEF w, g
<1> QED
  BY <1>8, <1>9

-----------------------------------------------------------------------------
(* The invariant.                                                          *)

(* A timer in the list is neither further away than the longest time, nor  *)
(* later than a start may be; between two ticks the rest has fired.        *)
Listed(x) ==
    Contains(list, x) =>
       /\ -(MaxLate + 1) <= Dist(x) /\ Dist(x) <= Horizon
       /\ check = "out" => -MaxLate <= Dist(x)
       /\ check # x

(* A timer that may fire is marked active, also in the flag byte that      *)
(* rt_timer_control is about to store; its thread is not in a start.       *)
Marked(x) ==
    Contains(list, x) \/ check = x =>
       /\ "ACTIVATED" \in timer[x].flag
       /\ call[x].at \in {"out", "stop", "control"}
       /\ call[x].at = "control" => "ACTIVATED" \in call[x].flag

(* A periodic timer has a time, and a start is not too late.               *)
Timed(x) ==
    /\ "PERIODIC" \in timer[x].flag => timer[x].init # 0
    /\ call[x].at = "control" /\ "PERIODIC" \in call[x].flag => timer[x].init # 0
    /\ call[x].at = "start" =>
         /\ Lateness(timer[x].out, timer[x].init, tick) <= MaxLate
         /\ Dist(x) = timer[x].init - Lateness(timer[x].out, timer[x].init, tick)

Sound(x) == Listed(x) /\ Marked(x) /\ Timed(x)

TimerInv == TimerTypeOK /\ Ordered(list) /\ \A x \in Timers : Sound(x)

LEMMA TypeFacts ==
    ASSUME TimerTypeOK
    PROVE  /\ tick \in Ticks /\ list \in Seq(Timers)
           /\ \A x \in Timers :
                /\ timer[x] = [out |-> timer[x].out, init |-> timer[x].init, flag |-> timer[x].flag]
                /\ timer[x].out \in Ticks /\ timer[x].init \in Times /\ timer[x].flag \in SUBSET Flag
                /\ timer[x].init \in Nat /\ timer[x].init <= Horizon /\ timer[x].init < Half
                /\ call[x] = [at |-> call[x].at, flag |-> call[x].flag]
                /\ call[x].at \in Labels /\ call[x].flag \in SUBSET Flag
                /\ Dist(x) \in Int
                /\ Lateness(timer[x].out, timer[x].init, tick) \in Nat
<1>1. tick \in Ticks /\ list \in Seq(Timers)
  BY DEF TimerTypeOK, Ticks
<1>2. ASSUME NEW x \in Timers
      PROVE  /\ timer[x] = [out |-> timer[x].out, init |-> timer[x].init, flag |-> timer[x].flag]
             /\ timer[x].out \in Ticks /\ timer[x].init \in Times /\ timer[x].flag \in SUBSET Flag
             /\ call[x] = [at |-> call[x].at, flag |-> call[x].flag]
             /\ call[x].at \in Labels /\ call[x].flag \in SUBSET Flag
  <2>1. timer[x] \in [out: Ticks, init: Times, flag: SUBSET Flag]
    BY DEF TimerTypeOK, Ticks
  <2>2. call[x] \in [at: Labels, flag: SUBSET Flag]
    BY DEF TimerTypeOK
  <2> QED BY <2>1, <2>2
<1>3. \A x \in Timers : timer[x].init \in Nat /\ timer[x].init <= Horizon /\ timer[x].init < Half
  <2>1. \A d \in Times : d \in Nat /\ d <= Horizon /\ d < Half
    BY TickFacts
  <2> QED BY <1>2, <2>1
<1>4. \A x \in Timers : Dist(x) \in Int /\ Lateness(timer[x].out, timer[x].init, tick) \in Nat
  BY <1>1, <1>2, <1>3, GapRange, LateType DEF Dist
<1> QED
  BY <1>1, <1>2, <1>3, <1>4

LEMMA PrecedesMembers ==
    ASSUME NEW s, NEW x, NEW y, Precedes(s, x, y)
    PROVE  Contains(s, x) /\ Contains(s, y)
  BY DEF Precedes, Contains

(* A step that leaves timer y alone.                                       *)
Same(y) ==
    /\ tick' = tick /\ (check' = "out" => check = "out") /\ (check' = y => check = y)
    /\ timer'[y] = timer[y] /\ call'[y] = call[y]
    /\ Contains(list', y) <=> Contains(list, y)

LEMMA SameSound ==
    ASSUME NEW y \in Timers, Sound(y), Same(y)
    PROVE  Sound(y)' /\ Dist(y)' = Dist(y)
<1>1. Dist(y)' = Dist(y)
  BY DEF Same, Dist
<1>2. Listed(y)'
  BY <1>1 DEF Same, Sound, Listed
<1>3. Marked(y)'
  BY DEF Same, Sound, Marked
<1>4. Timed(y)'
  BY <1>1 DEF Same, Sound, Timed
<1> QED
  BY <1>1, <1>2, <1>3, <1>4 DEF Sound

(* Steps of the thread of x that leave the list alone, or unlink x.        *)
LEMMA ThreadStep ==
    ASSUME TimerInv, NEW x \in Timers, UNCHANGED << tick, check >>,
           \/ list' = list /\ (Contains(list, x) => timer'[x].out = timer[x].out)
           \/ list' = Removed(list, x),
           NEW r \in [out: Ticks, init: Times, flag: SUBSET Flag],
           timer' = [timer EXCEPT ![x] = r],
           NEW c \in [at: Labels, flag: SUBSET Flag], call' = [call EXCEPT ![x] = c],
           Sound(x)'
    PROVE  TimerInv'
<1>1. TimerTypeOK /\ Ordered(list) /\ \A y \in Timers : Sound(y)
  BY DEF TimerInv
<1>2. tick \in Ticks /\ list \in Seq(Timers) /\ Once(list)
  BY <1>1, TypeFacts DEF Ordered
<1>3. timer \in [Timers -> [out: Ticks, init: Times, flag: SUBSET Flag]]
      /\ call \in [Timers -> [at: Labels, flag: SUBSET Flag]]
  BY <1>1 DEF TimerTypeOK, Ticks
<1>4. /\ timer' \in [Timers -> [out: Ticks, init: Times, flag: SUBSET Flag]]
      /\ call' \in [Timers -> [at: Labels, flag: SUBSET Flag]]
      /\ \A y \in Timers \ {x} : timer'[y] = timer[y] /\ call'[y] = call[y]
  BY <1>3
<1>5. /\ list' \in Seq(Timers) /\ Once(list')
      /\ \A y, z : Precedes(list', y, z) => Precedes(list, y, z)
      /\ \A y \in Timers \ {x} : Contains(list', y) <=> Contains(list, y)
      /\ Contains(list', x) => Contains(list, x) /\ timer'[x].out = timer[x].out
  <2>1. CASE list' = list /\ (Contains(list, x) => timer'[x].out = timer[x].out)
    BY <1>2, <2>1
  <2>2. CASE list' = Removed(list, x)
    BY <1>2, <2>2, RemovedFacts
  <2> QED BY <2>1, <2>2
<1>6. \A y \in Timers \ {x} : Same(y)
  BY <1>4, <1>5 DEF Same
<1>7. \A y \in Timers \ {x} : Sound(y)' /\ Dist(y)' = Dist(y)
  BY <1>1, <1>6, SameSound
<1>8. Contains(list', x) => Dist(x)' = Dist(x)
  BY <1>5 DEF Dist
<1>9. Ordered(list)'
  <2> SUFFICES ASSUME NEW y \in Timers, NEW z \in Timers, Precedes(list', y, z)
               PROVE  Dist(y)' <= Dist(z)'
    BY <1>5 DEF Ordered
  <2>1. Contains(list', y) /\ Contains(list', z)
    BY PrecedesMembers
  <2>2. Dist(y)' = Dist(y) /\ Dist(z)' = Dist(z)
    BY <1>7, <1>8, <2>1
  <2>3. Dist(y) <= Dist(z)
    BY <1>1, <1>5 DEF Ordered
  <2> QED BY <2>2, <2>3
<1>10. TimerTypeOK'
  BY <1>1, <1>4, <1>5 DEF TimerTypeOK, Ticks
<1> QED
  BY <1>7, <1>9, <1>10 DEF TimerInv

-----------------------------------------------------------------------------
(* The calls of the threads keep the invariant.                            *)

(* Assignments to the fields of a timer.                                   *)
Rec(o, i, f) == [out |-> o, init |-> i, flag |-> f]

LEMMA RecFacts ==
    ASSUME NEW o, NEW i, NEW f
    PROVE  /\ Rec(o, i, f).out = o /\ Rec(o, i, f).init = i /\ Rec(o, i, f).flag = f
           /\ o \in Ticks /\ i \in Times /\ f \in SUBSET Flag
                => Rec(o, i, f) \in [out: Ticks, init: Times, flag: SUBSET Flag]
  BY DEF Rec

(* What a thread's call finds.                                             *)
LEMMA AtCall ==
    ASSUME TimerInv, NEW x \in Timers
    PROVE  /\ Sound(x) /\ timer[x].out \in Ticks /\ timer[x].init \in Times
           /\ timer[x].flag \in SUBSET Flag /\ call[x].flag \in SUBSET Flag
           /\ timer[x].init \in Nat /\ timer[x].init <= Horizon /\ timer[x].init < Half
           /\ tick \in Ticks /\ Dist(x) \in Int
           /\ timer = [y \in Timers |-> timer[y]] /\ call = [y \in Timers |-> call[y]]
           /\ timer[x] = Rec(timer[x].out, timer[x].init, timer[x].flag)
           /\ call[x] = [at |-> call[x].at, flag |-> call[x].flag]
<1>1. TimerTypeOK /\ Sound(x)
  BY DEF TimerInv
<1>2. timer = [y \in Timers |-> timer[y]] /\ call = [y \in Timers |-> call[y]]
  BY <1>1 DEF TimerTypeOK
<1> QED
  BY <1>1, <1>2, TypeFacts DEF Rec

LEMMA FieldSteps ==
    ASSUME TimerInv, NEW x \in Timers, NEW v
    PROVE  /\ [timer EXCEPT ![x].out = v] = [timer EXCEPT ![x] = Rec(v, timer[x].init, timer[x].flag)]
           /\ [timer EXCEPT ![x].init = v] = [timer EXCEPT ![x] = Rec(timer[x].out, v, timer[x].flag)]
           /\ [timer EXCEPT ![x].flag = v] = [timer EXCEPT ![x] = Rec(timer[x].out, timer[x].init, v)]
<1> DEFINE o == timer[x].out
           i == timer[x].init
           f == timer[x].flag
<1>1. timer[x] = Rec(o, i, f)
  BY AtCall
<1> HIDE DEF o, i, f
<1>2. /\ [timer EXCEPT ![x].out = v] = [timer EXCEPT ![x] = Rec(v, i, f)]
      /\ [timer EXCEPT ![x].init = v] = [timer EXCEPT ![x] = Rec(o, v, f)]
      /\ [timer EXCEPT ![x].flag = v] = [timer EXCEPT ![x] = Rec(o, i, v)]
  <2> DEFINE r == timer[x]
  <2>1. /\ [r EXCEPT !.out = v] = Rec(v, i, f)
        /\ [r EXCEPT !.init = v] = Rec(o, v, f)
        /\ [r EXCEPT !.flag = v] = Rec(o, i, v)
    <3> HIDE DEF r
    <3> QED BY <1>1 DEF Rec, r
  <2>2. /\ [timer EXCEPT ![x].out = v] = [timer EXCEPT ![x] = [r EXCEPT !.out = v]]
        /\ [timer EXCEPT ![x].init = v] = [timer EXCEPT ![x] = [r EXCEPT !.init = v]]
        /\ [timer EXCEPT ![x].flag = v] = [timer EXCEPT ![x] = [r EXCEPT !.flag = v]]
    OBVIOUS
  <2> QED BY <2>1, <2>2
<1> QED
  BY <1>2 DEF o, i, f

LEMMA TimerStartStep ==
    ASSUME TimerInv, NEW x \in Timers, TimerStart(x)
    PROVE  /\ TimerInv' /\ ~Contains(list, x) /\ Dist(x)' = timer[x].init
           /\ call[x].at = "out" /\ call'[x].at = "start"
<1> DEFINE o == (tick + timer[x].init) % TickMod
           r == Rec(o, timer[x].init, timer[x].flag)
           c == [at |-> "start", flag |-> {}]
<1>1. /\ Thread(x, "out") /\ "ACTIVATED" \notin timer[x].flag
      /\ timer' = [timer EXCEPT ![x].out = o] /\ call' = [call EXCEPT ![x] = c]
      /\ UNCHANGED << tick, list, check >>
  BY DEF TimerStart, Goto
<1>2. o \in Ticks /\ Gap(tick, o) = timer[x].init /\ Lateness(o, timer[x].init, tick) = 0
  BY AtCall, GapStart, LateStart
<1> HIDE DEF o
<1>3. timer' = [timer EXCEPT ![x] = r]
  BY <1>1, FieldSteps, Zenon
<1>4. r \in [out: Ticks, init: Times, flag: SUBSET Flag] /\ c \in [at: Labels, flag: SUBSET Flag]
  BY <1>2, AtCall, RecFacts DEF Labels
<1>5. timer'[x] = r /\ call'[x] = c
  BY <1>1, <1>3, AtCall
<1>6. ~Contains(list, x) /\ check # x
  BY <1>1, AtCall DEF Sound, Marked
<1>7. timer'[x].out = o /\ timer'[x].init = timer[x].init /\ timer'[x].flag = timer[x].flag
      /\ call'[x].at = "start" /\ call'[x].flag = {}
  BY <1>5, RecFacts
<1>8. Sound(x)'
  <2>1. ~Contains(list', x) /\ check' # x
    BY <1>1, <1>6
  <2>2. Listed(x)' /\ Marked(x)'
    BY <2>1 DEF Listed, Marked
  <2>3. Dist(x)' = timer[x].init
    BY <1>1, <1>2, <1>7 DEF Dist
  <2>4. Timed(x)'
    <3>1. Lateness(timer'[x].out, timer'[x].init, tick') = 0
      BY <1>1, <1>2, <1>7
    <3>2. 0 <= MaxLate /\ timer[x].init - 0 = timer[x].init
      <4> DEFINE i == timer[x].init
      <4>1. i \in Nat
        BY AtCall
      <4> HIDE DEF i
      <4>2. i - 0 = i /\ 0 <= MaxLate
        BY <4>1, TickFacts
      <4> QED BY <4>2 DEF i
    <3>3. "PERIODIC" \in timer[x].flag => timer[x].init # 0
      BY AtCall DEF Sound, Timed
    <3> QED BY <1>7, <2>3, <3>1, <3>2, <3>3 DEF Timed
  <2> QED BY <2>2, <2>4 DEF Sound
<1>9. TimerInv'
  <2> HIDE DEF r, c
  <2> QED BY <1>1, <1>3, <1>4, <1>6, <1>8, ThreadStep
<1>10. Dist(x)' = timer[x].init
  BY <1>1, <1>2, <1>7 DEF Dist
<1> QED
  BY <1>1, <1>6, <1>7, <1>9, <1>10 DEF Thread

(* A step of x's thread after which x is neither linked nor in a start.    *)
LEMMA QuietSound ==
    ASSUME NEW x \in Timers, ~Contains(list', x), check' # x, call'[x].at # "start",
           "PERIODIC" \in timer'[x].flag => timer'[x].init # 0,
           call'[x].at = "control" /\ "PERIODIC" \in call'[x].flag => timer'[x].init # 0
    PROVE  Sound(x)'
  BY DEF Sound, Listed, Marked, Timed

LEMMA TimerUnlinkStep ==
    ASSUME TimerInv, NEW x \in Timers, NEW at \in {"clear", "gone"}, check = "out",
           list' = Removed(list, x), timer' = [timer EXCEPT ![x].out = 0], Goto(x, at),
           UNCHANGED << tick, check >>
    PROVE  TimerInv' /\ call'[x].at # "start"
<1> DEFINE r == Rec(0, timer[x].init, timer[x].flag)
           c == [at |-> at, flag |-> {}]
<1>1. timer' = [timer EXCEPT ![x] = r] /\ call' = [call EXCEPT ![x] = c]
  <2>1. timer' = [timer EXCEPT ![x] = r]
    BY FieldSteps, Zenon
  <2> QED BY <2>1 DEF Goto
<1>2. r \in [out: Ticks, init: Times, flag: SUBSET Flag] /\ c \in [at: Labels, flag: SUBSET Flag]
  <2>1. 0 \in Ticks
    BY TickFacts DEF Ticks
  <2>2. at \in Labels /\ {} \in SUBSET Flag
    BY DEF Labels
  <2> QED BY <2>1, <2>2, AtCall, RecFacts
<1>3. timer'[x] = r /\ call'[x] = c /\ r.flag = timer[x].flag /\ r.init = timer[x].init
  <2>1. timer'[x] = r /\ call'[x] = c
    BY <1>1, AtCall
  <2> QED BY <2>1, RecFacts
<1>4. ~Contains(list', x)
  BY TypeFacts, RemovedFacts DEF TimerInv, Ordered
<1>5. check' # x
  BY TimerAssumption
<1>6. "PERIODIC" \in timer[x].flag => timer[x].init # 0
  BY AtCall DEF Sound, Timed
<1>7. Sound(x)'
  BY <1>3, <1>4, <1>5, <1>6, QuietSound
<1>8. call'[x].at # "start"
  BY <1>3
<1> HIDE DEF r, c
<1> QED
  BY <1>1, <1>2, <1>7, <1>8, ThreadStep

LEMMA TimerCreateStep ==
    ASSUME TimerInv, NEW x \in Timers, NEW d \in Times, TimerCreate(x, d)
    PROVE  TimerInv' /\ ~Contains(list, x) /\ call[x].at # "start" /\ call'[x].at # "start"
<1>1. /\ Thread(x, "gone") /\ Goto(x, "out") /\ UNCHANGED << tick, list, check >>
      /\ \E mode \in Mode(d) : timer' = [timer EXCEPT ![x] = [out |-> 0, init |-> d, flag |-> mode]]
  BY DEF TimerCreate
<1>2. PICK mode \in Mode(d) : timer' = [timer EXCEPT ![x] = [out |-> 0, init |-> d, flag |-> mode]]
  BY <1>1
<1>3. mode \in SUBSET Flag /\ ("PERIODIC" \in mode => d # 0)
  BY DEF Mode, Flag
<1> DEFINE r == Rec(0, d, mode)
           c == [at |-> "out", flag |-> {}]
<1>4. timer' = [timer EXCEPT ![x] = r] /\ call' = [call EXCEPT ![x] = c]
  BY <1>1, <1>2 DEF Goto, Rec
<1>5. r \in [out: Ticks, init: Times, flag: SUBSET Flag] /\ c \in [at: Labels, flag: SUBSET Flag]
  <2>1. 0 \in Ticks
    BY TickFacts DEF Ticks
  <2> QED BY <1>3, <2>1, RecFacts DEF Labels
<1>6. timer'[x] = r /\ call'[x] = c /\ r.flag = mode /\ r.init = d
  <2>1. timer'[x] = r /\ call'[x] = c
    BY <1>4, AtCall
  <2> QED BY <2>1, RecFacts
<1>7. call[x].at = "gone" /\ ~Contains(list, x) /\ check # x
  BY <1>1, AtCall DEF Thread, Sound, Marked
<1>8. ~Contains(list', x) /\ check' # x
  BY <1>1, <1>7
<1>9. Sound(x)' /\ call'[x].at # "start"
  BY <1>3, <1>6, <1>8, QuietSound
<1> HIDE DEF r, c
<1> QED
  BY <1>1, <1>4, <1>5, <1>7, <1>9, ThreadStep

(* A call that changes a flag, a time or only its own place.               *)
LEMMA QuietStep ==
    ASSUME TimerInv, NEW x \in Timers, UNCHANGED << tick, list, check >>,
           NEW i \in Times, NEW f \in SUBSET Flag, timer' = [timer EXCEPT ![x] = Rec(timer[x].out, i, f)],
           NEW at \in Labels \ {"start"}, NEW g \in SUBSET Flag,
           call' = [call EXCEPT ![x] = [at |-> at, flag |-> g]],
           Contains(list, x) \/ check = x =>
              /\ "ACTIVATED" \in f /\ at \in {"out", "stop", "control"}
              /\ at = "control" => "ACTIVATED" \in g,
           "PERIODIC" \in f => i # 0,
           at = "control" /\ "PERIODIC" \in g => i # 0
    PROVE  TimerInv' /\ timer'[x].out = timer[x].out /\ call'[x].at # "start"
<1> DEFINE r == Rec(timer[x].out, i, f)
           c == [at |-> at, flag |-> g]
<1>1. r \in [out: Ticks, init: Times, flag: SUBSET Flag] /\ c \in [at: Labels, flag: SUBSET Flag]
  BY AtCall, RecFacts
<1>2. timer'[x] = r /\ call'[x] = c
  BY AtCall
<1>3. timer'[x].out = timer[x].out /\ timer'[x].init = i /\ timer'[x].flag = f
      /\ call'[x].at = at /\ call'[x].flag = g
  BY <1>2, RecFacts
<1>4. Dist(x)' = Dist(x)
  BY <1>3 DEF Dist
<1>5. Listed(x)'
  <2>1. Listed(x)
    BY AtCall DEF Sound
  <2> QED BY <1>4, <2>1 DEF Listed
<1>6. Marked(x)' /\ Timed(x)'
  BY <1>3 DEF Marked, Timed
<1>7. Sound(x)'
  BY <1>5, <1>6 DEF Sound
<1> HIDE DEF r, c
<1>8. timer' = [timer EXCEPT ![x] = r] /\ call' = [call EXCEPT ![x] = c]
  BY DEF r, c
<1> QED
  BY <1>1, <1>3, <1>7, <1>8, ThreadStep

(* What a step that changes nothing the list depends on leaves.            *)
Quiet(x) ==
    /\ UNCHANGED << tick, list, check >> /\ TimerInv'
    /\ \A y \in Timers \ {x} : timer'[y] = timer[y] /\ call'[y] = call[y]
    /\ timer'[x].out = timer[x].out \/ ~Contains(list, x)
    /\ call[x].at # "start" /\ call'[x].at # "start"

LEMMA UnchangedTimer ==
    ASSUME TimerInv, NEW x \in Timers
    PROVE  timer = [timer EXCEPT ![x] = Rec(timer[x].out, timer[x].init, timer[x].flag)]
<1>1. timer[x] = Rec(timer[x].out, timer[x].init, timer[x].flag)
  BY AtCall
<1> DEFINE r == Rec(timer[x].out, timer[x].init, timer[x].flag)
<1>2. timer = [timer EXCEPT ![x] = timer[x]]
  BY AtCall
<1> HIDE DEF r
<1> QED
  BY <1>1, <1>2 DEF r

LEMMA TimerStopStep ==
    ASSUME TimerInv, NEW x \in Timers, TimerStop(x)
    PROVE  Quiet(x)
<1>1. /\ Thread(x, "out") /\ "ACTIVATED" \in timer[x].flag /\ Goto(x, "stop")
      /\ UNCHANGED << tick, list, timer, check >>
  BY DEF TimerStop
<1>2. timer' = [timer EXCEPT ![x] = Rec(timer[x].out, timer[x].init, timer[x].flag)]
  BY <1>1, UnchangedTimer
<1>3. call' = [call EXCEPT ![x] = [at |-> "stop", flag |-> {}]] /\ call[x].at = "out"
  BY <1>1 DEF Goto, Thread
<1>4. "PERIODIC" \in timer[x].flag => timer[x].init # 0
  BY AtCall DEF Sound, Timed
<1>5. "stop" \in Labels \ {"start"} /\ {} \in SUBSET Flag
  BY DEF Labels
<1>6. timer[x].init \in Times /\ timer[x].flag \in SUBSET Flag
  BY AtCall
<1>7. TimerInv' /\ call'[x].at # "start"
  BY <1>1, <1>2, <1>3, <1>4, <1>5, <1>6, QuietStep
<1>8. \A y \in Timers \ {x} : timer'[y] = timer[y] /\ call'[y] = call[y]
  BY <1>1, <1>3, AtCall
<1> QED
  BY <1>1, <1>3, <1>7, <1>8 DEF Quiet

LEMMA TimerClearStep ==
    ASSUME TimerInv, NEW x \in Timers, TimerClear(x)
    PROVE  Quiet(x)
<1> DEFINE f == timer[x].flag \ {"ACTIVATED"}
<1>1. /\ Thread(x, "clear") /\ timer' = [timer EXCEPT ![x].flag = f] /\ Goto(x, "out")
      /\ UNCHANGED << tick, list, check >>
  BY DEF TimerClear
<1>2. f \in SUBSET Flag /\ ("PERIODIC" \in f => timer[x].init # 0) /\ timer[x].init \in Times
  BY AtCall DEF Sound, Timed
<1>3. call' = [call EXCEPT ![x] = [at |-> "out", flag |-> {}]] /\ call[x].at = "clear"
  BY <1>1 DEF Goto, Thread
<1>4. ~Contains(list, x) /\ check # x
  BY <1>3, AtCall DEF Sound, Marked
<1> HIDE DEF f
<1>5. timer' = [timer EXCEPT ![x] = Rec(timer[x].out, timer[x].init, f)]
  BY <1>1, FieldSteps, Zenon
<1>6. "out" \in Labels \ {"start"} /\ {} \in SUBSET Flag
  BY DEF Labels
<1>7. TimerInv' /\ call'[x].at # "start"
  BY <1>1, <1>2, <1>3, <1>4, <1>5, <1>6, QuietStep
<1>8. \A y \in Timers \ {x} : timer'[y] = timer[y] /\ call'[y] = call[y]
  BY <1>3, <1>5, AtCall
<1> QED
  BY <1>1, <1>3, <1>4, <1>7, <1>8 DEF Quiet

LEMMA SetTimeStep ==
    ASSUME TimerInv, NEW x \in Timers, NEW d \in Times, SetTime(x, d)
    PROVE  Quiet(x)
<1>1. /\ Thread(x, "out") /\ (d = 0 => "PERIODIC" \notin timer[x].flag)
      /\ timer' = [timer EXCEPT ![x].init = d] /\ UNCHANGED << tick, list, call, check >>
  BY DEF SetTime
<1>2. timer[x].flag \in SUBSET Flag /\ ("PERIODIC" \in timer[x].flag => d # 0)
  BY <1>1, AtCall
<1>3. call[x].at = "out" /\ call[x].flag \in SUBSET Flag
      /\ call' = [call EXCEPT ![x] = [at |-> "out", flag |-> call[x].flag]]
  <2>1. call[x].at = "out" /\ call[x] = [at |-> call[x].at, flag |-> call[x].flag]
        /\ call[x].flag \in SUBSET Flag
    BY <1>1, AtCall DEF Thread
  <2>2. call' = [call EXCEPT ![x] = call[x]]
    BY <1>1, AtCall
  <2> QED BY <2>1, <2>2
<1>4. timer' = [timer EXCEPT ![x] = Rec(timer[x].out, d, timer[x].flag)]
  BY <1>1, FieldSteps, Zenon
<1>5. Contains(list, x) \/ check = x => "ACTIVATED" \in timer[x].flag
  BY AtCall DEF Sound, Marked
<1>6. "out" \in Labels \ {"start"}
  BY DEF Labels
<1>7. TimerInv' /\ call'[x].at # "start" /\ timer'[x].out = timer[x].out
  <2> DEFINE g == call[x].flag
             f == timer[x].flag
  <2>1. g \in SUBSET Flag /\ call' = [call EXCEPT ![x] = [at |-> "out", flag |-> g]]
        /\ f \in SUBSET Flag /\ timer' = [timer EXCEPT ![x] = Rec(timer[x].out, d, f)]
        /\ (Contains(list, x) \/ check = x => "ACTIVATED" \in f) /\ ("PERIODIC" \in f => d # 0)
    BY <1>2, <1>3, <1>4, <1>5
  <2> HIDE DEF f, g
  <2>2. UNCHANGED << tick, list, check >>
    BY <1>1
  <2> QED BY <1>6, <2>1, <2>2, QuietStep
<1>8. \A y \in Timers \ {x} : timer'[y] = timer[y] /\ call'[y] = call[y]
  BY <1>1, <1>4, AtCall
<1> QED
  BY <1>1, <1>3, <1>7, <1>8 DEF Quiet

LEMMA ReadFlagStep ==
    ASSUME TimerInv, NEW x \in Timers, ReadFlag(x)
    PROVE  Quiet(x)
<1>1. PICK mode \in Mode(timer[x].init) :
         call' = [call EXCEPT ![x] =
                    [at |-> "control", flag |-> (timer[x].flag \ {"PERIODIC"}) \cup mode]]
  BY DEF ReadFlag
<1> DEFINE g == (timer[x].flag \ {"PERIODIC"}) \cup mode
<1>2. Thread(x, "out") /\ UNCHANGED << tick, list, timer, check >>
  BY DEF ReadFlag
<1>3. timer[x].init \in Times /\ timer[x].flag \in SUBSET Flag
      /\ ("PERIODIC" \in timer[x].flag => timer[x].init # 0)
      /\ (Contains(list, x) \/ check = x => "ACTIVATED" \in timer[x].flag)
  BY AtCall DEF Sound, Timed, Marked
<1>4. g \in SUBSET Flag /\ ("PERIODIC" \in g => timer[x].init # 0)
      /\ ("ACTIVATED" \in timer[x].flag => "ACTIVATED" \in g)
  BY <1>3 DEF Mode, Flag
<1>5. call' = [call EXCEPT ![x] = [at |-> "control", flag |-> g]]
  BY <1>1
<1> HIDE DEF g
<1>6. timer' = [timer EXCEPT ![x] = Rec(timer[x].out, timer[x].init, timer[x].flag)]
  BY <1>2, UnchangedTimer
<1>7. "control" \in Labels \ {"start"}
  BY DEF Labels
<1>8. TimerInv' /\ call'[x].at # "start"
  BY <1>2, <1>3, <1>4, <1>5, <1>6, <1>7, QuietStep
<1>9. \A y \in Timers \ {x} : timer'[y] = timer[y] /\ call'[y] = call[y]
  BY <1>2, <1>5, AtCall
<1> QED
  BY <1>2, <1>8, <1>9 DEF Quiet, Thread

LEMMA StoreFlagStep ==
    ASSUME TimerInv, NEW x \in Timers, StoreFlag(x)
    PROVE  Quiet(x)
<1>1. /\ Thread(x, "control") /\ timer' = [timer EXCEPT ![x].flag = call[x].flag]
      /\ Goto(x, "out") /\ UNCHANGED << tick, list, check >>
  BY DEF StoreFlag
<1> DEFINE f == call[x].flag
<1>2. call' = [call EXCEPT ![x] = [at |-> "out", flag |-> {}]] /\ call[x].at = "control"
  BY <1>1 DEF Goto, Thread
<1>3. f \in SUBSET Flag /\ timer[x].init \in Times /\ ("PERIODIC" \in f => timer[x].init # 0)
      /\ (Contains(list, x) \/ check = x => "ACTIVATED" \in f)
  BY <1>2, AtCall DEF Sound, Timed, Marked
<1> HIDE DEF f
<1>4. timer' = [timer EXCEPT ![x] = Rec(timer[x].out, timer[x].init, f)]
  BY <1>1, FieldSteps, Zenon DEF f
<1>5. "out" \in Labels \ {"start"} /\ {} \in SUBSET Flag
  BY DEF Labels
<1>6. TimerInv' /\ call'[x].at # "start" /\ timer'[x].out = timer[x].out
  BY <1>1, <1>2, <1>3, <1>4, <1>5, QuietStep
<1>7. \A y \in Timers \ {x} : timer'[y] = timer[y] /\ call'[y] = call[y]
  BY <1>2, <1>4, AtCall
<1> QED
  BY <1>1, <1>2, <1>6, <1>7 DEF Quiet

(* Linking x at tick o, within a time from now or not too late.            *)
LEMMA LinkStep ==
    ASSUME TimerInv, NEW x \in Timers, ~Contains(list, x), NEW o \in Ticks,
           NEW g \in Int, g = Gap(tick, o), -(MaxLate + 1) <= g, g <= Horizon,
           list' = Insert(list, x, o), tick' = tick, timer'[x].out = o,
           \A y \in Timers \ {x} : timer'[y] = timer[y]
    PROVE  /\ LinkedIn(list', list, x, g) /\ Ordered(list)'
           /\ Dist(x)' = g /\ \A y \in Timers \ {x} : Dist(y)' = Dist(y)
<1>1. /\ tick \in Ticks /\ list \in Seq(Timers) /\ Ordered(list)
      /\ \A y \in Timers : timer[y].out \in Ticks /\ Dist(y) \in Int /\ Listed(y)
  BY TypeFacts DEF TimerInv, Sound
<1>2. NearTo(list, o)
  <2> SUFFICES ASSUME NEW y \in Timers, Contains(list, y)
               PROVE  Dist(y) - g < Half /\ g - Dist(y) < Half
    BY DEF NearTo
  <2>1. -(MaxLate + 1) <= Dist(y) /\ Dist(y) <= Horizon /\ Dist(y) \in Int
    BY <1>1 DEF Listed
  <2> QED BY <2>1, TickFacts
<1>3. LinkedIn(list', list, x, g)
  BY <1>1, <1>2, InsertFacts
<1>4. Dist(x)' = g /\ \A y \in Timers \ {x} : Dist(y)' = Dist(y)
  BY DEF Dist
<1>5. Ordered(list)'
  <2> SUFFICES ASSUME NEW y \in Timers, NEW z \in Timers, Precedes(list', y, z)
               PROVE  Dist(y)' <= Dist(z)'
    BY <1>3 DEF Ordered, LinkedIn
  <2>1. CASE y # x /\ z # x
    <3>1. Precedes(list, y, z)
      BY <1>3, <2>1 DEF LinkedIn
    <3>2. Dist(y) <= Dist(z)
      BY <1>1, <3>1 DEF Ordered
    <3> QED BY <1>4, <2>1, <3>2
  <2>2. CASE y # x /\ z = x
    <3>1. Dist(y) <= g
      BY <1>3, <2>2 DEF LinkedIn
    <3> QED BY <1>4, <2>2, <3>1
  <2>3. CASE y = x /\ z # x
    <3>1. Dist(z) > g /\ Dist(z) \in Int
      BY <1>1, <1>3, <2>3 DEF LinkedIn
    <3>2. g <= Dist(z)
      BY <3>1
    <3> QED BY <1>4, <2>3, <3>2
  <2>4. CASE y = x /\ z = x
    BY <1>4, <2>4
  <2> QED BY <2>1, <2>2, <2>3, <2>4
<1> QED
  BY <1>3, <1>4, <1>5

LEMMA TimerLinkStep ==
    ASSUME TimerInv, NEW x \in Timers, TimerLink(x)
    PROVE  /\ TimerInv' /\ LinkedIn(list', list, x, Dist(x)) /\ ~Contains(list, x)
           /\ call[x].at = "start" /\ call'[x].at = "out"
           /\ \A y \in Timers : Dist(y)' = Dist(y)
           /\ \A y \in Timers \ {x} : call'[y] = call[y]
<1> DEFINE o == timer[x].out
           i == timer[x].init
           f == timer[x].flag \cup {"ACTIVATED"}
           n == Lateness(o, i, tick)
<1>1. /\ check = "out" /\ call[x].at = "start" /\ list' = Insert(list, x, o)
      /\ timer' = [timer EXCEPT ![x].flag = f]
      /\ call' = [call EXCEPT ![x] = [at |-> "out", flag |-> {}]]
      /\ UNCHANGED << tick, check >>
  BY DEF TimerLink, Thread, Goto
<1>2. /\ o \in Ticks /\ i \in Times /\ i \in Nat /\ i <= Horizon /\ f \in SUBSET Flag /\ n \in Nat
      /\ Dist(x) = i - n /\ n <= MaxLate /\ ("PERIODIC" \in f => i # 0)
  <2>1. Timed(x) /\ o \in Ticks /\ i \in Times /\ i \in Nat /\ i <= Horizon /\ timer[x].flag \in SUBSET Flag
    BY AtCall DEF Sound
  <2>2. n \in Nat
    BY TypeFacts DEF TimerInv
  <2>3. Dist(x) = i - n /\ n <= MaxLate /\ ("PERIODIC" \in timer[x].flag => i # 0)
    BY <1>1, <2>1 DEF Timed
  <2> QED BY <2>1, <2>2, <2>3 DEF Flag
<1>3. ~Contains(list, x) /\ check # x
  BY <1>1, AtCall DEF Sound, Marked
<1>4. timer' = [timer EXCEPT ![x] = Rec(o, i, f)]
  <2> HIDE DEF f
  <2> QED BY <1>1, FieldSteps, Zenon
<1> HIDE DEF n, f
<1>5. timer'[x] = Rec(o, i, f) /\ call'[x] = [at |-> "out", flag |-> {}]
      /\ \A y \in Timers \ {x} : timer'[y] = timer[y] /\ call'[y] = call[y]
  BY <1>1, <1>4, AtCall
<1>6. timer'[x].out = o /\ timer'[x].init = i /\ timer'[x].flag = f /\ call'[x].at = "out"
      /\ call'[x].flag = {}
  BY <1>5, RecFacts
<1> HIDE DEF i
<1>7. Dist(x) \in Int /\ -MaxLate <= Dist(x) /\ -(MaxLate + 1) <= Dist(x) /\ Dist(x) <= Horizon
  BY <1>2, TickFacts
<1>8. Dist(x) = Gap(tick, o)
  BY DEF Dist
<1> HIDE DEF o
<1>9. /\ LinkedIn(list', list, x, Dist(x)) /\ Ordered(list)'
      /\ Dist(x)' = Dist(x) /\ \A y \in Timers \ {x} : Dist(y)' = Dist(y)
  <2> DEFINE g == Dist(x)
  <2>1. g \in Int /\ g = Gap(tick, o) /\ -(MaxLate + 1) <= g /\ g <= Horizon
    BY <1>7, <1>8
  <2> HIDE DEF g
  <2>2. /\ LinkedIn(list', list, x, g) /\ Ordered(list)'
        /\ Dist(x)' = g /\ \A y \in Timers \ {x} : Dist(y)' = Dist(y)
    BY <1>1, <1>2, <1>3, <1>5, <1>6, <2>1, LinkStep
  <2> QED BY <2>2 DEF g
<1>10. Sound(x)'
  <2>1. Listed(x)'
    BY <1>1, <1>3, <1>7, <1>9 DEF Listed
  <2>2. Marked(x)'
    BY <1>6 DEF Marked, f
  <2>3. Timed(x)'
    BY <1>2, <1>6 DEF Timed
  <2> QED BY <2>1, <2>2, <2>3 DEF Sound
<1>11. \A y \in Timers \ {x} : Sound(y)'
  <2> SUFFICES ASSUME NEW y \in Timers \ {x} PROVE Sound(y)'
    OBVIOUS
  <2>1. Same(y)
    BY <1>1, <1>5, <1>9 DEF Same, LinkedIn
  <2>2. Sound(y)
    BY DEF TimerInv
  <2> QED BY <2>1, <2>2, SameSound
<1>12. TimerTypeOK'
  <2>1. list' \in Seq(Timers)
    BY <1>9 DEF LinkedIn
  <2>2. Rec(o, i, f) \in [out: Ticks, init: Times, flag: SUBSET Flag]
    BY <1>2, RecFacts
  <2>3. [at |-> "out", flag |-> {}] \in [at: Labels, flag: SUBSET Flag]
    BY DEF Labels
  <2> DEFINE r == Rec(o, i, f)
             c == [at |-> "out", flag |-> {}]
  <2>4. timer' = [timer EXCEPT ![x] = r] /\ call' = [call EXCEPT ![x] = c]
    BY <1>1, <1>4
  <2> HIDE DEF r, c
  <2>5. TimerTypeOK
    BY DEF TimerInv
  <2> QED BY <1>1, <2>1, <2>2, <2>3, <2>4, <2>5 DEF TimerTypeOK, Ticks, r, c
<1> QED
  BY <1>1, <1>3, <1>5, <1>6, <1>9, <1>10, <1>11, <1>12 DEF TimerInv

-----------------------------------------------------------------------------
(* The tick interrupt keeps the invariant.                                 *)

LEMMA TickIncreaseStep ==
    ASSUME TimerInv, TickIncrease
    PROVE  /\ TimerInv' /\ check = "out" /\ check' = "look" /\ UNCHANGED << list, timer, call >>
           /\ \A x \in Timers :
                Contains(list, x) \/ call[x].at = "start" => Dist(x)' = Dist(x) - 1
<1>1. /\ check = "out" /\ tick' = (tick + 1) % TickMod /\ check' = "look"
      /\ UNCHANGED << list, timer, call >>
      /\ \A x \in Timers : call[x].at = "start" => Late(x) < MaxLate
  BY DEF TickIncrease
<1>2. /\ tick \in Ticks /\ \A x \in Timers :
           /\ timer[x].out \in Ticks /\ timer[x].init \in Nat /\ timer[x].init < Half
           /\ timer[x].init <= Horizon
           /\ Dist(x) \in Int /\ Lateness(timer[x].out, timer[x].init, tick) \in Nat
  BY TypeFacts DEF TimerInv
<1>3. \A x \in Timers : Sound(x)
  BY DEF TimerInv
<1>4. \A x \in Timers : Late(x) = Lateness(timer[x].out, timer[x].init, tick)
  BY DEF Late, Lateness
<1>5. tick' \in Ticks
  <2>1. 1 \in Nat /\ 1 < TickMod
    BY TickFacts
  <2> QED BY <1>1, <1>2, <2>1, PlusFacts
<1>6. ASSUME NEW x \in Timers, -(MaxLate + 1) <= Dist(x)
      PROVE  Dist(x)' = Dist(x) - 1
  <2>1. Half - TickMod < Dist(x)
    <3>1. Half - TickMod < -(MaxLate + 1)
      BY TickFacts
    <3> QED BY <1>2, <1>6, <3>1, TickFacts
  <2>2. Gap((tick + 1) % TickMod, timer[x].out) = Gap(tick, timer[x].out) - 1
    BY <1>2, <2>1, GapTick DEF Dist
  <2> QED BY <1>1, <2>2 DEF Dist
<1>7. ASSUME NEW x \in Timers, call[x].at = "start"
      PROVE  /\ Dist(x)' = Dist(x) - 1
             /\ Lateness(timer[x].out, timer[x].init, tick)' <= MaxLate
             /\ Dist(x)' = timer[x].init - Lateness(timer[x].out, timer[x].init, tick)'
  <2> DEFINE n == Lateness(timer[x].out, timer[x].init, tick)
             i == timer[x].init
  <2>1. n \in Nat /\ i \in Nat /\ n < MaxLate /\ Dist(x) = i - n
    BY <1>1, <1>2, <1>3, <1>4, <1>7 DEF Sound, Timed
  <2>2. n' = n + 1
    <3>1. n < TickMod - 1
      BY <2>1, TickFacts
    <3>2. Lateness(timer[x].out, timer[x].init, (tick + 1) % TickMod) = n + 1
      BY <1>2, <3>1, LateTick
    <3> QED BY <1>1, <3>2
  <2>3. i' = i
    BY <1>1
  <2>4. -(MaxLate + 1) <= Dist(x)
    <3> HIDE DEF n, i
    <3> QED BY <2>1, TickFacts
  <2>5. Dist(x)' = Dist(x) - 1
    BY <1>6, <2>4
  <2> DEFINE m == n'
  <2>6. m = n + 1
    BY <2>2
  <2> HIDE DEF n, i, m
  <2>7. m <= MaxLate /\ Dist(x)' = i - m
    BY <2>1, <2>5, <2>6, TickFacts
  <2> QED BY <1>1, <2>5, <2>7 DEF m, n, i
<1>8. ASSUME NEW x \in Timers, Contains(list, x)
      PROVE  /\ Dist(x)' = Dist(x) - 1
             /\ -(MaxLate + 1) <= Dist(x)' /\ Dist(x)' <= Horizon
  <2>1. -MaxLate <= Dist(x) /\ -(MaxLate + 1) <= Dist(x) /\ Dist(x) <= Horizon
    BY <1>1, <1>3, <1>8 DEF Sound, Listed
  <2>2. Dist(x)' = Dist(x) - 1
    BY <1>6, <2>1
  <2> QED BY <1>2, <2>1, <2>2, TickFacts
<1>9. \A x \in Timers : Sound(x)'
  <2> SUFFICES ASSUME NEW x \in Timers PROVE Sound(x)'
    OBVIOUS
  <2>0. Sound(x) /\ check' # "out" /\ check' # x /\ check # x
    BY <1>1, <1>3, TimerAssumption
  <2>1. Listed(x)'
    BY <1>1, <1>8, <2>0 DEF Listed
  <2>2. Marked(x)'
    BY <1>1, <2>0 DEF Sound, Marked
  <2>3. Timed(x)'
    <3>1. call'[x].at = "start" =>
             /\ Lateness(timer'[x].out, timer'[x].init, tick') <= MaxLate
             /\ Dist(x)' = timer'[x].init - Lateness(timer'[x].out, timer'[x].init, tick')
      BY <1>1, <1>7
    <3> QED BY <1>1, <2>0, <3>1 DEF Sound, Timed
  <2> QED BY <2>1, <2>2, <2>3 DEF Sound
<1>10. Ordered(list)'
  <2>0. Ordered(list)
    BY DEF TimerInv
  <2> SUFFICES ASSUME NEW y \in Timers, NEW z \in Timers, Precedes(list, y, z)
               PROVE  Dist(y)' <= Dist(z)'
    BY <1>1, <2>0 DEF Ordered
  <2>1. Contains(list, y) /\ Contains(list, z) /\ Dist(y) <= Dist(z)
    BY <2>0, PrecedesMembers DEF Ordered
  <2> QED BY <1>2, <1>8, <2>1
<1>11. TimerTypeOK'
  BY <1>1, <1>5 DEF TimerInv, TimerTypeOK, Ticks
<1> QED
  BY <1>1, <1>7, <1>8, <1>9, <1>10, <1>11 DEF TimerInv

(* rt_timer_check looks at the first timer only: the list is in order.     *)
LEMMA HeadExpired ==
    ASSUME TimerInv, list # << >>
    PROVE  /\ Expired(Head(list)) <=> Dist(Head(list)) <= 0
           /\ Head(list) \in Timers /\ Contains(list, Head(list))
           /\ \A y \in Timers : Contains(list, y) => Dist(Head(list)) <= Dist(y)
<1> DEFINE h == Head(list)
<1>1. /\ tick \in Ticks /\ list \in Seq(Timers) /\ Ordered(list) /\ Once(list)
      /\ \A y \in Timers : timer[y].out \in Ticks /\ Dist(y) \in Int /\ Sound(y)
  BY TypeFacts DEF TimerInv, Ordered
<1>2. /\ h \in Timers /\ Contains(list, h)
      /\ \A y : Contains(list, y) => y = h \/ Precedes(list, h, y)
  BY <1>1, TailFacts
<1> HIDE DEF h
<1>3. \A y \in Timers : Contains(list, y) => Dist(h) <= Dist(y)
  BY <1>1, <1>2 DEF Ordered
<1>4. -(MaxLate + 1) <= Dist(h)
  BY <1>1, <1>2 DEF Sound, Listed
<1>5. -Half < Dist(h)
  <2>1. -Half < -(MaxLate + 1)
    BY TickFacts
  <2> QED BY <1>1, <1>2, <1>4, <2>1, TickFacts
<1>6. Behind(timer[h].out, tick) < Half <=> Gap(tick, timer[h].out) <= 0
  BY <1>1, <1>2, <1>5, GapExpired DEF Dist
<1> QED
  BY <1>2, <1>3, <1>6 DEF h, Expired, Dist

LEMMA CheckExpireStep ==
    ASSUME TimerInv, CheckExpire
    PROVE  /\ TimerInv' /\ check = "look" /\ list # << >> /\ check' = Head(list) /\ list' = Tail(list)
           /\ UNCHANGED << tick, timer, call >> /\ Dist(Head(list)) <= 0
<1>0. PICK h : h = Head(list)
  OBVIOUS
<1>1. /\ check = "look" /\ list # << >> /\ Expired(h) /\ check' = h /\ list' = Tail(list)
      /\ UNCHANGED << tick, timer, call >>
  BY <1>0 DEF CheckExpire
<1>2. Dist(h) <= 0 /\ h \in Timers /\ Contains(list, h)
  BY <1>0, <1>1, HeadExpired
<1>3. /\ TimerTypeOK /\ list \in Seq(Timers) /\ Ordered(list) /\ Once(list)
      /\ \A y \in Timers : Sound(y)
  BY TypeFacts DEF TimerInv, Ordered
<1>4. /\ list' \in Seq(Timers) /\ Once(list')
      /\ \A y : Contains(list', y) <=> Contains(list, y) /\ y # h
      /\ \A y, z : Precedes(list', y, z) <=> Precedes(list, y, z) /\ y # h /\ z # h
  BY <1>0, <1>1, <1>3, TailFacts
<1>5. \A y \in Timers : Dist(y)' = Dist(y)
  BY <1>1 DEF Dist
<1>6. Ordered(list)'
  BY <1>3, <1>4, <1>5 DEF Ordered
<1>7. \A y \in Timers \ {h} : Sound(y)'
  <2> SUFFICES ASSUME NEW y \in Timers \ {h} PROVE Sound(y)'
    OBVIOUS
  <2>1. Same(y)
    BY <1>1, <1>2, <1>4, TimerAssumption DEF Same
  <2> QED BY <1>3, <2>1, SameSound
<1>8. Sound(h)'
  <2>1. ~Contains(list', h)
    BY <1>4
  <2>2. Sound(h)
    BY <1>2, <1>3
  <2>3. Listed(h)'
    BY <2>1 DEF Listed
  <2>4. Marked(h)'
    BY <1>1, <1>2, <2>2 DEF Sound, Marked
  <2>5. Timed(h)'
    BY <1>1, <1>2, <1>5, <2>2 DEF Sound, Timed
  <2> QED BY <2>3, <2>4, <2>5 DEF Sound
<1>9. TimerTypeOK'
  BY <1>1, <1>2, <1>3, <1>4 DEF TimerTypeOK
<1> QED
  BY <1>0, <1>1, <1>2, <1>6, <1>7, <1>8, <1>9 DEF TimerInv

LEMMA CheckDoneStep ==
    ASSUME TimerInv, CheckDone
    PROVE  /\ TimerInv' /\ check = "look" /\ check' = "out" /\ UNCHANGED << tick, list, timer, call >>
           /\ \A y \in Timers : Contains(list, y) => Dist(y) > 0
<1>1. /\ check = "look" /\ ~(list # << >> /\ Expired(Head(list))) /\ check' = "out"
      /\ UNCHANGED << tick, list, timer, call >>
  BY DEF CheckDone
<1>2. /\ TimerTypeOK /\ Ordered(list) /\ list \in Seq(Timers)
      /\ \A y \in Timers : Sound(y) /\ Dist(y) \in Int
  BY TypeFacts DEF TimerInv
<1>3. ASSUME NEW y \in Timers, Contains(list, y) PROVE Dist(y) > 0
  <2>1. list # << >>
    BY <1>2, <1>3, EmptySeq DEF Contains
  <2>2. ~(Dist(Head(list)) <= 0) /\ Head(list) \in Timers /\ Dist(Head(list)) <= Dist(y)
    BY <1>1, <1>3, <2>1, HeadExpired
  <2> QED BY <1>2, <2>2
<1>4. \A y \in Timers : Dist(y)' = Dist(y)
  BY <1>1 DEF Dist
<1>5. Ordered(list)'
  BY <1>1, <1>2, <1>4 DEF Ordered
<1>6. ASSUME NEW y \in Timers PROVE Sound(y)'
  <2>1. Sound(y) /\ check' # y /\ check # y
    BY <1>1, <1>2, TimerAssumption
  <2>2. Listed(y)'
    <3>1. Dist(y) > 0 => -MaxLate <= Dist(y)
      BY <1>2, TickFacts
    <3> QED BY <1>1, <1>3, <1>4, <2>1, <3>1 DEF Sound, Listed
  <2>3. Marked(y)'
    BY <1>1, <2>1 DEF Sound, Marked
  <2>4. Timed(y)'
    BY <1>1, <1>4, <2>1 DEF Sound, Timed
  <2> QED BY <2>2, <2>3, <2>4 DEF Sound
<1>7. TimerTypeOK'
  BY <1>1, <1>2 DEF TimerTypeOK
<1> QED
  BY <1>1, <1>3, <1>5, <1>6, <1>7 DEF TimerInv

(* How rt_timer_check ends a timer's turn: x is linked again, or not.      *)
Rearms(x, d) ==
    /\ d \in 1..Horizon /\ LinkedIn(list', list, x, d) /\ Dist(x)' = d

LEMMA CheckReturnStep ==
    ASSUME TimerInv, NEW x, x = check, CheckReturn
    PROVE  /\ TimerInv' /\ x \in Timers /\ ~Contains(list, x) /\ check' = "look" /\ call' = call
           /\ \A y \in Timers \ {x} : Dist(y)' = Dist(y)
           /\ list' = list \/ \E d \in 1..Horizon : Rearms(x, d)
           /\ call[x].at # "start"
<1> DEFINE i == timer[x].init
           o == (tick + i) % TickMod
           f == timer[x].flag \ {"ACTIVATED"}
<1>1. /\ x \in Timers /\ check' = "look" /\ UNCHANGED << tick, call >>
      /\ \/ /\ Flag \subseteq timer[x].flag
            /\ timer' = [timer EXCEPT ![x].out = o] /\ list' = Insert(list, x, o)
         \/ /\ timer' = [timer EXCEPT ![x].flag = f, ![x].out = 0] /\ list' = list
  BY DEF CheckReturn
<1>2. /\ ~Contains(list, x) /\ check # "out" /\ check' # x /\ check' # "out"
      /\ call[x].at \in {"out", "stop", "control"} /\ call[x].at # "start"
  <2>1. Listed(x) /\ Marked(x)
    BY <1>1 DEF TimerInv, Sound
  <2> QED BY <1>1, <2>1, TimerAssumption DEF Listed, Marked
<1>3. /\ i \in Times /\ i \in Nat /\ i <= Horizon /\ i < Half /\ tick \in Ticks
      /\ timer[x].flag \in SUBSET Flag /\ timer[x] = Rec(timer[x].out, i, timer[x].flag)
      /\ timer = [y \in Timers |-> timer[y]] /\ Timed(x)
  BY <1>1, AtCall DEF Sound
<1>4. /\ TimerTypeOK /\ list \in Seq(Timers) /\ Ordered(list) /\ \A y \in Timers : Sound(y)
      /\ timer \in [Timers -> [out: Ticks, init: Times, flag: SUBSET Flag]]
  BY TypeFacts DEF TimerInv, TimerTypeOK, Ticks
<1>5. ASSUME NEW r \in [out: Ticks, init: Times, flag: SUBSET Flag], timer' = [timer EXCEPT ![x] = r],
             list' \in Seq(Timers), Ordered(list)', Sound(x)',
             \A y \in Timers \ {x} : Contains(list', y) <=> Contains(list, y)
      PROVE  TimerInv' /\ \A y \in Timers \ {x} : Dist(y)' = Dist(y)
  <2>1. /\ timer' \in [Timers -> [out: Ticks, init: Times, flag: SUBSET Flag]]
        /\ \A y \in Timers \ {x} : timer'[y] = timer[y]
    BY <1>4, <1>5
  <2>2. TimerTypeOK'
    BY <1>1, <1>4, <1>5, <2>1 DEF TimerTypeOK, Ticks
  <2>3. \A y \in Timers \ {x} : Same(y)
    BY <1>1, <1>2, <1>5, <2>1, TimerAssumption DEF Same
  <2>4. \A y \in Timers \ {x} : Sound(y)' /\ Dist(y)' = Dist(y)
    BY <1>4, <2>3, SameSound
  <2> QED BY <1>5, <2>2, <2>4 DEF TimerInv
<1>6. CASE /\ Flag \subseteq timer[x].flag
           /\ timer' = [timer EXCEPT ![x].out = o] /\ list' = Insert(list, x, o)
  <2>1. o \in Ticks /\ Gap(tick, o) = i
    <3> HIDE DEF i
    <3> QED BY <1>3, GapStart
  <2>2. i # 0 /\ "ACTIVATED" \in timer[x].flag
    BY <1>3, <1>6 DEF Timed, Flag
  <2>3. i \in 1..Horizon
    BY <1>3, <2>2, TickFacts
  <2> DEFINE r == Rec(o, i, timer[x].flag)
  <2> HIDE DEF o
  <2>4. timer' = [timer EXCEPT ![x] = r]
    BY <1>1, <1>6, FieldSteps, Zenon
  <2>5. r \in [out: Ticks, init: Times, flag: SUBSET Flag]
    BY <1>3, <2>1, RecFacts
  <2>6. timer'[x] = r /\ \A y \in Timers \ {x} : timer'[y] = timer[y]
    BY <1>1, <1>3, <2>4
  <2>7. timer'[x].out = o /\ timer'[x].init = i /\ timer'[x].flag = timer[x].flag
    BY <2>6, RecFacts
  <2>8. /\ LinkedIn(list', list, x, i) /\ Ordered(list)' /\ Dist(x)' = i
    <3>0. PICK g \in Nat : g = i
      BY <1>3
    <3>1. g \in Int /\ g = Gap(tick, o) /\ -(MaxLate + 1) <= g /\ g <= Horizon
      BY <1>3, <2>1, <3>0, TickFacts
    <3>2. /\ LinkedIn(list', list, x, g) /\ Ordered(list)' /\ Dist(x)' = g
      BY <1>1, <1>2, <1>6, <2>1, <2>6, <2>7, <3>1, LinkStep
    <3> QED BY <3>0, <3>2
  <2>9. Sound(x)'
    <3>1. Listed(x)'
      <4>1. -(MaxLate + 1) <= i
        BY <2>3, TickFacts
      <4> QED BY <1>2, <1>3, <2>8, <4>1 DEF Listed
    <3>2. Marked(x)'
      <4>1. call[x].at = "control" => "ACTIVATED" \in call[x].flag
        BY <1>1, <1>4 DEF Sound, Marked
      <4> QED BY <1>1, <1>2, <2>2, <2>7, <4>1 DEF Marked
    <3>3. Timed(x)'
      BY <1>1, <1>2, <2>2, <2>7 DEF Timed
    <3> QED BY <3>1, <3>2, <3>3 DEF Sound
  <2>10. list' \in Seq(Timers) /\ \A y \in Timers \ {x} : Contains(list', y) <=> Contains(list, y)
    BY <2>8 DEF LinkedIn
  <2> HIDE DEF r
  <2>11. TimerInv' /\ \A y \in Timers \ {x} : Dist(y)' = Dist(y)
    BY <1>5, <2>4, <2>5, <2>8, <2>9, <2>10
  <2>12. \E d \in 1..Horizon : Rearms(x, d)
    BY <2>3, <2>8 DEF Rearms
  <2> QED BY <1>1, <1>2, <2>11, <2>12
<1>7. CASE timer' = [timer EXCEPT ![x].flag = f, ![x].out = 0] /\ list' = list
  <2> DEFINE r == Rec(0, i, f)
  <2>1. f \in SUBSET Flag /\ ("PERIODIC" \in f => i # 0)
    BY <1>3 DEF Timed
  <2> HIDE DEF f
  <2>2. timer' = [timer EXCEPT ![x] = r]
    <3> DEFINE a == timer[x]
    <3>1. [[a EXCEPT !.flag = f] EXCEPT !.out = 0] = r
      <4> HIDE DEF a, i
      <4>1. PICK p, q : a = Rec(p, i, q)
        BY <1>3 DEF a
      <4> DEFINE b == [a EXCEPT !.flag = f]
      <4>2. b = Rec(p, i, f)
        BY <4>1 DEF Rec
      <4> HIDE DEF b
      <4>3. [b EXCEPT !.out = 0] = Rec(0, i, f)
        BY <4>2 DEF Rec
      <4> QED BY <4>3 DEF b
    <3>2. timer' = [timer EXCEPT ![x] = [[a EXCEPT !.flag = f] EXCEPT !.out = 0]]
      BY <1>1, <1>3, <1>7
    <3> QED BY <3>1, <3>2
  <2>3. r \in [out: Ticks, init: Times, flag: SUBSET Flag]
    <3>1. 0 \in Ticks
      BY TickFacts DEF Ticks
    <3> QED BY <1>3, <2>1, <3>1, RecFacts
  <2>4. timer'[x] = r /\ r.init = i /\ r.flag = f /\ \A y \in Timers \ {x} : timer'[y] = timer[y]
    <3>1. timer'[x] = r /\ \A y \in Timers \ {x} : timer'[y] = timer[y]
      BY <1>1, <1>3, <2>2
    <3> QED BY <3>1, RecFacts
  <2>5. call[x].at = "control" /\ "PERIODIC" \in call[x].flag => i # 0
    BY <1>3 DEF Timed
  <2>6. Sound(x)'
    BY <1>1, <1>2, <1>7, <2>1, <2>4, <2>5, QuietSound
  <2>7. Ordered(list)'
    <3> SUFFICES ASSUME NEW y \in Timers, NEW z \in Timers, Precedes(list, y, z)
                 PROVE  Dist(y)' <= Dist(z)'
      BY <1>4, <1>7 DEF Ordered
    <3>1. Contains(list, y) /\ Contains(list, z)
      BY PrecedesMembers
    <3>2. y # x /\ z # x
      BY <1>2, <3>1
    <3>3. Dist(y)' = Dist(y) /\ Dist(z)' = Dist(z)
      BY <1>1, <2>4, <3>2 DEF Dist
    <3>4. Dist(y) <= Dist(z)
      BY <1>4 DEF Ordered
    <3> QED BY <3>3, <3>4
  <2> HIDE DEF r
  <2>8. TimerInv' /\ \A y \in Timers \ {x} : Dist(y)' = Dist(y)
    BY <1>4, <1>5, <1>7, <2>2, <2>3, <2>6, <2>7
  <2> QED BY <1>1, <1>2, <1>7, <2>8
<1> QED
  BY <1>1, <1>6, <1>7

LEMMA TimerInvInit == TimerInit => TimerInv
<1> SUFFICES ASSUME TimerInit PROVE TimerInv
  OBVIOUS
<1>1. PICK d \in Times \ {0} : timer = [x \in Timers |-> [out |-> 0, init |-> d, flag |-> {}]]
  BY DEF TimerInit
<1>2. /\ tick = 0 /\ list = << >> /\ check = "out"
      /\ call = [x \in Timers |-> [at |-> "out", flag |-> {}]]
  BY DEF TimerInit, Outside
<1>3. TimerTypeOK
  <2>1. 0 \in 0..(TickMod - 1)
    BY TickFacts
  <2>2. timer \in [Timers -> [out: 0..(TickMod - 1), init: Times, flag: SUBSET Flag]]
    BY <1>1, <2>1
  <2>3. call \in [Timers -> [at: Labels, flag: SUBSET Flag]]
    BY <1>2 DEF Labels
  <2> QED BY <1>2, <2>1, <2>2, <2>3 DEF TimerTypeOK
<1>4. (\A x : ~Contains(list, x)) /\ (\A x, y : ~Precedes(list, x, y)) /\ Once(list)
  <2>1. Len(list) = 0
    BY <1>2
  <2>2. 1..0 = {}
    OBVIOUS
  <2> QED BY <2>1, <2>2 DEF Contains, Precedes, Once
<1>5. Ordered(list)
  BY <1>4 DEF Ordered
<1>6. ASSUME NEW x \in Timers PROVE Sound(x)
  <2>1. check # x
    BY <1>2, TimerAssumption
  <2>2. timer[x].flag = {} /\ call[x].at = "out"
    BY <1>1, <1>2
  <2> QED BY <1>4, <2>1, <2>2 DEF Sound, Listed, Marked, Timed
<1> QED
  BY <1>3, <1>5, <1>6 DEF TimerInv

(* Each step of the timers keeps the invariant.                            *)
LEMMA QuietCreate ==
    ASSUME TimerInv, NEW x \in Timers, NEW d \in Times, TimerCreate(x, d)
    PROVE  Quiet(x)
<1>1. UNCHANGED << tick, list, check >> /\ Goto(x, "out")
      /\ \E mode \in Mode(d) : timer' = [timer EXCEPT ![x] = [out |-> 0, init |-> d, flag |-> mode]]
  BY DEF TimerCreate
<1>2. \A y \in Timers \ {x} : timer'[y] = timer[y] /\ call'[y] = call[y]
  BY <1>1, AtCall DEF Goto
<1> QED
  BY <1>1, <1>2, TimerCreateStep DEF Quiet

(* x's thread takes x out of the list.                                     *)
Unlinks(x) ==
    /\ check = "out" /\ list' = Removed(list, x) /\ UNCHANGED << tick, check >> /\ TimerInv'
    /\ \A y \in Timers \ {x} : timer'[y] = timer[y] /\ call'[y] = call[y]
    /\ call[x].at # "start" /\ call'[x].at # "start"

LEMMA UnlinkSteps ==
    ASSUME TimerInv, NEW x \in Timers, TimerUnlink(x) \/ TimerDetach(x)
    PROVE  Unlinks(x)
<1>1. PICK at \in {"clear", "gone"} :
        /\ check = "out" /\ call[x].at # "start"
        /\ list' = Removed(list, x) /\ timer' = [timer EXCEPT ![x].out = 0] /\ Goto(x, at)
        /\ UNCHANGED << tick, check >>
  BY DEF TimerUnlink, TimerDetach, Thread
<1>2. TimerInv' /\ call'[x].at # "start"
  BY <1>1, TimerUnlinkStep
<1>3. \A y \in Timers \ {x} : timer'[y] = timer[y] /\ call'[y] = call[y]
  BY <1>1, AtCall DEF Goto
<1> QED
  BY <1>1, <1>2, <1>3 DEF Unlinks

LEMMA TimerSteps ==
    ASSUME TimerInv, [TimerNext]_timerVars
    PROVE  TimerInv'
<1>1. ASSUME NEW x \in Timers, \/ TimerStart(x) \/ TimerLink(x)
                               \/ TimerStop(x) \/ TimerUnlink(x) \/ TimerClear(x)
                               \/ ReadFlag(x) \/ StoreFlag(x) \/ TimerDetach(x)
      PROVE  TimerInv'
  BY <1>1, TimerStartStep, TimerLinkStep, TimerStopStep, UnlinkSteps, TimerClearStep, ReadFlagStep,
     StoreFlagStep DEF Quiet, Unlinks
<1>2. ASSUME NEW x \in Timers, NEW d \in Times, SetTime(x, d) \/ TimerCreate(x, d)
      PROVE  TimerInv'
  BY <1>2, SetTimeStep, TimerCreateStep DEF Quiet
<1>3. CASE ClockStep
  BY <1>3, TickIncreaseStep, CheckExpireStep, CheckReturnStep, CheckDoneStep DEF ClockStep
<1>4. CASE UNCHANGED timerVars
  <2>1. tick' = tick /\ list' = list /\ timer' = timer /\ call' = call /\ check' = check
    BY <1>4 DEF timerVars
  <2>2. \A x \in Timers : Same(x)
    BY <2>1 DEF Same
  <2>3. \A x \in Timers : Sound(x)' /\ Dist(x)' = Dist(x)
    BY <2>2, SameSound DEF TimerInv
  <2>4. TimerTypeOK' /\ Ordered(list)'
    BY <2>1, <2>3 DEF TimerInv, TimerTypeOK, Ordered
  <2> QED BY <2>3, <2>4 DEF TimerInv
<1> QED
  BY <1>1, <1>2, <1>3, <1>4 DEF TimerNext

LEMMA TimerInvariant == TimerSpec => []TimerInv
<1>1. TimerInv /\ [TimerNext]_timerVars => TimerInv'
  BY TimerSteps
<1> QED
  BY <1>1, TimerInvInit, PTL DEF TimerSpec

-----------------------------------------------------------------------------
(* The timers as a countdown.                                              *)

DueMap == [x \in Timers |-> IF Contains(list, x) THEN Left(x) ELSE -1]
BeforeMap == {p \in Timers \X Timers : Left(p[1]) = Left(p[2]) /\ Precedes(list, p[1], p[2])}
AskedMap == [x \in Timers |-> IF call[x].at = "start" THEN Left(x) ELSE -1]
FiredMap == IF check \in Timers THEN check ELSE "none"
DueSet(d) == {x \in Timers : DueMap[x] = d}

LEMMA LeftFacts ==
    ASSUME TimerTypeOK, NEW x \in Timers
    PROVE  /\ Left(x) = IF Dist(x) >= 0 THEN Dist(x) ELSE 0
           /\ Left(x) \in Nat /\ Left(x) # -1
<1>1. tick \in Ticks /\ timer[x].out \in Ticks
  BY TypeFacts
<1> DEFINE d == Behind(tick, timer[x].out)
<1>2. d \in Int /\ 0 <= d /\ d < TickMod
  BY <1>1, BehindFacts, TicksFacts, TickFacts
<1>3. Left(x) = (IF d < Half THEN d ELSE 0) /\ Dist(x) = (IF d < Half THEN d ELSE d - TickMod)
  BY DEF Left, Dist, Gap
<1> HIDE DEF d
<1> QED
  BY <1>2, <1>3, TickFacts

LEMMA LeftKept ==
    ASSUME TimerTypeOK, TimerTypeOK', NEW x \in Timers, Dist(x)' = Dist(x)
    PROVE  Left(x)' = Left(x)
<1>1. Left(x) = IF Dist(x) >= 0 THEN Dist(x) ELSE 0
  BY LeftFacts
<1>2. (TimerTypeOK => Left(x) = IF Dist(x) >= 0 THEN Dist(x) ELSE 0)'
  BY LeftFacts, PTL
<1> QED
  BY <1>1, <1>2

LEMMA LeftFactsNext ==
    ASSUME TimerTypeOK', NEW x \in Timers
    PROVE  /\ Left(x)' = IF Dist(x)' >= 0 THEN Dist(x)' ELSE 0
           /\ Left(x)' \in Nat /\ Left(x)' # -1
<1>1. (TimerTypeOK => /\ Left(x) = IF Dist(x) >= 0 THEN Dist(x) ELSE 0
                      /\ Left(x) \in Nat /\ Left(x) # -1)'
  BY LeftFacts, PTL
<1> QED
  BY <1>1

LEMMA PairsEqual ==
    ASSUME NEW T, NEW A \in SUBSET (T \X T), NEW B \in SUBSET (T \X T),
           \A y, z \in T : << y, z >> \in A <=> << y, z >> \in B
    PROVE  A = B
<1>1. \A p \in T \X T : p = << p[1], p[2] >> /\ p[1] \in T /\ p[2] \in T
  OBVIOUS
<1> QED
  BY <1>1

LEMMA BeforeFacts ==
    /\ BeforeMap \in SUBSET (Timers \X Timers)
    /\ BeforeMap' \in SUBSET (Timers \X Timers)
    /\ \A y, z \in Timers :
          /\ << y, z >> \in BeforeMap <=> Left(y) = Left(z) /\ Precedes(list, y, z)
          /\ << y, z >> \in BeforeMap' <=> Left(y)' = Left(z)' /\ Precedes(list', y, z)
  BY DEF BeforeMap

(* Steps that leave the members of the list, their order and their         *)
(* distances alone.                                                        *)
LEMMA MapsSame ==
    ASSUME list' = list, \A y \in Timers : Contains(list, y) => Left(y)' = Left(y)
    PROVE  DueMap' = DueMap /\ BeforeMap' = BeforeMap
<1>1. DueMap' = DueMap
  BY DEF DueMap
<1>2. \A y, z \in Timers : << y, z >> \in BeforeMap' <=> << y, z >> \in BeforeMap
  <2> SUFFICES ASSUME NEW y \in Timers, NEW z \in Timers
               PROVE  << y, z >> \in BeforeMap' <=> << y, z >> \in BeforeMap
    OBVIOUS
  <2>1. Precedes(list, y, z) => Left(y)' = Left(y) /\ Left(z)' = Left(z)
    BY PrecedesMembers
  <2> QED BY <2>1, BeforeFacts
<1>3. BeforeMap' = BeforeMap
  BY <1>2, BeforeFacts, PairsEqual
<1> QED
  BY <1>1, <1>3

MapsStay == DueMap' = DueMap /\ BeforeMap' = BeforeMap /\ AskedMap' = AskedMap

LEMMA QuietMaps ==
    ASSUME TimerInv, NEW x \in Timers, Quiet(x)
    PROVE  MapsStay /\ check' = check
<1>1. TimerTypeOK /\ TimerTypeOK' /\ UNCHANGED << tick, list, check >>
  BY DEF TimerInv, Quiet
<1>2. \A y \in Timers \ {x} : Dist(y)' = Dist(y) /\ call'[y] = call[y]
  BY <1>1 DEF Quiet, Dist
<1>3. Contains(list, x) => Dist(x)' = Dist(x)
  BY <1>1 DEF Quiet, Dist
<1>4. \A y \in Timers : Dist(y)' = Dist(y) => Left(y)' = Left(y)
  BY <1>1, LeftKept
<1>5. DueMap' = DueMap /\ BeforeMap' = BeforeMap
  BY <1>1, <1>2, <1>3, <1>4, MapsSame
<1>6. AskedMap' = AskedMap
  BY <1>2, <1>4 DEF AskedMap, Quiet
<1> QED
  BY <1>1, <1>5, <1>6 DEF MapsStay

(* The countdown's actions, on the mapped state.                           *)
Asks(x, d) ==
    /\ check = "out" /\ check' = check /\ AskedMap[x] = -1
    /\ AskedMap' = [AskedMap EXCEPT ![x] = d]
    /\ DueMap' = DueMap /\ BeforeMap' = BeforeMap
Arms(x) ==
    /\ check = "out" /\ check' = check /\ AskedMap[x] # -1 /\ DueMap[x] = -1
    /\ DueMap' = [DueMap EXCEPT ![x] = AskedMap[x]]
    /\ \E Prior \in SUBSET DueSet(AskedMap[x]) :
         /\ AskedMap[x] > 0 => Prior = DueSet(AskedMap[x])
         /\ \A p \in BeforeMap : p[2] \in Prior => p[1] \in Prior
         /\ BeforeMap' = BeforeMap \cup (Prior \X {x}) \cup ({x} \X (DueSet(AskedMap[x]) \ Prior))
    /\ AskedMap' = [AskedMap EXCEPT ![x] = -1]
Forgets(x) ==
    DueMap' = [DueMap EXCEPT ![x] = -1] /\ BeforeMap' = {p \in BeforeMap : p[1] # x /\ p[2] # x}
Ticks1 ==
    /\ check = "out" /\ check' = "look"
    /\ DueMap' = [x \in Timers |-> IF DueMap[x] > 0 THEN DueMap[x] - 1 ELSE DueMap[x]]
    /\ BeforeMap' = BeforeMap \cup (DueSet(0) \X DueSet(1))
    /\ AskedMap' = [x \in Timers |-> IF AskedMap[x] > 0 THEN AskedMap[x] - 1 ELSE AskedMap[x]]

LEMMA StartAsks ==
    ASSUME TimerInv, NEW x \in Timers, TimerStart(x)
    PROVE  Asks(x, timer[x].init) /\ timer[x].init \in 0..Horizon
<1>1. /\ check = "out" /\ UNCHANGED << tick, list, check >> /\ TimerInv' /\ ~Contains(list, x)
      /\ Dist(x)' = timer[x].init /\ call[x].at = "out" /\ call'[x].at = "start"
  BY TimerStartStep DEF TimerStart, Thread
<1>2. TimerTypeOK /\ TimerTypeOK'
  BY <1>1 DEF TimerInv
<1>3. \A y \in Timers \ {x} : timer'[y] = timer[y] /\ call'[y] = call[y]
  BY AtCall DEF TimerStart, Goto
<1>4. \A y \in Timers \ {x} : Left(y)' = Left(y)
  BY <1>1, <1>2, <1>3, LeftKept DEF Dist
<1>5. DueMap' = DueMap /\ BeforeMap' = BeforeMap
  BY <1>1, <1>4, MapsSame
<1> DEFINE i == timer[x].init
<1>6. i \in Nat /\ i <= Horizon
  BY AtCall
<1>7. Left(x)' = i
  <2>1. Left(x)' = IF Dist(x)' >= 0 THEN Dist(x)' ELSE 0
    BY <1>2, LeftFactsNext
  <2> HIDE DEF i
  <2> QED BY <1>1, <1>6, <2>1 DEF i
<1> HIDE DEF i
<1>8. AskedMap' = [AskedMap EXCEPT ![x] = i] /\ AskedMap[x] = -1
  BY <1>1, <1>3, <1>4, <1>7 DEF AskedMap
<1>9. i \in 0..Horizon
  BY <1>6, TickFacts
<1> QED
  BY <1>1, <1>5, <1>8, <1>9 DEF Asks, i

LEMMA LinkArms ==
    ASSUME TimerInv, NEW x \in Timers, TimerLink(x)
    PROVE  Arms(x)
<1>1. /\ check = "out" /\ check' = check /\ TimerInv' /\ LinkedIn(list', list, x, Dist(x))
      /\ ~Contains(list, x) /\ call[x].at = "start" /\ call'[x].at = "out"
      /\ \A y \in Timers : Dist(y)' = Dist(y)
      /\ \A y \in Timers \ {x} : call'[y] = call[y]
  BY TimerLinkStep DEF TimerLink, Thread
<1>2. TimerTypeOK /\ TimerTypeOK' /\ Ordered(list)
  BY <1>1 DEF TimerInv
<1>3. \A y \in Timers : Left(y)' = Left(y) /\ Dist(y) \in Int
  BY <1>1, <1>2, LeftKept, TypeFacts
<1>4. \A y \in Timers : Left(y) = (IF Dist(y) >= 0 THEN Dist(y) ELSE 0) /\ Left(y) \in Nat /\ Left(y) # -1
  BY <1>2, LeftFacts
<1> DEFINE L == Left(x)
           Prior == {y \in Timers : Contains(list, y) /\ Left(y) = L /\ Dist(y) <= Dist(x)}
<1>5. AskedMap[x] = L /\ L # -1 /\ L \in Nat /\ DueMap[x] = -1
  BY <1>1, <1>4 DEF AskedMap, DueMap
<1>6. DueSet(L) = {y \in Timers : Contains(list, y) /\ Left(y) = L}
  BY <1>5 DEF DueSet, DueMap
<1>7. DueMap' = [DueMap EXCEPT ![x] = L]
  <2>1. \A y \in Timers : Contains(list', y) <=> Contains(list, y) \/ y = x
    BY <1>1 DEF LinkedIn
  <2> QED BY <1>3, <2>1 DEF DueMap
<1>8. AskedMap' = [AskedMap EXCEPT ![x] = -1]
  BY <1>1, <1>3 DEF AskedMap
<1>9. Prior \in SUBSET DueSet(L)
  BY <1>6
<1>10. L > 0 => Prior = DueSet(L)
  BY <1>3, <1>4, <1>6
<1>11. ASSUME NEW p \in BeforeMap, p[2] \in Prior PROVE p[1] \in Prior
  <2>1. p[1] \in Timers /\ p[2] \in Timers /\ Left(p[1]) = Left(p[2]) /\ Precedes(list, p[1], p[2])
    BY DEF BeforeMap
  <2>2. Dist(p[1]) <= Dist(p[2]) /\ Contains(list, p[1])
    BY <1>2, <2>1, PrecedesMembers DEF Ordered
  <2>3. Dist(p[1]) \in Int /\ Dist(p[2]) \in Int /\ Dist(x) \in Int /\ Dist(p[2]) <= Dist(x)
    BY <1>3, <1>11, <2>1
  <2>4. Dist(p[1]) <= Dist(x)
    <3> DEFINE a == Dist(p[1])
               b == Dist(p[2])
               e == Dist(x)
    <3> HIDE DEF a, b, e
    <3>1. a \in Int /\ b \in Int /\ e \in Int /\ a <= b /\ b <= e
      BY <2>2, <2>3 DEF a, b, e
    <3>2. a <= e
      BY <3>1
    <3> QED BY <3>2 DEF a, e
  <2> QED BY <1>11, <2>1, <2>2, <2>4
<1> DEFINE R == BeforeMap \cup (Prior \X {x}) \cup ({x} \X (DueSet(L) \ Prior))
<1>12. BeforeMap' = R
  <2>1. R \in SUBSET (Timers \X Timers)
    BY <1>6, BeforeFacts
  <2>2. ASSUME NEW y \in Timers, NEW z \in Timers
        PROVE  << y, z >> \in BeforeMap' <=> << y, z >> \in R
    <3>1. << y, z >> \in BeforeMap' <=> Left(y) = Left(z) /\ Precedes(list', y, z)
      BY <1>3, BeforeFacts
    <3>2. << y, z >> \in BeforeMap <=> Left(y) = Left(z) /\ Precedes(list, y, z)
      BY BeforeFacts
    <3>3. << y, z >> \in R <=> \/ << y, z >> \in BeforeMap
                               \/ y \in Prior /\ z = x
                               \/ y = x /\ z \in DueSet(L) \ Prior
      <4> HIDE DEF Prior
      <4> QED OBVIOUS
    <3>4. CASE y # x /\ z # x
      BY <1>1, <3>1, <3>2, <3>3, <3>4 DEF LinkedIn
    <3>5. ~Precedes(list, x, z) /\ ~Precedes(list, y, x)
      BY <1>1, PrecedesMembers
    <3>6. CASE z = x
      <4>1. Precedes(list', y, x) <=> Contains(list, y) /\ Dist(y) <= Dist(x)
        BY <1>1 DEF LinkedIn
      <4>2. x \notin DueSet(L)
        BY <1>1, <1>6
      <4> QED BY <3>1, <3>2, <3>3, <3>5, <3>6, <4>1, <4>2
    <3>7. CASE y = x /\ z # x
      <4>1. Precedes(list', x, z) <=> Contains(list, z) /\ Dist(z) > Dist(x)
        BY <1>1 DEF LinkedIn
      <4>2. z \in DueSet(L) \ Prior <=> Contains(list, z) /\ Left(z) = L /\ ~(Dist(z) <= Dist(x))
        BY <1>6
      <4>3. Dist(z) > Dist(x) <=> ~(Dist(z) <= Dist(x))
        BY <1>3
      <4> QED BY <3>1, <3>2, <3>3, <3>5, <3>7, <4>1, <4>2, <4>3
    <3> QED BY <3>4, <3>6, <3>7
  <2> HIDE DEF R
  <2> QED BY <2>1, <2>2, BeforeFacts, PairsEqual
<1> HIDE DEF L, Prior
<1> QED
  BY <1>1, <1>5, <1>7, <1>8, <1>9, <1>10, <1>11, <1>12 DEF Arms

(* A step that takes x out of the list and leaves the others alone.        *)
LEMMA Forgotten ==
    ASSUME NEW x \in Timers, \A y \in Timers \ {x} : Left(y)' = Left(y),
           \A y : Contains(list', y) <=> Contains(list, y) /\ y # x,
           \A y, z : Precedes(list', y, z) <=> Precedes(list, y, z) /\ y # x /\ z # x
    PROVE  Forgets(x)
<1> DEFINE R == {p \in BeforeMap : p[1] # x /\ p[2] # x}
<1>1. DueMap' = [DueMap EXCEPT ![x] = -1]
  BY DEF DueMap
<1>2. R \in SUBSET (Timers \X Timers)
  BY BeforeFacts
<1>3. ASSUME NEW y \in Timers, NEW z \in Timers
      PROVE  << y, z >> \in BeforeMap' <=> << y, z >> \in R
  <2>1. << y, z >> \in R <=> << y, z >> \in BeforeMap /\ y # x /\ z # x
    OBVIOUS
  <2> HIDE DEF R
  <2>2. << y, z >> \in BeforeMap <=> Left(y) = Left(z) /\ Precedes(list, y, z)
    BY BeforeFacts
  <2>3. << y, z >> \in BeforeMap' <=> Left(y)' = Left(z)' /\ Precedes(list', y, z)
    BY BeforeFacts
  <2> QED BY <2>1, <2>2, <2>3
<1> HIDE DEF R
<1>4. BeforeMap' = R
  BY <1>2, <1>3, BeforeFacts, PairsEqual
<1> QED
  BY <1>1, <1>4 DEF Forgets, R

LEMMA UnlinkForgets ==
    ASSUME TimerInv, NEW x \in Timers, Unlinks(x)
    PROVE  Forgets(x) /\ AskedMap' = AskedMap /\ check = "out" /\ check' = check
<1>1. /\ check = "out" /\ list' = Removed(list, x) /\ UNCHANGED << tick, check >> /\ TimerInv'
      /\ \A y \in Timers \ {x} : timer'[y] = timer[y] /\ call'[y] = call[y]
      /\ call[x].at # "start" /\ call'[x].at # "start"
  BY DEF Unlinks
<1>2. TimerTypeOK /\ TimerTypeOK' /\ list \in Seq(Timers) /\ Once(list)
  BY <1>1, TypeFacts DEF TimerInv, Ordered
<1>3. \A y \in Timers \ {x} : Left(y)' = Left(y)
  BY <1>1, <1>2, LeftKept DEF Dist
<1>4. /\ \A y : Contains(list', y) <=> Contains(list, y) /\ y # x
      /\ \A y, z : Precedes(list', y, z) <=> Precedes(list, y, z) /\ y # x /\ z # x
  BY <1>1, <1>2, RemovedFacts
<1>5. Forgets(x)
  BY <1>3, <1>4, Forgotten
<1>6. AskedMap' = AskedMap
  BY <1>1, <1>3 DEF AskedMap
<1> QED
  BY <1>1, <1>5, <1>6

LEMMA PrecedesTotal ==
    ASSUME NEW S, NEW s \in Seq(S), NEW y, NEW z, Contains(s, y), Contains(s, z), y # z
    PROVE  Precedes(s, y, z) \/ Precedes(s, z, y)
<1> DEFINE l == Len(s)
<1>1. l \in Nat
  BY LenProperties
<1>2. /\ Precedes(s, y, z) <=> \E i, j \in 1..l : i < j /\ s[i] = y /\ s[j] = z
      /\ Precedes(s, z, y) <=> \E i, j \in 1..l : i < j /\ s[i] = z /\ s[j] = y
  BY DEF Precedes
<1>3. (\E i \in 1..l : s[i] = y) /\ (\E i \in 1..l : s[i] = z)
  BY DEF Contains
<1> HIDE DEF l
<1>4. PICK i \in 1..l : s[i] = y
  BY <1>3
<1>5. PICK j \in 1..l : s[j] = z
  BY <1>3
<1>6. i < j \/ j < i
  BY <1>1, <1>4, <1>5
<1> QED
  BY <1>2, <1>4, <1>5, <1>6

LEMMA TickTicks ==
    ASSUME TimerInv, TickIncrease
    PROVE  Ticks1
<1>1. /\ check = "out" /\ check' = "look" /\ UNCHANGED << list, timer, call >> /\ TimerInv'
      /\ \A x \in Timers :
           Contains(list, x) \/ call[x].at = "start" => Dist(x)' = Dist(x) - 1
  BY TickIncreaseStep
<1>2. TimerTypeOK /\ TimerTypeOK' /\ list \in Seq(Timers) /\ Ordered(list)
  BY <1>1, TypeFacts DEF TimerInv
<1>3. \A x \in Timers : /\ Dist(x) \in Int /\ Left(x) \in Nat /\ Left(x) # -1
                        /\ Left(x) = IF Dist(x) >= 0 THEN Dist(x) ELSE 0
                        /\ Left(x)' = IF Dist(x)' >= 0 THEN Dist(x)' ELSE 0
  BY <1>2, TypeFacts, LeftFacts, LeftFactsNext
<1>4. ASSUME NEW x \in Timers, Contains(list, x) \/ call[x].at = "start"
      PROVE  Left(x)' = IF Left(x) > 0 THEN Left(x) - 1 ELSE Left(x)
  <2> DEFINE a == Dist(x)
             b == Dist(x)'
             c == Left(x)
             e == Left(x)'
  <2>1. /\ a \in Int /\ b = a - 1 /\ c = (IF a >= 0 THEN a ELSE 0)
        /\ e = IF b >= 0 THEN b ELSE 0
    BY <1>1, <1>3, <1>4
  <2> HIDE DEF a, b, c, e
  <2>2. e = IF c > 0 THEN c - 1 ELSE c
    BY <2>1
  <2> QED BY <2>2 DEF c, e
<1>5. DueMap' = [x \in Timers |-> IF DueMap[x] > 0 THEN DueMap[x] - 1 ELSE DueMap[x]]
  <2> SUFFICES ASSUME NEW x \in Timers
               PROVE  DueMap'[x] = IF DueMap[x] > 0 THEN DueMap[x] - 1 ELSE DueMap[x]
    BY DEF DueMap
  <2>1. CASE Contains(list, x)
    <3>1. DueMap'[x] = Left(x)' /\ DueMap[x] = Left(x)
      BY <1>1, <2>1 DEF DueMap
    <3> QED BY <1>4, <2>1, <3>1
  <2>2. CASE ~Contains(list, x)
    <3>1. DueMap'[x] = -1 /\ DueMap[x] = -1
      BY <1>1, <2>2 DEF DueMap
    <3> QED BY <3>1
  <2> QED BY <2>1, <2>2
<1>6. AskedMap' = [x \in Timers |-> IF AskedMap[x] > 0 THEN AskedMap[x] - 1 ELSE AskedMap[x]]
  <2> SUFFICES ASSUME NEW x \in Timers
               PROVE  AskedMap'[x] = IF AskedMap[x] > 0 THEN AskedMap[x] - 1 ELSE AskedMap[x]
    BY DEF AskedMap
  <2>1. CASE call[x].at = "start"
    <3>1. AskedMap'[x] = Left(x)' /\ AskedMap[x] = Left(x)
      BY <1>1, <2>1 DEF AskedMap
    <3> QED BY <1>4, <2>1, <3>1
  <2>2. CASE call[x].at # "start"
    <3>1. AskedMap'[x] = -1 /\ AskedMap[x] = -1
      BY <1>1, <2>2 DEF AskedMap
    <3> QED BY <3>1
  <2> QED BY <2>1, <2>2
<1> DEFINE R == BeforeMap \cup (DueSet(0) \X DueSet(1))
<1>7. \A d \in {0, 1} : DueSet(d) = {x \in Timers : Contains(list, x) /\ Left(x) = d}
  BY DEF DueSet, DueMap
<1>8. R \in SUBSET (Timers \X Timers)
  BY BeforeFacts DEF DueSet
<1>9. ASSUME NEW y \in Timers, NEW z \in Timers
      PROVE  << y, z >> \in BeforeMap' <=> << y, z >> \in R
  <2>1. << y, z >> \in BeforeMap' <=> Left(y)' = Left(z)' /\ Precedes(list, y, z)
    BY <1>1, BeforeFacts
  <2>2. << y, z >> \in BeforeMap <=> Left(y) = Left(z) /\ Precedes(list, y, z)
    BY BeforeFacts
  <2>3. << y, z >> \in R <=> \/ << y, z >> \in BeforeMap
                             \/ y \in DueSet(0) /\ z \in DueSet(1)
    OBVIOUS
  <2>4. y \in DueSet(0) /\ z \in DueSet(1) <=>
          Contains(list, y) /\ Contains(list, z) /\ Left(y) = 0 /\ Left(z) = 1
    BY <1>7
  <2> HIDE DEF R
  <2> DEFINE a == Dist(y)
             b == Dist(z)
             m == Left(y)
             n == Left(z)
             k == Left(y)'
             l == Left(z)'
  <2>5. /\ a \in Int /\ b \in Int /\ m = (IF a >= 0 THEN a ELSE 0) /\ n = (IF b >= 0 THEN b ELSE 0)
        /\ Contains(list, y) => k = (IF m > 0 THEN m - 1 ELSE m)
        /\ Contains(list, z) => l = (IF n > 0 THEN n - 1 ELSE n)
    BY <1>3, <1>4
  <2>6. Precedes(list, y, z) => Contains(list, y) /\ Contains(list, z) /\ a <= b
    BY <1>2, PrecedesMembers DEF Ordered
  <2>7. Precedes(list, z, y) => b <= a
    BY <1>2 DEF Ordered
  <2>8. Contains(list, y) /\ Contains(list, z) /\ y # z => Precedes(list, y, z) \/ Precedes(list, z, y)
    BY <1>2, PrecedesTotal
  <2>9. y = z => m = n
    OBVIOUS
  <2>10. /\ << y, z >> \in BeforeMap' <=> k = l /\ Precedes(list, y, z)
         /\ << y, z >> \in R <=> \/ m = n /\ Precedes(list, y, z)
                                 \/ Contains(list, y) /\ Contains(list, z) /\ m = 0 /\ n = 1
    BY <2>1, <2>2, <2>3, <2>4
  <2> HIDE DEF a, b, m, n, k, l
  <2> QED BY <2>5, <2>6, <2>7, <2>8, <2>9, <2>10
<1> HIDE DEF R
<1>10. BeforeMap' = R
  <2>1. BeforeMap' \in SUBSET (Timers \X Timers)
    BY BeforeFacts
  <2>2. \A y, z \in Timers : << y, z >> \in BeforeMap' <=> << y, z >> \in R
    BY <1>9
  <2> QED BY <1>8, <2>1, <2>2, PairsEqual, Zenon
<1> QED
  BY <1>1, <1>5, <1>6, <1>10 DEF Ticks1, R
Fires(x) ==
    /\ check = "look" /\ check' = x /\ DueMap[x] = 0 /\ \A y \in Timers : << y, x >> \notin BeforeMap
    /\ Forgets(x) /\ AskedMap' = AskedMap
EndsTurn(x) ==
    /\ check = x /\ check' = "look" /\ AskedMap' = AskedMap
    /\ \/ DueMap' = DueMap /\ BeforeMap' = BeforeMap
       \/ \E d \in 1..Horizon :
            /\ DueMap' = [DueMap EXCEPT ![x] = d]
            /\ BeforeMap' = BeforeMap \cup (DueSet(d) \X {x})

LEMMA ExpireFires ==
    ASSUME TimerInv, CheckExpire
    PROVE  \E x \in Timers : Fires(x)
<1>0. PICK h : h = Head(list)
  OBVIOUS
<1>1. /\ check = "look" /\ list # << >> /\ check' = h /\ list' = Tail(list) /\ TimerInv'
      /\ UNCHANGED << tick, timer, call >> /\ Dist(h) <= 0
  BY <1>0, CheckExpireStep
<1>2. TimerTypeOK /\ TimerTypeOK' /\ list \in Seq(Timers) /\ Once(list)
  BY <1>1, TypeFacts DEF TimerInv, Ordered
<1>3. /\ h \in Timers /\ Contains(list, h) /\ \A y : ~Precedes(list, y, h)
      /\ \A y : Contains(list', y) <=> Contains(list, y) /\ y # h
      /\ \A y, z : Precedes(list', y, z) <=> Precedes(list, y, z) /\ y # h /\ z # h
  BY <1>0, <1>1, <1>2, TailFacts
<1>4. \A y \in Timers : Left(y)' = Left(y)
  BY <1>1, <1>2, LeftKept DEF Dist
<1>5. Forgets(h)
  BY <1>3, <1>4, Forgotten
<1>6. AskedMap' = AskedMap
  BY <1>1, <1>4 DEF AskedMap
<1>7. DueMap[h] = 0
  <2>1. Left(h) = (IF Dist(h) >= 0 THEN Dist(h) ELSE 0) /\ Dist(h) \in Int
    BY <1>2, <1>3, LeftFacts, TypeFacts
  <2>2. Left(h) = 0
    BY <1>1, <2>1
  <2> QED BY <1>3, <2>2 DEF DueMap
<1>8. \A y \in Timers : << y, h >> \notin BeforeMap
  BY <1>3, BeforeFacts
<1> QED
  BY <1>1, <1>3, <1>5, <1>6, <1>7, <1>8 DEF Fires

LEMMA ReturnReturns ==
    ASSUME TimerInv, CheckReturn
    PROVE  \E x \in Timers : EndsTurn(x)
<1>0. PICK x : x = check
  OBVIOUS
<1>1. /\ TimerInv' /\ x \in Timers /\ ~Contains(list, x) /\ check' = "look" /\ call' = call
      /\ \A y \in Timers \ {x} : Dist(y)' = Dist(y)
      /\ list' = list \/ \E d \in 1..Horizon : Rearms(x, d)
      /\ call[x].at # "start"
  BY <1>0, CheckReturnStep
<1>2. TimerTypeOK /\ TimerTypeOK' /\ \A y \in Timers : Dist(y) \in Int
  BY <1>1, TypeFacts DEF TimerInv
<1>3. \A y \in Timers \ {x} : Left(y)' = Left(y)
  BY <1>1, <1>2, LeftKept
<1>4. AskedMap' = AskedMap
  BY <1>1, <1>3 DEF AskedMap
<1>5. CASE list' = list
  <2>1. DueMap' = DueMap /\ BeforeMap' = BeforeMap
    BY <1>1, <1>3, <1>5, MapsSame
  <2> QED BY <1>0, <1>1, <1>4, <2>1 DEF EndsTurn
<1>6. ASSUME NEW d \in 1..Horizon, Rearms(x, d) PROVE EndsTurn(x)
  <2>1. LinkedIn(list', list, x, d) /\ Dist(x)' = d /\ d \in Int /\ d > 0
    BY <1>6, TickFacts DEF Rearms
  <2>2. Left(x)' = d
    <3>1. Left(x)' = IF Dist(x)' >= 0 THEN Dist(x)' ELSE 0
      BY <1>1, <1>2, LeftFactsNext
    <3> QED BY <2>1, <3>1
  <2>3. /\ \A y \in Timers : Contains(list', y) <=> Contains(list, y) \/ y = x
        /\ \A y, z : y # x /\ z # x => (Precedes(list', y, z) <=> Precedes(list, y, z))
        /\ \A y \in Timers : Precedes(list', y, x) <=> Contains(list, y) /\ Dist(y) <= d
        /\ \A y \in Timers : Precedes(list', x, y) <=> Contains(list, y) /\ Dist(y) > d
    BY <2>1 DEF LinkedIn
  <2>4. DueMap' = [DueMap EXCEPT ![x] = d]
    BY <1>3, <2>2, <2>3 DEF DueMap
  <2>5. DueSet(d) = {y \in Timers : Contains(list, y) /\ Left(y) = d}
    <3>1. d # -1
      BY <2>1
    <3> QED BY <3>1 DEF DueSet, DueMap
  <2>6. \A y \in Timers : /\ Left(y) = d => Dist(y) = d
                          /\ Dist(y) > d => Left(y) # d
    <3>1. \A y \in Timers : Left(y) = IF Dist(y) >= 0 THEN Dist(y) ELSE 0
      BY <1>2, LeftFacts
    <3> QED BY <1>2, <2>1, <3>1
  <2> DEFINE R == BeforeMap \cup (DueSet(d) \X {x})
  <2>7. R \in SUBSET (Timers \X Timers)
    BY <1>1, BeforeFacts DEF DueSet
  <2>8. ASSUME NEW y \in Timers, NEW z \in Timers
        PROVE  << y, z >> \in BeforeMap' <=> << y, z >> \in R
    <3>1. << y, z >> \in BeforeMap' <=> Left(y)' = Left(z)' /\ Precedes(list', y, z)
      BY BeforeFacts
    <3>2. << y, z >> \in BeforeMap <=> Left(y) = Left(z) /\ Precedes(list, y, z)
      BY BeforeFacts
    <3>3. << y, z >> \in R <=> << y, z >> \in BeforeMap \/ (y \in DueSet(d) /\ z = x)
      OBVIOUS
    <3> HIDE DEF R
    <3>4. ~Precedes(list, x, z) /\ ~Precedes(list, y, x)
      BY <1>1, PrecedesMembers
    <3>5. CASE y # x /\ z # x
      BY <1>3, <2>3, <3>1, <3>2, <3>3, <3>5
    <3>6. CASE y # x /\ z = x
      <4>1. Left(y)' = Left(z)' /\ Precedes(list', y, z) <=>
              Contains(list, y) /\ Dist(y) <= d /\ Left(y) = d
        BY <1>3, <2>2, <2>3, <3>6
      <4>2. Left(y) = d => Dist(y) <= d
        BY <2>1, <2>6
      <4> QED BY <2>5, <3>1, <3>2, <3>3, <3>4, <3>6, <4>1, <4>2
    <3>7. CASE y = x /\ z # x
      <4>1. ~(Left(y)' = Left(z)' /\ Precedes(list', y, z))
        BY <1>3, <2>2, <2>3, <2>6, <3>7
      <4> QED BY <3>1, <3>2, <3>3, <3>4, <3>7, <4>1
    <3>8. CASE y = x /\ z = x
      <4>1. ~Precedes(list', x, x) /\ x \notin DueSet(d)
        BY <1>1, <2>3, <2>5
      <4> QED BY <3>1, <3>2, <3>3, <3>4, <3>8, <4>1
    <3> QED BY <3>5, <3>6, <3>7, <3>8
  <2> HIDE DEF R
  <2>9. BeforeMap' = R
    <3>1. BeforeMap' \in SUBSET (Timers \X Timers)
      BY BeforeFacts
    <3>2. \A y, z \in Timers : << y, z >> \in BeforeMap' <=> << y, z >> \in R
      BY <2>8
    <3> QED BY <2>7, <3>1, <3>2, PairsEqual, Zenon
  <2> QED BY <1>0, <1>1, <1>4, <2>4, <2>9 DEF EndsTurn, R
<1> QED
  BY <1>1, <1>5, <1>6

LEMMA DoneServed ==
    ASSUME TimerInv, CheckDone
    PROVE  check = "look" /\ check' = "out" /\ MapsStay /\ DueSet(0) = {}
<1>1. /\ TimerInv' /\ check = "look" /\ check' = "out" /\ UNCHANGED << tick, list, timer, call >>
      /\ \A y \in Timers : Contains(list, y) => Dist(y) > 0
  BY CheckDoneStep
<1>2. TimerTypeOK /\ TimerTypeOK' /\ \A y \in Timers : Dist(y) \in Int
  BY <1>1, TypeFacts DEF TimerInv
<1>3. \A y \in Timers : Left(y)' = Left(y)
  BY <1>1, <1>2, LeftKept DEF Dist
<1>4. DueMap' = DueMap /\ BeforeMap' = BeforeMap
  BY <1>1, <1>3, MapsSame
<1>5. AskedMap' = AskedMap
  BY <1>1, <1>3 DEF AskedMap
<1>6. \A y \in Timers : Contains(list, y) => Left(y) # 0
  <2>1. \A y \in Timers : Left(y) = IF Dist(y) >= 0 THEN Dist(y) ELSE 0
    BY <1>2, LeftFacts
  <2> QED BY <1>1, <1>2, <2>1
<1>7. DueSet(0) = {}
  BY <1>6 DEF DueSet, DueMap
<1> QED
  BY <1>1, <1>4, <1>5, <1>7 DEF MapsStay

(* What the steps do to the mapped state are the countdown's actions.       *)
LEMMA CountdownSteps ==
    ASSUME TimerInv, TimerInv'
    PROVE  /\ \A x \in Timers, d \in 0..Horizon : Asks(x, d) => TimerCountdown!Ask(x, d)
           /\ \A x \in Timers : Arms(x) => TimerCountdown!Arm(x)
           /\ \A x \in Timers :
                Forgets(x) /\ AskedMap' = AskedMap /\ check = "out" /\ check' = check
                  => TimerCountdown!Disarm(x)
           /\ \A x \in Timers : Fires(x) => TimerCountdown!Fire(x)
           /\ \A x \in Timers : EndsTurn(x) => TimerCountdown!Return
           /\ Ticks1 => TimerCountdown!Tick
           /\ check = "look" /\ check' = "out" /\ MapsStay /\ DueSet(0) = {} => TimerCountdown!Served
<1>0. \A x \in Timers : x # "out" /\ x # "look" /\ x # "none"
  BY TimerAssumption
<1>00. "out" \notin Timers /\ "look" \notin Timers
  BY <1>0
<1>1. ASSUME NEW x \in Timers, NEW d \in 0..Horizon, Asks(x, d) PROVE TimerCountdown!Ask(x, d)
  BY <1>1 DEF Asks, AskedMap, DueMap, BeforeMap, TimerCountdown!Ask, TimerCountdown!Off
<1>2. ASSUME NEW x \in Timers, Arms(x) PROVE TimerCountdown!Arm(x)
  BY <1>2 DEF Arms, AskedMap, DueMap, BeforeMap, DueSet, TimerCountdown!Arm, TimerCountdown!Off,
     TimerCountdown!DueIn
<1>3. ASSUME NEW x \in Timers, Forgets(x), AskedMap' = AskedMap, check = "out", check' = check
      PROVE  TimerCountdown!Disarm(x)
  BY <1>3 DEF Forgets, AskedMap, DueMap, BeforeMap, TimerCountdown!Disarm, TimerCountdown!Off,
     TimerCountdown!Forget
<1>4. ASSUME NEW x \in Timers, Fires(x) PROVE TimerCountdown!Fire(x)
  BY <1>0, <1>00, <1>4 DEF Fires, Forgets, AskedMap, DueMap, BeforeMap, TimerCountdown!Fire,
     TimerCountdown!Off, TimerCountdown!Forget
<1>5. ASSUME NEW x \in Timers, EndsTurn(x) PROVE TimerCountdown!Return
  BY <1>0, <1>00, <1>5 DEF EndsTurn, AskedMap, DueMap, BeforeMap, DueSet, TimerCountdown!Return,
     TimerCountdown!DueIn
<1>6. ASSUME Ticks1 PROVE TimerCountdown!Tick
  BY <1>00, <1>6 DEF Ticks1, AskedMap, DueMap, BeforeMap, DueSet, TimerCountdown!Tick,
     TimerCountdown!DueIn
<1>7. ASSUME check = "look", check' = "out", MapsStay, DueSet(0) = {} PROVE TimerCountdown!Served
  BY <1>00, <1>7 DEF MapsStay, AskedMap, DueMap, BeforeMap, DueSet, TimerCountdown!Served,
     TimerCountdown!DueIn
<1> QED
  BY <1>1, <1>2, <1>3, <1>4, <1>5, <1>6, <1>7

LEMMA TimerEffects ==
    ASSUME TimerInv, TimerInv', [TimerNext]_timerVars
    PROVE  TimerCountdown!Next \/ (MapsStay /\ check' = check)
<1>1. ASSUME NEW x \in Timers, TimerStart(x) PROVE TimerCountdown!Next
  <2>1. PICK d \in 0..Horizon : Asks(x, d)
    BY <1>1, StartAsks
  <2>2. TimerCountdown!Ask(x, d)
    BY <2>1, CountdownSteps
  <2> QED BY <2>2 DEF TimerCountdown!Next
<1>2. ASSUME NEW x \in Timers, TimerLink(x) PROVE TimerCountdown!Next
  <2>1. TimerCountdown!Arm(x)
    BY <1>2, LinkArms, CountdownSteps
  <2> QED BY <2>1 DEF TimerCountdown!Next
<1>3. ASSUME NEW x \in Timers, TimerUnlink(x) \/ TimerDetach(x) PROVE TimerCountdown!Next
  <2>1. Unlinks(x)
    BY <1>3, UnlinkSteps
  <2>2. TimerCountdown!Disarm(x)
    BY <2>1, UnlinkForgets, CountdownSteps
  <2> QED BY <2>2 DEF TimerCountdown!Next
<1>4. ASSUME NEW x \in Timers, TimerStop(x) \/ TimerClear(x) \/ ReadFlag(x) \/ StoreFlag(x)
      PROVE  MapsStay /\ check' = check
  BY <1>4, TimerStopStep, TimerClearStep, ReadFlagStep, StoreFlagStep, QuietMaps
<1>5. ASSUME NEW x \in Timers, NEW d \in Times, SetTime(x, d) \/ TimerCreate(x, d)
      PROVE  MapsStay /\ check' = check
  BY <1>5, SetTimeStep, QuietCreate, QuietMaps
<1>6. CASE TickIncrease
  <2>1. TimerCountdown!Tick
    BY <1>6, TickTicks, CountdownSteps
  <2> QED BY <2>1 DEF TimerCountdown!Next
<1>7. CASE CheckExpire
  <2>1. PICK x \in Timers : Fires(x)
    BY <1>7, ExpireFires
  <2>2. TimerCountdown!Fire(x)
    BY <2>1, CountdownSteps
  <2> QED BY <2>2 DEF TimerCountdown!Next
<1>8. CASE CheckReturn
  <2>1. TimerCountdown!Return
    BY <1>8, ReturnReturns, CountdownSteps
  <2> QED BY <2>1 DEF TimerCountdown!Next
<1>9. CASE CheckDone
  <2>1. TimerCountdown!Served
    BY <1>9, DoneServed, CountdownSteps
  <2> QED BY <2>1 DEF TimerCountdown!Next
<1>10. CASE UNCHANGED timerVars
  BY <1>10 DEF timerVars, MapsStay, DueMap, BeforeMap, AskedMap, Left, Behind
<1> QED
  BY <1>1, <1>2, <1>3, <1>4, <1>5, <1>6, <1>7, <1>8, <1>9, <1>10 DEF TimerNext, ClockStep

(* Every step of timer.c, seen through the distances of the timers in the  *)
(* list, is a step of a countdown without a clock: rt_timer_check calls    *)
(* exactly the timers that are due, each at its tick and in the order they *)
(* were linked, for every number of timers and every width of rt_tick,     *)
(* although rt_tick wraps and the tick interrupt comes between the calls'  *)
(* sections.                                                               *)
THEOREM TimersRefineCountdown == TimerSpec => TimersImplementCountdown
<1>1. TimerInit => TimerCountdown!Init
  <2> SUFFICES ASSUME TimerInit PROVE TimerCountdown!Init
    OBVIOUS
  <2>1. list = << >> /\ check = "out" /\ call = [x \in Timers |-> Outside]
    BY DEF TimerInit
  <2>2. (\A x : ~Contains(list, x)) /\ \A x, y : ~Precedes(list, x, y)
    <3>1. Len(list) = 0
      BY <2>1
    <3>2. 1..0 = {}
      OBVIOUS
    <3> QED BY <3>1, <3>2 DEF Contains, Precedes
  <2>3. \A x \in Timers : call[x].at # "start"
    BY <2>1 DEF Outside
  <2>4. "out" \notin Timers
    BY TimerAssumption
  <2> QED BY <2>1, <2>2, <2>3, <2>4 DEF TimerCountdown!Init, TimerCountdown!Off
<1>2. TimerInv /\ TimerInv' /\ [TimerNext]_timerVars
        => [TimerCountdown!Next]_<< [x \in Timers |-> IF Contains(list, x) THEN Left(x) ELSE -1],
              {p \in Timers \X Timers : Left(p[1]) = Left(p[2]) /\ Precedes(list, p[1], p[2])},
              [x \in Timers |-> IF call[x].at = "start" THEN Left(x) ELSE -1],
              check # "out", IF check \in Timers THEN check ELSE "none" >>
  BY TimerEffects DEF MapsStay, DueMap, BeforeMap, AskedMap
<1> QED
  BY <1>1, <1>2, TimerInvariant, PTL
  DEF TimerSpec, TimersImplementCountdown, TimerCountdown!Spec, TimerCountdown!countdownVars

-----------------------------------------------------------------------------
(* The two services together.                                              *)

(* The headers, lfree and used_mem of mem.c and the clock, the expiry      *)
(* times, the list and the flag bytes of timer.c keep their types, and a   *)
(* thread inside rt_realloc still holds the block it is moving, whatever   *)
(* other threads and the tick interrupt do between its calls' sections.    *)
THEOREM ServicesTypeCorrect == Spec => []TypeOK
<1> DEFINE Inv == HeapInv /\ TimerInv
<1>1. Init => Inv
  BY HeapInvInit, TimerInvInit DEF Init
<1>2. Inv /\ [Next]_vars => Inv'
  <2> SUFFICES ASSUME HeapInv, TimerInv, [Next]_vars PROVE HeapInv' /\ TimerInv'
    OBVIOUS
  <2>1. [HeapNext]_heapVars /\ [TimerNext]_timerVars
    <3>1. CASE HeapStep
      BY <3>1 DEF HeapStep
    <3>2. CASE TimerStep
      BY <3>2 DEF TimerStep
    <3>3. CASE UNCHANGED vars
      BY <3>3 DEF vars
    <3> QED BY <3>1, <3>2, <3>3 DEF Next
  <2> QED BY <2>1, HeapSteps, TimerSteps
<1>3. Inv => TypeOK
  BY HeapInvTypes DEF TimerInv, TypeOK
<1> QED
  BY <1>1, <1>2, <1>3, PTL DEF Spec
=============================================================================
